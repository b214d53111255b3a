--------------------------------- MODULE Exit ---------------------------------
(***************************************************************************)
(* libc/exit.c and __davecc_run_fini of libc/davecc_lifecycle.c: handlers  *)
(* registered by atexit and __cxa_atexit, called by exit and by            *)
(* __cxa_finalize of one library.  A call detaches its entries under the   *)
(* lock and calls them one after another without it, until it finds no     *)
(* more; a handler may register others, finalize a library or call exit,   *)
(* and other threads do the same meanwhile.  A thread has a frame for      *)
(* every __cxa_finalize it is in.  Each critical section is one step.      *)
(***************************************************************************)
EXTENDS Integers, Sequences, FiniteSets, SequencesExt

CONSTANTS
    Threads,
    Handlers,
    Dso,            \* [Handlers -> libraries \cup {Null}]
    Null,           \* no library; __cxa_finalize(NULL) takes every entry
    MaxDepth        \* bound: finalizations one thread is in

\* What is assumed of the constants.
ExitConstants == MaxDepth \in Nat

VARIABLES
    functions,      \* __davecc_exit_functions, newest first
    finiDone,       \* __davecc_fini_done
    frames,         \* [Threads -> frames of __cxa_finalize, innermost last]
    ended,          \* the process: "no", "clean" after the handlers, "at once"
    registered,     \* every handler ever registered, in that order
    called,         \* in that order
    taken           \* [Handlers -> when it was detached, and of which library]

vars == <<functions, finiDone, frames, ended, registered, called, taken>>

Libraries == Range(Dso) \ {Null}

Init ==
    /\ functions = << >> /\ finiDone = FALSE
    /\ frames = [t \in Threads |-> << >>]
    /\ ended = "no" /\ registered = << >> /\ called = << >>
    /\ taken = [h \in Handlers |-> << >>]

-----------------------------------------------------------------------------
Frame(dso, exiting) ==
    [dso |-> dso, entries |-> << >>, running |-> FALSE, exiting |-> exiting,
     found |-> registered]

Top(t) == Last(frames[t])

SetTop(t, frame) == frames' = [frames EXCEPT ![t] = Append(Front(@), frame)]

\* A thread executes the program or the body of a handler.
Free(t) == ended = "no" /\ (frames[t] # << >> => Top(t).running)

RegisterExitFunction(t) ==
    /\ Free(t)
    /\ \E h \in Handlers \ Range(registered) :
          functions' = <<h>> \o functions /\ registered' = Append(registered, h)
    /\ UNCHANGED <<finiDone, frames, ended, called, taken>>

CxaFinalize(t) ==
    /\ Free(t) /\ Len(frames[t]) < MaxDepth
    /\ \E d \in Libraries : frames' = [frames EXCEPT ![t] = Append(@, Frame(d, FALSE))]
    /\ UNCHANGED <<functions, finiDone, ended, registered, called, taken>>

\* exit: the second one finds the finalization done and ends the process at once.
CallExit(t) ==
    /\ Free(t)
    /\ IF finiDone
       THEN ended' = "at once" /\ UNCHANGED <<finiDone, frames>>
       ELSE /\ Len(frames[t]) < MaxDepth
            /\ finiDone' = TRUE
            /\ frames' = [frames EXCEPT ![t] = Append(@, Frame(Null, TRUE))]
            /\ UNCHANGED ended
    /\ UNCHANGED <<functions, registered, called, taken>>

\* Seeded fault: the search stops at the entry of another library.
LeadingOfDso(d) ==
    LET other == SelectInSeq(functions, LAMBDA h : d # Null /\ Dso[h] # d) IN
    IF other = 0 THEN functions ELSE SubSeq(functions, 1, other - 1)

\* The entries of a list that are wanted, as the walk past the first n finds them.
Picked(list, wanted) ==
    LET picked[n \in 0 .. Len(list)] ==
            IF n = 0 THEN << >>
            ELSE IF list[n] \in wanted THEN Append(picked[n - 1], list[n])
            ELSE picked[n - 1]
    IN  picked[Len(list)]

OfLibrary(d) == {h \in Handlers : d = Null \/ Dso[h] = d}

OfDso(d) == Picked(functions, OfLibrary(d))

\* Seeded fault: what is detached stays on the list.
RemainingAll(d) == functions

Remaining(d) == Picked(functions, Handlers \ OfLibrary(d))

\* Seeded fault: the oldest entry comes first.
DetachedOldestFirst(d) == Reverse(OfDso(d))

Detached(d) == OfDso(d)

\* Seeded fault: a finalization looks for entries once.
MoreOnce(t) == Detached(Top(t).dso) # << >> /\ Range(called) \cap Range(Top(t).found) = {}

More(t) == Detached(Top(t).dso) # << >>

\* DetachExitFunctions; with nothing left __cxa_finalize returns, and exit ends.
DetachExitFunctions(t) ==
    /\ ended = "no" /\ frames[t] # << >> /\ Top(t).entries = << >> /\ ~Top(t).running
    /\ LET d == Top(t).dso IN
       IF More(t)
       THEN /\ SetTop(t, [Top(t) EXCEPT !.entries = Detached(d)])
            /\ functions' = Remaining(d)
            /\ taken' = [h \in Handlers |->
                            IF h \in Range(Detached(d)) THEN <<Len(registered), d>> ELSE taken[h]]
            /\ UNCHANGED ended
       ELSE /\ frames' = [frames EXCEPT ![t] = Front(@)]
            /\ ended' = IF Top(t).exiting THEN "clean" ELSE ended
            /\ UNCHANGED <<functions, taken>>
    /\ UNCHANGED <<finiDone, registered, called>>

InvokeExitFunction(t) ==
    /\ ended = "no" /\ frames[t] # << >> /\ Top(t).entries # << >> /\ ~Top(t).running
    /\ called' = Append(called, Head(Top(t).entries))
    /\ SetTop(t, [Top(t) EXCEPT !.entries = Tail(@), !.running = TRUE])
    /\ UNCHANGED <<functions, finiDone, ended, registered, taken>>

HandlerReturns(t) ==
    /\ ended = "no" /\ frames[t] # << >> /\ Top(t).running
    /\ SetTop(t, [Top(t) EXCEPT !.running = FALSE])
    /\ UNCHANGED <<functions, finiDone, ended, registered, called, taken>>

Ended == ended # "no" /\ UNCHANGED vars

Next ==
    \/ \E t \in Threads :
        \/ RegisterExitFunction(t) \/ CxaFinalize(t) \/ CallExit(t)
        \/ DetachExitFunctions(t) \/ InvokeExitFunction(t) \/ HandlerReturns(t)
    \/ Ended

Spec == Init /\ [][Next]_vars

-----------------------------------------------------------------------------
Waiting(t) == UNION {Range(frames[t][i].entries) : i \in DOMAIN frames[t]}

RegisteredBefore(a, b) ==
    \E i, j \in DOMAIN registered : i < j /\ registered[i] = a /\ registered[j] = b

CalledAt(h) == CHOOSE i \in DOMAIN called : called[i] = h

(***************************************************************************)
(* A handler is in one place: on the list, detached by one frame of one    *)
(* thread, or called, and called once.                                     *)
(***************************************************************************)
HandlersConserved ==
    /\ \A i, j \in DOMAIN called : i # j => called[i] # called[j]
    /\ \A t, u \in Threads : t # u => Waiting(t) \cap Waiting(u) = {}
    /\ \A t \in Threads : Waiting(t) \cap (Range(called) \cup Range(functions)) = {}
    /\ Range(functions) \cap Range(called) = {}
    /\ Range(registered) =
          Range(called) \cup Range(functions) \cup UNION {Waiting(t) : t \in Threads}

(***************************************************************************)
(* Handlers are called in the reverse order of registration: of two, the   *)
(* earlier is called first only when the later was registered after the    *)
(* earlier had been detached ("If atexit is called from an atexit func it  *)
(* must be called after all currently registered atexit funcs."), or when  *)
(* one of them was detached for its library alone.                         *)
(***************************************************************************)
ReverseOrder ==
    \A a, b \in Range(called) :
        (RegisteredBefore(a, b) /\ CalledAt(a) < CalledAt(b)) =>
            taken[a] # taken[b]

(***************************************************************************)
(* When exit ends the process after its handlers, none is uncalled except  *)
(* those that a thread is still about to call in a finalization of its own.*)
(***************************************************************************)
CallsThemAll ==
    (ended' = "clean" /\ ended = "no") =>
        Range(registered) = Range(called) \cup UNION {Waiting(t) : t \in Threads}

ExitCallsThemAll == [][CallsThemAll]_vars

(***************************************************************************)
(* When __cxa_finalize of a library returns, every handler of the library  *)
(* that was registered before the call has been called, unless another     *)
(* finalization had already detached it: that of exit, or of another       *)
(* thread, which may call it when the library is gone.                     *)
(***************************************************************************)
CallsBeforeUnload ==
    \A t \in Threads :
        (Len(frames'[t]) < Len(frames[t]) /\ ~Top(t).exiting) =>
            \A h \in Range(Top(t).found) :
                Dso[h] = Top(t).dso =>
                    h \in Range(called) \cup UNION {Waiting(u) : u \in Threads}

FinalizedBeforeUnload == [][CallsBeforeUnload]_vars

\* No handler is lost or called twice or out of order, at exit or when a
\* library goes (exit.c).
HandlersSafe ==
    [](HandlersConserved /\ ReverseOrder) /\ ExitCallsThemAll /\ FinalizedBeforeUnload
=============================================================================
