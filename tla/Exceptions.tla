----------------------------- MODULE Exceptions -----------------------------
(***************************************************************************)
(* One thread's exceptions: libc/eh_cxa.c, _Unwind_RaiseException and      *)
(* _Unwind_Resume of libc/unwind_api.c, and the landing pads the compiler  *)
(* emits.  The client is a stack of scopes: try blocks, objects with a     *)
(* destructor, handlers, destructors that the unwinder called, and the     *)
(* argument of rethrow_exception.  It throws, rethrows and copies          *)
(* exception_ptrs as it likes.                                             *)
(*                                                                         *)
(* A handler catches every type, and an exception is thrown only where one *)
(* is ahead, as otherwise the program is terminated.                       *)
(***************************************************************************)
EXTENDS Integers, Sequences, SequencesExt, FiniteSets

CONSTANTS
    Exceptions,         \* bound: each is thrown once
    Null,
    Pointers,           \* variables of type exception_ptr
    MaxDepth,           \* bound: scopes
    NestedInCleanup,    \* destructors called by the unwinder throw and catch
    RethrowBelow        \* what a handler further out handles is rethrown and
                        \* caught inside another handler

\* What is assumed of the constants.
ExceptionsConstants ==
    /\ Null \notin Exceptions /\ MaxDepth \in Nat /\ IsFiniteSet(Pointers)
    /\ NestedInCleanup \in BOOLEAN /\ RethrowBelow \in BOOLEAN

VARIABLES
    headers,    \* [Exceptions -> __cxa_exception]
    caught,     \* caughtExceptions, linked by next
    uncaught,   \* uncaughtExceptions
    active,     \* active_thrown_header
    landing,    \* landing_pad_exc
    resume,     \* g_resume_exception, and how many scopes g_resume_context has
    raised,     \* what the unwinder seeks a landing pad for
    scopes,     \* the client's, innermost last
    pointers,   \* what each exception_ptr refers to
    aborted

vars == <<headers, caught, uncaught, active, landing, resume, raised, scopes, pointers, aborted>>

Optional == Exceptions \cup {Null}

Kinds == {"try", "object", "handler", "cleanup", "argument"}

TypeOK ==
    /\ headers \in [Exceptions -> [state : {"new", "alive", "destroyed"}, handlerCount : Int,
                                   references : Nat, next : Optional]]
    /\ caught \in Optional /\ active \in Optional /\ landing \in Optional
    /\ raised \in Optional /\ uncaught \in Nat
    /\ resume.exc \in Optional /\ resume.depth \in Nat
    /\ \A i \in DOMAIN scopes : scopes[i].kind \in Kinds /\ scopes[i].exc \in Optional
    /\ pointers \in [Pointers -> Optional] /\ aborted \in BOOLEAN

Init ==
    /\ headers = [e \in Exceptions |->
                     [state |-> "new", handlerCount |-> 0, references |-> 0, next |-> Null]]
    /\ caught = Null /\ uncaught = 0 /\ active = Null /\ landing = Null
    /\ resume = [exc |-> Null, depth |-> 0] /\ raised = Null
    /\ scopes = << >> /\ pointers = [p \in Pointers |-> Null] /\ aborted = FALSE

-----------------------------------------------------------------------------
Abs(n) == IF n < 0 THEN -n ELSE n

\* The headers linked from caughtExceptions: the least set with its head in which
\* no link leads out.
LinkedWithin(S) == {caught} \cup {headers[e].next : e \in S} \subseteq S \cup {Null}

Listed == {e \in Exceptions : \A S \in SUBSET Exceptions : LinkedWithin(S) => e \in S}

DestroyHeaderIfNeeded(h, e) ==
    IF h[e].references # 0 THEN h ELSE [h EXCEPT ![e].state = "destroyed"]

\* Seeded fault: whether it is on its way to a handler is not asked.
ReleaseInFlight(h, e) ==
    LET released == [h EXCEPT ![e].references = @ - 1] IN
    IF e = Null \/ h[e].references = 0 THEN h
    ELSE IF e \in Listed THEN released ELSE DestroyHeaderIfNeeded(released, e)

ReleaseExceptionReference(h, e) ==
    LET released == [h EXCEPT ![e].references = @ - 1] IN
    IF e = Null \/ h[e].references = 0 THEN h
    ELSE IF h[e].handlerCount # 0 \/ active = e \/ e \in Listed THEN released
    ELSE DestroyHeaderIfNeeded(released, e)

\* Seeded fault: a rethrown exception is pushed again.
BeginCatchPushes(e) ==
    [headers EXCEPT ![e].handlerCount = Abs(@) + 1, ![e].next = caught]

\* Seeded fault: the mark of a rethrown exception stays.
BeginCatchKeepsMark(e) ==
    [headers EXCEPT ![e].handlerCount = @ + 1,
                    ![e].next = IF e = caught THEN @ ELSE caught]

\* A negative count marks a rethrown exception whose handler has not ended.
BeginCatch(e) ==
    [headers EXCEPT ![e].handlerCount = Abs(@) + 1,
                    ![e].next = IF e = caught THEN @ ELSE caught]

PopCaughtException(h, e) == [h EXCEPT ![e].next = Null, ![e].handlerCount = 0]

\* Seeded fault: a rethrown exception is destroyed with its handler.
EndCatchDestroys(l) ==
    LET n == Abs(headers[caught].handlerCount) - 1
        h == [headers EXCEPT ![caught].handlerCount = n]
    IN  IF n # 0 THEN [headers |-> h, caught |-> caught, landing |-> l]
        ELSE [headers |-> DestroyHeaderIfNeeded(PopCaughtException(h, caught), caught),
              caught |-> h[caught].next, landing |-> l]

\* __cxa_end_catch with landing_pad_exc = l.
EndCatch(l) ==
    LET rethrown == headers[caught].handlerCount < 0
        n == headers[caught].handlerCount + (IF rethrown THEN 1 ELSE -1)
        h == [headers EXCEPT ![caught].handlerCount = n]
        popped == PopCaughtException(h, caught)
    IN  IF caught = Null THEN [headers |-> headers, caught |-> caught, landing |-> l]
        ELSE IF n # 0 THEN [headers |-> h, caught |-> caught, landing |-> l]
        ELSE IF rethrown THEN [headers |-> popped, caught |-> h[caught].next, landing |-> l]
        ELSE [headers |-> DestroyHeaderIfNeeded(popped, caught), caught |-> h[caught].next,
              landing |-> IF l = caught THEN Null ELSE l]

-----------------------------------------------------------------------------
Scope(kind, e) == [kind |-> kind, exc |-> e]
Outer == Front(scopes)
Innermost(kind) == scopes # << >> /\ Last(scopes).kind = kind

Runs == raised = Null /\ ~aborted

CleanupAt == {i \in DOMAIN scopes : scopes[i].kind = "cleanup"}

\* The search phase finds a handler in a frame that the client has not left; a
\* destructor lets no exception out.
MayThrow ==
    /\ Runs /\ (NestedInCleanup \/ CleanupAt = {})
    /\ \E i \in DOMAIN scopes : scopes[i].kind = "try" /\ \A j \in CleanupAt : j < i

Enter ==
    /\ Runs /\ Len(scopes) < MaxDepth
    /\ \E kind \in {"try", "object"} : scopes' = Append(scopes, Scope(kind, Null))
    /\ UNCHANGED <<headers, caught, uncaught, active, landing, resume, raised, pointers, aborted>>

Leave ==
    /\ Runs /\ (Innermost("try") \/ Innermost("object"))
    /\ scopes' = Outer
    /\ UNCHANGED <<headers, caught, uncaught, active, landing, resume, raised, pointers, aborted>>

\* Seeded fault: what was caught or rethrown is forgotten.
LeaveHandlerKeeps ==
    /\ Runs /\ Innermost("handler")
    /\ scopes' = Outer
    /\ UNCHANGED <<headers, caught, landing, uncaught, active, resume, raised, pointers, aborted>>

LeaveHandler ==
    /\ Runs /\ Innermost("handler")
    /\ scopes' = Outer
    /\ LET end == EndCatch(landing) IN
       headers' = end.headers /\ caught' = end.caught /\ landing' = end.landing
    /\ UNCHANGED <<uncaught, active, resume, raised, pointers, aborted>>

\* __davecc_eh_install_active_exception and _Unwind_RaiseException.
Raise(e) == active' = e /\ uncaught' = uncaught + 1 /\ raised' = e

Throw(e) ==
    /\ MayThrow /\ headers[e].state = "new"
    /\ headers' = [headers EXCEPT ![e].state = "alive"]
    /\ Raise(e)
    /\ UNCHANGED <<caught, landing, resume, scopes, pointers, aborted>>

\* Seeded fault: the count of a rethrown exception stays as it was.
MarkedNever(e) == headers

Marked(e) == [headers EXCEPT ![e].handlerCount = -Abs(@)]

Rethrow ==
    /\ MayThrow /\ caught # Null
    /\ headers' = Marked(caught) /\ Raise(caught)
    /\ UNCHANGED <<caught, landing, resume, scopes, pointers, aborted>>

\* The handler that will catch e is inside one of another exception, and that
\* one inside a handler of e.
CaughtBelow(e) ==
    LET around == {i \in DOMAIN scopes :
                      /\ scopes[i].kind = "handler"
                      /\ \E t \in DOMAIN scopes : t > i /\ scopes[t].kind = "try"}
    IN  \E i, j \in around :
            /\ scopes[i].exc = e /\ scopes[j].exc # e
            /\ \A k \in around : k <= j

\* rethrow_exception, which has an exception_ptr of its own.
RethrowException(p) ==
    LET e == pointers[p] IN
    /\ MayThrow /\ e # Null
    /\ RethrowBelow \/ ~CaughtBelow(e)
    /\ headers' = [Marked(e) EXCEPT ![e].references = @ + 1]
    /\ scopes' = Append(scopes, Scope("argument", e))
    /\ Raise(e)
    /\ UNCHANGED <<caught, landing, resume, pointers, aborted>>

-----------------------------------------------------------------------------
\* _Unwind_Resume of what is landed on, from the context it was landed with.
Resume(exc, context) ==
    IF exc = Null \/ exc # context.exc
    THEN aborted' = TRUE /\ UNCHANGED <<raised, scopes>>
    ELSE /\ raised' = exc /\ scopes' = SubSeq(scopes, 1, context.depth)
         /\ UNCHANGED aborted

Context == [exc |-> raised, depth |-> Len(Outer)]

LandInCleanup ==
    /\ raised # Null /\ Innermost("object")
    /\ landing' = raised /\ resume' = Context
    /\ scopes' = Append(Outer, Scope("cleanup", raised)) /\ raised' = Null
    /\ UNCHANGED <<headers, caught, uncaught, active, pointers, aborted>>

\* The pad of a handler ends the handler.
LandInHandler ==
    /\ raised # Null /\ Innermost("handler")
    /\ resume' = Context
    /\ LET end == EndCatch(raised) IN
       /\ headers' = end.headers /\ caught' = end.caught /\ landing' = end.landing
       /\ Resume(end.landing, Context)
    /\ UNCHANGED <<uncaught, active, pointers>>

LandInArgument ==
    /\ raised # Null /\ Innermost("argument")
    /\ landing' = raised /\ resume' = Context
    /\ headers' = ReleaseExceptionReference(headers, Last(scopes).exc)
    /\ Resume(raised, Context)
    /\ UNCHANGED <<caught, uncaught, active, pointers>>

\* Seeded fault: the count of what is in flight is left to others.
LandInTryUncounted ==
    /\ raised # Null /\ Innermost("try")
    /\ landing' = raised /\ resume' = Context
    /\ headers' = BeginCatch(raised) /\ caught' = raised
    /\ UNCHANGED uncaught
    /\ active' = IF active = raised THEN Null ELSE active
    /\ scopes' = Append(Outer, Scope("handler", raised)) /\ raised' = Null
    /\ UNCHANGED <<pointers, aborted>>

LandInTry ==
    /\ raised # Null /\ Innermost("try")
    /\ landing' = raised /\ resume' = Context
    /\ headers' = BeginCatch(raised) /\ caught' = raised
    /\ uncaught' = IF uncaught > 0 THEN uncaught - 1 ELSE 0
    /\ active' = IF active = raised THEN Null ELSE active
    /\ scopes' = Append(Outer, Scope("handler", raised)) /\ raised' = Null
    /\ UNCHANGED <<pointers, aborted>>

CleanupReturns ==
    /\ Runs /\ Innermost("cleanup")
    /\ Resume(landing, resume)
    /\ UNCHANGED <<headers, caught, uncaught, active, landing, resume, pointers>>

-----------------------------------------------------------------------------
\* p = current_exception()
CurrentException(p) ==
    /\ Runs
    /\ LET h == IF caught = Null THEN headers
                ELSE [headers EXCEPT ![caught].references = @ + 1]
       IN  headers' = ReleaseExceptionReference(h, pointers[p])
    /\ pointers' = [pointers EXCEPT ![p] = caught]
    /\ UNCHANGED <<caught, uncaught, active, landing, resume, raised, scopes, aborted>>

\* p = nullptr, or p is destroyed.
ReleasePointer(p) ==
    /\ Runs /\ pointers[p] # Null
    /\ headers' = ReleaseExceptionReference(headers, pointers[p])
    /\ pointers' = [pointers EXCEPT ![p] = Null]
    /\ UNCHANGED <<caught, uncaught, active, landing, resume, raised, scopes, aborted>>

\* p = q
CopyPointer(p, q) ==
    /\ Runs /\ pointers[q] # Null /\ pointers[p] # pointers[q]
    /\ headers' = ReleaseExceptionReference([headers EXCEPT ![pointers[q]].references = @ + 1],
                                            pointers[p])
    /\ pointers' = [pointers EXCEPT ![p] = pointers[q]]
    /\ UNCHANGED <<caught, uncaught, active, landing, resume, raised, scopes, aborted>>

Next ==
    \/ Enter \/ Leave \/ LeaveHandler \/ Rethrow
    \/ \E e \in Exceptions : Throw(e)
    \/ LandInCleanup \/ LandInHandler \/ LandInArgument \/ LandInTry \/ CleanupReturns
    \/ \E p \in Pointers :
        \/ RethrowException(p) \/ CurrentException(p) \/ ReleasePointer(p)
        \/ \E q \in Pointers : CopyPointer(p, q)

Spec == Init /\ [][Next]_vars

-----------------------------------------------------------------------------
ScopesOf(kind) == {i \in DOMAIN scopes : scopes[i].kind = kind}

InFlight(e) == e = raised \/ \E i \in ScopesOf("cleanup") : scopes[i].exc = e
Handled(e) == \E i \in ScopesOf("handler") : scopes[i].exc = e
Referenced(e) == (\E p \in Pointers : pointers[p] = e) \/ \E i \in ScopesOf("argument") : scopes[i].exc = e

(***************************************************************************)
(* An exception object lives exactly as long as it is on its way to a      *)
(* handler, in a handler, or an exception_ptr refers to it ("its header    *)
(* owns the object until the last handler's __cxa_end_catch destroys and   *)
(* frees it"), and no global of the runtime refers to one that is gone.    *)
(***************************************************************************)
ObjectsLiveWhileUsed ==
    /\ \A e \in Exceptions :
          (headers[e].state = "alive") <=> (InFlight(e) \/ Handled(e) \/ Referenced(e))
    /\ \A e \in {active, landing} \ {Null} : headers[e].state = "alive"

(***************************************************************************)
(* The current exception is that of the innermost handler, however often   *)
(* it was rethrown, and uncaught_exceptions() counts what is in flight.    *)
(***************************************************************************)
CurrentIsInnermost ==
    /\ caught = IF ScopesOf("handler") = {} THEN Null
                ELSE scopes[CHOOSE i \in ScopesOf("handler") :
                               \A j \in ScopesOf("handler") : j <= i].exc
    /\ uncaught = Cardinality({e \in Exceptions : InFlight(e)})

(***************************************************************************)
(* Once a destructor that the unwinder called has returned, the unwinding  *)
(* goes on to the next scope ("the runtime chains enclosing scopes' pads   *)
(* so the whole live set is destroyed in reverse construction order",      *)
(* backend/statement_codegen.c).                                           *)
(***************************************************************************)
UnwindingGoesOn == ~aborted

\* All of them.
ExceptionsSafe == TypeOK /\ ObjectsLiveWhileUsed /\ CurrentIsInnermost /\ UnwindingGoesOn
=============================================================================
