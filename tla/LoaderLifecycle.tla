---------------------------- MODULE LoaderLifecycle ----------------------------
(***************************************************************************)
(* c_compiler/Loader/loader_lifecycle.c, driven as x86_64_interpreter does *)
(* it: the images of a program are sorted by what they need, their preinit *)
(* and init functions are called, main runs, and the fini functions are    *)
(* called in reverse.  The guest's own exit() runs the executable's fini   *)
(* functions before the loader does.                                       *)
(*                                                                         *)
(* An input gives each image the images it needs (Missing: one that was    *)
(* not found), the search list in the order of loading, the images with an *)
(* array for each phase, whether the executable is a position-independent  *)
(* one (ET_DYN) and whether it has a __davecc_run_fini.  Every array has   *)
(* one function, and calling one may fail.                                 *)
(***************************************************************************)
EXTENDS Integers, Sequences, FiniteSets, SequencesExt

CONSTANTS
    Images, Main, Missing, Root,
    Inputs

InputRec ==
    [needed : [Images -> Seq(Images \cup {Missing})], search : Seq(Images), pie : BOOLEAN,
     arrays : [{"preinit", "init", "fini"} -> SUBSET Images],
     guestFini : BOOLEAN, exitInInit : BOOLEAN]

\* What is assumed of the constants.  Every image is on the search list; an
\* executable that is not ET_DYN is nobody's library, and what it needs was found
\* when it was loaded.
LifecycleConstants ==
    /\ Main \in Images /\ {Missing, Root} \cap Images = {} /\ Missing # Root
    /\ IsFiniteSet(Images)
    /\ \A inp \in Inputs :
          /\ inp \in InputRec
          /\ \A a \in Images : \E i \in DOMAIN inp.search : inp.search[i] = a
          /\ ~inp.pie =>
                /\ \A a \in Images : \A i \in DOMAIN inp.needed[a] : inp.needed[a][i] # Main
                /\ \A i \in DOMAIN inp.needed[Main] : inp.needed[Main][i] # Missing

VARIABLES
    input,
    stack,          \* the visits of the sort, innermost last; the first is the search list
    order,          \* init_order
    done,           \* [phase -> images]: preinit_done, init_done, fini_done
    successful,     \* successful_init
    phase,          \* of the driver
    cursor,         \* position in the list of the phase
    calls           \* <<phase, image>> in the order the functions were called

vars == <<input, stack, order, done, successful, phase, cursor, calls>>

Init ==
    /\ input \in Inputs
    /\ stack = <<[lib |-> Root, next |-> 1]>> /\ order = << >>
    /\ done = [p \in {"preinit", "init", "fini"} |-> {}] /\ successful = << >>
    /\ phase = "sort" /\ cursor = 1 /\ calls = << >>

-----------------------------------------------------------------------------
\* LoaderLifecycleStateInit: depth first over DT_NEEDED.

Dependencies(lib) == IF lib = Root THEN input.search ELSE input.needed[lib]

\* Images that are not ET_DYN are passed over.
PassedOver(lib) == lib = Main /\ ~input.pie

Visiting == {stack[i].lib : i \in DOMAIN stack}

Advance(s) == [s EXCEPT ![Len(s)].next = @ + 1]

\* Seeded fault: an image on the way is taken for one that was sorted.
EnterRevisits(lib) ==
    IF lib = Missing
    THEN phase' = "failed" /\ UNCHANGED <<stack, order>>
    ELSE /\ stack' = IF PassedOver(lib) \/ lib \in Range(order) \cup Visiting THEN Advance(stack)
                     ELSE Append(Advance(stack), [lib |-> lib, next |-> 1])
         /\ UNCHANGED <<phase, order>>

\* LifecycleVisitForSort on entry; a cycle and a missing library end the sort.
Enter(lib) ==
    IF ~PassedOver(lib) /\ lib \in Visiting \cup {Missing}
    THEN phase' = "failed" /\ UNCHANGED <<stack, order>>
    ELSE /\ stack' = IF PassedOver(lib) \/ lib \in Range(order) THEN Advance(stack)
                     ELSE Append(Advance(stack), [lib |-> lib, next |-> 1])
         /\ UNCHANGED <<phase, order>>

\* Seeded fault: an image goes before what it needs.
LeaveFirst(lib) == order' = <<lib>> \o order /\ stack' = Front(stack) /\ UNCHANGED phase

Leave(lib) == order' = Append(order, lib) /\ stack' = Front(stack) /\ UNCHANGED phase

\* The main image, unless the search list led to it.
EndSort ==
    /\ order' = IF Main \in Range(order) THEN order ELSE Append(order, Main)
    /\ phase' = "preinit"
    /\ UNCHANGED stack

Sort ==
    /\ phase = "sort"
    /\ LET top == Last(stack) IN
       IF top.next <= Len(Dependencies(top.lib))
       THEN Enter(Dependencies(top.lib)[top.next])
       ELSE IF top.lib # Root THEN Leave(top.lib) ELSE EndSort
    /\ UNCHANGED <<input, done, successful, cursor, calls>>

-----------------------------------------------------------------------------
\* LoaderLifecycleRunPhase and LoaderLifecycleVisitImageFunctions

\* Seeded fault: finalization in the order of initialization.
ListForward(p) == IF p = "fini" THEN successful ELSE order

List(p) == IF p = "fini" THEN Reverse(successful) ELSE order

Skipped(p, lib) ==
    \/ p = "preinit" /\ lib # Main
    \/ lib \in done[p]
    \/ p = "fini" /\ lib \notin done["init"]

HasArray(p, lib) == lib \in input.arrays[p]

MarkPhaseDone(p, lib) == [done EXCEPT ![p] = @ \cup {lib}]

\* Seeded fault: an image without an init array is not remembered.
SuccessfulWithArray(p, lib) ==
    IF p = "init" /\ HasArray(p, lib) THEN Append(successful, lib) ELSE successful

Successful(p, lib) == IF p = "init" THEN Append(successful, lib) ELSE successful

Following(p) == CASE p = "preinit" -> "init" [] p = "init" -> "main" [] p = "fini" -> "ended"

RunPhase(p) ==
    /\ phase = p /\ UNCHANGED <<input, stack, order>>
    /\ IF cursor > Len(List(p))
       THEN phase' = Following(p) /\ cursor' = 1 /\ UNCHANGED <<done, successful, calls>>
       ELSE LET lib == List(p)[cursor] IN
            \/ /\ Skipped(p, lib)
               /\ cursor' = cursor + 1 /\ UNCHANGED <<phase, done, successful, calls>>
            \/ /\ ~Skipped(p, lib)
               /\ calls' = IF HasArray(p, lib) THEN Append(calls, <<p, lib>>) ELSE calls
               /\ done' = MarkPhaseDone(p, lib)
               /\ successful' = Successful(p, lib)
               /\ cursor' = cursor + 1 /\ UNCHANGED phase
            \/ /\ ~Skipped(p, lib) /\ HasArray(p, lib)      \* the callback fails
               /\ phase' = "failed" /\ UNCHANGED <<cursor, done, successful, calls>>

-----------------------------------------------------------------------------
\* The guest's side: exit() and __davecc_run_fini, which run once.

GuestFini ==
    calls' = IF HasArray("fini", Main) THEN Append(calls, <<"fini", Main>>) ELSE calls

\* Seeded fault: the loader is not told that the guest finalized the executable.
MarkNothing == done' = done

MarkExecutableFiniComplete == done' = [done EXCEPT !["fini"] = @ \cup {Main}]

\* main, or an init function, calls exit.  X86_64InterpreterPrepareCall sets running
\* again for the next init function and for main: the latter does not end the phase.
GuestExit ==
    /\ input.guestFini /\ Main \notin done["fini"]
    /\ \/ phase = "main" /\ phase' = "shutdown"
       \/ /\ phase \in {"preinit", "init"} /\ input.exitInInit /\ calls # << >>
          /\ UNCHANGED phase
    /\ GuestFini /\ MarkExecutableFiniComplete
    /\ UNCHANGED <<input, stack, order, successful, cursor>>

MainReturns ==
    /\ phase = "main" /\ phase' = "shutdown"
    /\ UNCHANGED <<input, stack, order, done, successful, cursor, calls>>

\* X86_64GuestRunProgramShutdown, up to LoaderLifecycleRunPhase
Shutdown ==
    /\ phase = "shutdown" /\ phase' = "fini"
    /\ IF Main \notin done["fini"] /\ input.guestFini
       THEN GuestFini /\ MarkExecutableFiniComplete
       ELSE UNCHANGED <<calls, done>>
    /\ UNCHANGED <<input, stack, order, successful, cursor>>

Done == phase \in {"ended", "failed"} /\ UNCHANGED vars

Next ==
    \/ Sort \/ RunPhase("preinit") \/ RunPhase("init") \/ GuestExit \/ MainReturns
    \/ Shutdown \/ RunPhase("fini") \/ Done

Spec == Init /\ [][Next]_vars

-----------------------------------------------------------------------------
Needs(a, b) == \E i \in DOMAIN input.needed[a] : input.needed[a][i] = b

Called(p, a) == <<p, a>> \in Range(calls)

CalledBefore(x, y) ==
    \E i, j \in DOMAIN calls : i < j /\ calls[i] = x /\ calls[j] = y

(***************************************************************************)
(* No function of an image is called before those of the images it needs   *)
(* have been: an init function may use any library its image was linked    *)
(* with.  (the order LifecycleVisitForSort gives RunPhase)                 *)
(***************************************************************************)
NeededInitFirst ==
    \A a \in Images : \A b \in Images :
        (Needs(a, b) /\ Called("init", a) /\ HasArray("init", b)) =>
            CalledBefore(<<"init", b>>, <<"init", a>>)

(***************************************************************************)
(* A library is finalized after every library or program that needs it has *)
(* been.  (RunPhase walks successful_init backwards, and the guest's own   *)
(* exit comes before it)                                                   *)
(***************************************************************************)
NeededFiniLast ==
    \A a \in Images : \A b \in Images \ {Main} :
        (Needs(a, b) /\ Called("fini", b) /\ HasArray("fini", a)) =>
            CalledBefore(<<"fini", a>>, <<"fini", b>>)

(***************************************************************************)
(* No function is called twice, although the executable is finalized by    *)
(* the guest or by the loader, and no library's fini function is called    *)
(* unless its initialization was completed.                                *)
(***************************************************************************)
OnceAndOnlyAfterInit ==
    /\ \A i, j \in DOMAIN calls : i # j => calls[i] # calls[j]
    /\ \A a \in Images \ {Main} : Called("fini", a) => a \in done["init"]

Acyclic ==
    \A s \in (SUBSET Images) \ {{}} : \E a \in s : \A b \in s : ~Needs(a, b)

(***************************************************************************)
(* If anything is called at all, the images form no cycle, none is missing *)
(* and each is in the order once.  (LoaderLifecycleStateInit)              *)
(***************************************************************************)
BadGraphRunsNothing ==
    phase \notin {"sort", "failed"} =>
        /\ Acyclic /\ \A a \in Images : ~Needs(a, Missing)
        /\ Range(order) = Images /\ Len(order) = Cardinality(Images)

(***************************************************************************)
(* A program that came to its end has called every fini function of every  *)
(* image, one without init functions included.                             *)
(***************************************************************************)
EverythingFinalized ==
    phase = "ended" => \A a \in input.arrays["fini"] : Called("fini", a)

\* The lifecycle of the images, all of it (loader_lifecycle.c).
LifecycleSafe ==
    /\ NeededInitFirst /\ NeededFiniLast /\ OnceAndOnlyAfterInit
    /\ BadGraphRunsNothing /\ EverythingFinalized
=============================================================================
