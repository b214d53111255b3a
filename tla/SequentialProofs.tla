-------------------------- MODULE SequentialProofs --------------------------
(***************************************************************************)
(* Proofs about the components that one thread runs from end to end: the   *)
(* exception runtime, the order in which the loader calls the functions of *)
(* images, and the link, for every number of exceptions, images and files. *)
(* Each has an inductive invariant of its own; RuntimeProofs takes them to *)
(* Runtime, where the runs check the properties.                           *)
(*                                                                         *)
(* The exception runtime is that of the module extended, where destructors *)
(* that the unwinder calls throw nothing and nothing is rethrown below a   *)
(* handler of another exception.                                           *)
(***************************************************************************)
EXTENDS Exceptions, SequenceTheorems, FunctionTheorems, FiniteSetTheorems,
        WellFoundedInduction, TLAPS

-----------------------------------------------------------------------------
\* The exception runtime: objects live as long as they are used, the current
\* exception is the innermost handler's, and unwinding goes on.  The invariant says
\* which scopes hold an exception, and what the runtime's words must then be.

Assumed == ExceptionsConstants /\ NestedInCleanup = FALSE /\ RethrowBelow = FALSE

-----------------------------------------------------------------------------
\* The inductive invariant.

\* The handlers of e, by their places in scopes.
HandlersOf(e) == {i \in DOMAIN scopes : scopes[i].kind = "handler" /\ scopes[i].exc = e}

PointersTo(e) == {p \in Pointers : pointers[p] = e}
ArgumentsOf(e) == {i \in DOMAIN scopes : scopes[i].kind = "argument" /\ scopes[i].exc = e}
CleanupsOf(e) == {i \in DOMAIN scopes : scopes[i].kind = "cleanup" /\ scopes[i].exc = e}

Headers ==
    [Exceptions -> [state : {"new", "alive", "destroyed"}, handlerCount : Int,
                    references : Nat, next : Optional]]

Typed ==
    /\ headers \in Headers
    /\ caught \in Optional /\ active \in Optional /\ landing \in Optional /\ raised \in Optional
    /\ uncaught \in Nat /\ resume \in [exc : Optional, depth : Nat]
    /\ scopes \in Seq([kind : Kinds, exc : Optional])
    /\ pointers \in [Pointers -> Optional] /\ aborted = FALSE
    /\ \A i \in DOMAIN scopes :
          scopes[i].kind \in {"handler", "cleanup", "argument"} => scopes[i].exc # Null

\* One exception is in flight at most: sought a pad for, or in the cleanup that
\* the unwinder called last, above which nothing was thrown.
InTheAir ==
    /\ uncaught = (IF active = Null THEN 0 ELSE 1)
    /\ raised # Null => active = raised
    /\ active # Null => raised = active \/ CleanupsOf(active) # {}
    /\ \A i \in DOMAIN scopes :
          /\ scopes[i].kind = "argument" =>
                /\ i = Len(scopes) /\ raised # Null /\ scopes[i].exc = raised
          /\ scopes[i].kind = "cleanup" =>
                /\ raised = Null /\ active = scopes[i].exc /\ landing = active
                /\ resume = [exc |-> active, depth |-> i - 1]
                /\ \A j \in DOMAIN scopes : j > i => scopes[j].kind \in {"try", "object"}
    /\ landing # Null => landing = active \/ landing = caught

\* The handlers of an exception follow one another, but for try blocks and objects.
Together ==
    \A e, f \in Exceptions : \A i, k \in HandlersOf(e) : \A j \in HandlersOf(f) :
        i < j /\ j < k => e = f

\* The try blocks the unwinder may land in.
Ahead == {t \in DOMAIN scopes : scopes[t].kind = "try" /\ \A j \in CleanupAt : t < j}

\* What is in flight is not handled below a handler of another that stays.
NotBelow(e) ==
    \A i \in HandlersOf(e) : \A f \in Exceptions \ {e} : \A j \in HandlersOf(f) :
        \A t \in Ahead : ~(i < j /\ j < t)

Innermosts(e) ==
    IF e = Null THEN \A f \in Exceptions : HandlersOf(f) = {}
    ELSE \E k \in HandlersOf(e) : \A f \in Exceptions : \A j \in HandlersOf(f) : j <= k

\* n has the innermost of the handlers outside those of e.
NextOuter(e, n) ==
    IF n = Null
    THEN \A f \in Exceptions \ {e} : \A j \in HandlersOf(f) : \A i \in HandlersOf(e) : i < j
    ELSE /\ n # e
         /\ \E k \in HandlersOf(n) :
              /\ \A i \in HandlersOf(e) : k < i
              /\ \A f \in Exceptions \ {e} : \A j \in HandlersOf(f) :
                    j <= k \/ \A i \in HandlersOf(e) : i < j

Chain ==
    /\ Innermosts(caught)
    /\ \A e \in Exceptions : HandlersOf(e) # {} => NextOuter(e, headers[e].next)

\* The counts of a header; the mark of one in flight.
Counted ==
    \A e \in Exceptions :
        /\ IsFiniteSet(HandlersOf(e))
        /\ headers[e].handlerCount =
              (IF e = active THEN -Cardinality(HandlersOf(e)) ELSE Cardinality(HandlersOf(e)))
        /\ headers[e].references =
              Cardinality(PointersTo(e)) + (IF ArgumentsOf(e) = {} THEN 0 ELSE 1)

Used(e) == e = active \/ HandlersOf(e) # {} \/ PointersTo(e) # {} \/ ArgumentsOf(e) # {}

Living == \A e \in Exceptions : headers[e].state = "alive" <=> Used(e)

Inv ==
    /\ Typed /\ InTheAir /\ Together /\ Chain /\ Counted /\ Living
    /\ active # Null => NotBelow(active)
-----------------------------------------------------------------------------
\* Counting.

LEMMA CountedSet ==
    ASSUME NEW S, IsFiniteSet(S)
    PROVE  /\ Cardinality(S) \in Nat
           /\ Cardinality(S) = 0 <=> S = {}
BY FS_CardinalityType, FS_EmptySet

LEMMA CountedWith ==
    ASSUME NEW S, IsFiniteSet(S), NEW x, x \notin S
    PROVE  IsFiniteSet(S \cup {x}) /\ Cardinality(S \cup {x}) = Cardinality(S) + 1
BY FS_AddElement

LEMMA CountedWithout ==
    ASSUME NEW S, IsFiniteSet(S), NEW x, x \in S
    PROVE  IsFiniteSet(S \ {x}) /\ Cardinality(S \ {x}) = Cardinality(S) - 1
BY FS_RemoveElement

LEMMA HighestOf ==
    ASSUME NEW n \in Nat, NEW S \in SUBSET (1 .. n), S # {}
    PROVE  \E m \in S : \A i \in S : i <= m
<1> DEFINE R == {ss \in Nat \X Nat : ss[1] < ss[2]}
           T == {n - i : i \in S}
<1>1. IsWellFoundedOn(R, Nat)
  BY NatLessThanWellFounded DEF OpToRel
<1>2. T \subseteq Nat /\ T # {}
  <2>1. \A i \in S : n - i \in Nat
    OBVIOUS
  <2>2. PICK i \in S : TRUE
    OBVIOUS
  <2>3. n - i \in T
    OBVIOUS
  <2>4. QED BY <2>1, <2>3
<1> HIDE DEF R, T
<1>3. PICK x \in T : \A y \in T : ~ (<<y, x>> \in R)
  BY <1>1, <1>2, WFMin
<1>4. \A y \in T : ~ (y < x)
  BY <1>2, <1>3 DEF R
<1>5. PICK m \in S : x = n - m
  BY DEF T
<1>6. \A i \in S : n - i \in T
  BY DEF T
<1>7. ASSUME NEW i \in S PROVE i <= m
  BY <1>4, <1>5, <1>6
<1>8. QED BY <1>7

\* The scopes.
LEMMA OuterOf ==
    ASSUME Typed, scopes # << >>
    PROVE  /\ Len(scopes) \in Nat \ {0} /\ Len(scopes) \in DOMAIN scopes
           /\ Last(scopes) = scopes[Len(scopes)]
           /\ Outer \in Seq([kind : Kinds, exc : Optional]) /\ Len(Outer) = Len(scopes) - 1
           /\ DOMAIN Outer = DOMAIN scopes \ {Len(scopes)}
           /\ \A i \in DOMAIN Outer : Outer[i] = scopes[i]
<1> DEFINE S == [kind : Kinds, exc : Optional]
<1>1. scopes \in Seq(S)
  BY DEF Typed
<1> HIDE DEF S
<1>2. Len(scopes) \in Nat \ {0} /\ DOMAIN scopes = 1 .. Len(scopes)
  BY <1>1
<1>3. Outer \in Seq(S) /\ Len(Outer) = Len(scopes) - 1
          /\ \A i \in 1 .. Len(Outer) : Outer[i] = scopes[i]
  BY <1>1, <1>2 DEF Outer, Front
<1>4. DOMAIN Outer = 1 .. Len(Outer)
  BY <1>3
<1>5. Last(scopes) = scopes[Len(scopes)]
  BY DEF Last
<1>6. QED BY <1>2, <1>3, <1>4, <1>5 DEF S

LEMMA Domains ==
    ASSUME Typed
    PROVE  DOMAIN scopes = 1 .. Len(scopes) /\ Len(scopes) \in Nat
BY DEF Typed

LEMMA OuterIs ==
    ASSUME Typed, scopes # << >>
    PROVE  SubSeq(scopes, 1, Len(Outer)) = Outer /\ SubSeq(scopes, 1, Len(scopes) - 1) = Outer
BY OuterOf DEF Outer, Front

LEMMA Pushed ==
    ASSUME Typed, NEW s \in [kind : Kinds, exc : Optional], scopes' = Append(scopes, s)
    PROVE  /\ scopes' \in Seq([kind : Kinds, exc : Optional])
           /\ Len(scopes') = Len(scopes) + 1
           /\ DOMAIN scopes' = DOMAIN scopes \cup {Len(scopes) + 1}
           /\ Len(scopes) + 1 \notin DOMAIN scopes
           /\ \A i \in DOMAIN scopes : i < Len(scopes) + 1 /\ scopes'[i] = scopes[i]
           /\ scopes'[Len(scopes) + 1] = s
<1> DEFINE S == [kind : Kinds, exc : Optional]
<1>1. scopes \in Seq(S) /\ s \in S
  BY DEF Typed
<1> HIDE DEF S
<1>2. Len(scopes) \in Nat /\ DOMAIN scopes = 1 .. Len(scopes)
  BY <1>1
<1>3. /\ scopes' \in Seq(S) /\ Len(scopes') = Len(scopes) + 1
      /\ \A i \in 1 .. Len(scopes) : scopes'[i] = scopes[i]
      /\ scopes'[Len(scopes) + 1] = s
  BY <1>1, <1>2
<1>4. DOMAIN scopes' = 1 .. Len(scopes')
  BY <1>3
<1>5. QED BY <1>2, <1>3, <1>4 DEF S

LEMMA Replaced ==
    ASSUME Typed, scopes # << >>,
           NEW s \in [kind : Kinds, exc : Optional], scopes' = Append(Outer, s)
    PROVE  /\ scopes' \in Seq([kind : Kinds, exc : Optional])
           /\ Len(scopes') = Len(scopes) /\ DOMAIN scopes' = DOMAIN scopes
           /\ \A i \in DOMAIN scopes \ {Len(scopes)} : i < Len(scopes) /\ scopes'[i] = scopes[i]
           /\ scopes'[Len(scopes)] = s
<1> DEFINE S == [kind : Kinds, exc : Optional]
<1>1. Outer \in Seq(S) /\ s \in S
  BY OuterOf
<1> HIDE DEF S
<1>2. Len(Outer) = Len(scopes) - 1 /\ Len(scopes) \in Nat /\ DOMAIN scopes = 1 .. Len(scopes)
  BY OuterOf, Domains
<1>3. /\ scopes' \in Seq(S) /\ Len(scopes') = Len(Outer) + 1
      /\ \A i \in 1 .. Len(Outer) : scopes'[i] = Outer[i]
      /\ scopes'[Len(Outer) + 1] = s
  BY <1>1, <1>2
<1>4. DOMAIN scopes' = 1 .. Len(scopes')
  BY <1>3
<1>5. \A i \in 1 .. Len(Outer) : Outer[i] = scopes[i]
  BY OuterOf, <1>1, <1>2
<1>6. QED BY <1>2, <1>3, <1>4, <1>5 DEF S

\* What holds of the handlers and their links holds while they stay.
LEMMA ChainKept ==
    ASSUME Typed, Together, Chain, \A e \in Exceptions : HandlersOf(e)' = HandlersOf(e),
           caught' = caught, \A e \in Exceptions : headers'[e].next = headers[e].next
    PROVE  Together' /\ Chain'
<1>1. Together'
  BY DEF Together
<1>2. Innermosts(caught)'
  BY DEF Chain, Innermosts, Typed, Optional
<1>3. ASSUME NEW e \in Exceptions, HandlersOf(e)' # {} PROVE NextOuter(e, headers[e].next)'
  <2>1. NextOuter(e, headers[e].next) /\ headers[e].next \in Optional
    BY <1>3 DEF Chain, Typed, Headers
  <2>2. QED BY <2>1 DEF NextOuter, Optional
<1>4. QED BY <1>1, <1>2, <1>3 DEF Chain

\* A handler or a caught exception is on its way in the list.
LEMMA ListedIsHandled ==
    ASSUME Typed, Chain, NEW e \in Listed
    PROVE  e \in Exceptions /\ HandlersOf(e) # {}
<1> DEFINE S == {f \in Exceptions : HandlersOf(f) # {}}
<1>1. caught \in S \cup {Null}
  BY DEF Chain, Innermosts, Typed, Optional
<1>2. ASSUME NEW f \in S PROVE headers[f].next \in S \cup {Null}
  BY DEF Chain, NextOuter, Typed, Headers, Optional
<1>3. LinkedWithin(S)
  BY <1>1, <1>2 DEF LinkedWithin
<1>4. QED BY <1>3 DEF Listed

LEMMA InitInv == ASSUME Assumed, Init PROVE Inv
<1>0. DOMAIN scopes = {} /\ scopes \in Seq([kind : Kinds, exc : Optional])
  BY DEF Init
<1>1. Typed
  BY <1>0 DEF Init, Typed, Headers, Optional
<1>2. InTheAir
  BY <1>0 DEF Init, InTheAir
<1>3. \A e \in Exceptions : HandlersOf(e) = {} /\ ArgumentsOf(e) = {} /\ PointersTo(e) = {}
  BY <1>0 DEF Assumed, Init, HandlersOf, ArgumentsOf, PointersTo, ExceptionsConstants
<1>4. Together /\ Chain
  BY <1>3 DEF Init, Together, Chain, Innermosts
<1>5. Counted /\ Living
  <2> SUFFICES ASSUME NEW e \in Exceptions
               PROVE  /\ IsFiniteSet({}) /\ headers[e].handlerCount = Cardinality({})
                   /\ e # active
                      /\ headers[e].references = Cardinality({}) + 0
                      /\ headers[e].state = "new"
    BY <1>3 DEF Counted, Living, Used
  <2>1. Cardinality({}) = 0 /\ IsFiniteSet({})
    BY FS_EmptySet
  <2>2. QED BY <2>1 DEF Assumed, Init, ExceptionsConstants
<1>6. QED BY <1>1, <1>2, <1>4, <1>5 DEF Inv, Init

LEMMA RestKept ==
    ASSUME Inv, \A e \in Exceptions : HandlersOf(e)' = HandlersOf(e)
           /\ ArgumentsOf(e)' = ArgumentsOf(e),
           UNCHANGED <<headers, caught, active, pointers>>
    PROVE  Together' /\ Chain' /\ Counted' /\ Living'
<1>1. Together' /\ Chain'
  BY ChainKept DEF Inv
<1>2. \A e \in Exceptions : PointersTo(e)' = PointersTo(e)
  BY DEF PointersTo
<1>3. Counted' /\ Living'
  BY <1>2 DEF Inv, Counted, Living, Used
<1>4. QED BY <1>1, <1>3

LEMMA NobodyInTheAir ==
    ASSUME Inv, Runs, CleanupAt = {}
    PROVE  active = Null
BY DEF Inv, InTheAir, CleanupsOf, CleanupAt, Runs

LEMMA EnterStep == Inv /\ Enter => Inv'
<1> SUFFICES ASSUME Inv, Enter PROVE Inv'
  OBVIOUS
<1>1. PICK kind \in {"try", "object"} : scopes' = Append(scopes, Scope(kind, Null))
  BY DEF Enter
<1> DEFINE s == Scope(kind, Null)
           n == Len(scopes) + 1
<1>2. s \in [kind : Kinds, exc : Optional] /\ s.kind = kind
  BY DEF Scope, Kinds, Optional
<1>3. /\ scopes' \in Seq([kind : Kinds, exc : Optional])
      /\ Len(scopes') = n /\ DOMAIN scopes' = DOMAIN scopes \cup {n} /\ n \notin DOMAIN scopes
      /\ \A i \in DOMAIN scopes : i < n /\ scopes'[i] = scopes[i]
      /\ scopes'[n].kind \in {"try", "object"}
  BY <1>1, <1>2, Pushed DEF Inv
<1>4. raised = Null /\ UNCHANGED <<headers, caught, uncaught, active, landing, resume,
          raised, pointers, aborted>>
  BY DEF Enter, Runs
<1> HIDE DEF s, n
<1>5. \A e : /\ HandlersOf(e)' = HandlersOf(e) /\ ArgumentsOf(e)' = ArgumentsOf(e)
            /\ CleanupsOf(e)' = CleanupsOf(e)
  BY <1>3 DEF HandlersOf, ArgumentsOf, CleanupsOf
<1>6. Together' /\ Chain' /\ Counted' /\ Living'
  BY <1>4, <1>5, RestKept
<1>7. Typed'
  BY <1>3, <1>4 DEF Inv, Typed
<1>8. InTheAir'
  BY <1>3, <1>4, <1>5, Domains DEF Inv, InTheAir
<1>9. ASSUME active' # Null PROVE NotBelow(active)'
  <2>1. PICK c \in CleanupsOf(active) : TRUE
    BY <1>4, <1>9 DEF Inv, InTheAir
  <2>2. Ahead' \subseteq Ahead
    BY <1>3, <2>1, Domains DEF Inv, Ahead, CleanupAt, CleanupsOf
  <2>3. QED BY <1>4, <1>5, <1>9, <2>2 DEF Inv, NotBelow
<1>10. QED BY <1>6, <1>7, <1>8, <1>9 DEF Inv

LEMMA LeaveStep == Inv /\ Leave => Inv'
<1> SUFFICES ASSUME Inv, Leave PROVE Inv'
  OBVIOUS
<1> DEFINE n == Len(scopes)
<1>1. scopes # << >> /\ scopes' = Outer
  BY DEF Leave, Innermost
<1>2. /\ scopes' \in Seq([kind : Kinds, exc : Optional])
      /\ Len(scopes') = n - 1 /\ DOMAIN scopes' = DOMAIN scopes \ {n} /\ n \in DOMAIN scopes
      /\ \A i \in DOMAIN scopes' : scopes'[i] = scopes[i]
      /\ scopes[n].kind \in {"try", "object"}
  BY <1>1, OuterOf DEF Inv, Leave, Innermost
<1>3. raised = Null /\ UNCHANGED <<headers, caught, uncaught, active, landing, resume,
          raised, pointers, aborted>>
  BY DEF Leave, Runs
<1> HIDE DEF n
<1>5. \A e : /\ HandlersOf(e)' = HandlersOf(e) /\ ArgumentsOf(e)' = ArgumentsOf(e)
            /\ CleanupsOf(e)' = CleanupsOf(e)
  BY <1>2 DEF HandlersOf, ArgumentsOf, CleanupsOf
<1>6. Together' /\ Chain' /\ Counted' /\ Living'
  BY <1>3, <1>5, RestKept
<1>7. Typed'
  BY <1>2, <1>3 DEF Inv, Typed
<1>8. InTheAir'
  BY <1>2, <1>3, <1>5, Domains DEF Inv, InTheAir
<1>9. ASSUME active' # Null PROVE NotBelow(active)'
  <2>1. Ahead' \subseteq Ahead
    BY <1>2 DEF Ahead, CleanupAt
  <2>3. QED BY <1>3, <1>5, <1>9, <2>1 DEF Inv, NotBelow
<1>10. QED BY <1>6, <1>7, <1>8, <1>9 DEF Inv

LEMMA LandInCleanupStep == Inv /\ LandInCleanup => Inv'
<1> SUFFICES ASSUME Inv, LandInCleanup PROVE Inv'
  OBVIOUS
<1> DEFINE n == Len(scopes)
           s == Scope("cleanup", raised)
<1>1. /\ raised # Null /\ raised = active /\ active \in Exceptions
      /\ scopes # << >> /\ scopes' = Append(Outer, s)
  BY DEF LandInCleanup, Innermost, Inv, InTheAir, Typed, Optional
<1>2. s \in [kind : Kinds, exc : Optional] /\ s.kind = "cleanup" /\ s.exc = active
  BY <1>1 DEF Scope, Kinds, Optional
<1>3. /\ scopes' \in Seq([kind : Kinds, exc : Optional])
      /\ Len(scopes') = n /\ DOMAIN scopes' = DOMAIN scopes
      /\ \A i \in DOMAIN scopes \ {n} : i < n /\ scopes'[i] = scopes[i]
      /\ scopes'[n] = s
  BY <1>1, <1>2, Replaced DEF Inv
<1>4. n \in DOMAIN scopes /\ scopes[n].kind = "object" /\ n \in Nat /\ DOMAIN scopes = 1 .. n
  BY <1>1, OuterOf, Domains DEF Inv, LandInCleanup, Innermost
<1>5. /\ landing' = active /\ raised' = Null /\ resume' = [exc |-> active, depth |-> n - 1]
      /\ UNCHANGED <<headers, caught, uncaught, active, pointers, aborted>>
  BY <1>1, OuterOf DEF LandInCleanup, Context, Inv
<1> HIDE DEF s, n
<1>6. /\ \A e : HandlersOf(e)' = HandlersOf(e) /\ ArgumentsOf(e)' = ArgumentsOf(e)
      /\ CleanupsOf(active)' # {}
  BY <1>2, <1>3, <1>4, <1>5 DEF HandlersOf, ArgumentsOf, CleanupsOf
<1>7. Together' /\ Chain' /\ Counted' /\ Living'
  BY <1>5, <1>6, RestKept
<1>8. Typed'
  BY <1>1, <1>2, <1>3, <1>4, <1>5 DEF Inv, Typed, Optional
<1>9. InTheAir'
  <2>1. \A i \in DOMAIN scopes : scopes[i].kind # "argument" /\ scopes[i].kind # "cleanup"
    BY <1>1, <1>4 DEF Inv, InTheAir, n
  <2>2. \A i \in DOMAIN scopes' : scopes'[i].kind # "argument"
            /\ (scopes'[i].kind = "cleanup" => i = n)
    BY <1>2, <1>3, <2>1
  <2>3. QED BY <1>1, <1>2, <1>3, <1>4, <1>5, <1>6, <2>2 DEF Inv, InTheAir
<1>10. NotBelow(active)'
  <2>1. Ahead' \subseteq Ahead
    BY <1>1, <1>2, <1>3 DEF Inv, InTheAir, Ahead, CleanupAt
  <2>2. QED BY <1>1, <1>5, <1>6, <2>1 DEF Inv, NotBelow
<1>11. QED BY <1>7, <1>8, <1>9, <1>10 DEF Inv

LEMMA CleanupReturnsStep == Inv /\ CleanupReturns => Inv'
<1> SUFFICES ASSUME Inv, CleanupReturns PROVE Inv'
  OBVIOUS
<1> DEFINE n == Len(scopes)
<1>1. /\ scopes # << >> /\ n \in DOMAIN scopes /\ n \in Nat /\ DOMAIN scopes = 1 .. n
      /\ scopes[n].kind = "cleanup"
  BY OuterOf, Domains DEF Inv, CleanupReturns, Innermost
<1>2. /\ landing = active /\ active = scopes[n].exc /\ active # Null
      /\ resume = [exc |-> active, depth |-> n - 1] /\ raised = Null
  BY <1>1 DEF Inv, Typed, InTheAir
<1>3. /\ raised' = active /\ scopes' = SubSeq(scopes, 1, n - 1)
      /\ UNCHANGED <<headers, caught, uncaught, active, landing, resume, pointers, aborted>>
  BY <1>2 DEF CleanupReturns, Resume
<1>4. /\ scopes' \in Seq([kind : Kinds, exc : Optional])
      /\ Len(scopes') = n - 1 /\ DOMAIN scopes' = DOMAIN scopes \ {n}
      /\ \A i \in DOMAIN scopes' : scopes'[i] = scopes[i]
  BY <1>1, <1>3, OuterOf, OuterIs DEF Inv
<1> HIDE DEF n
<1>5. \A e : HandlersOf(e)' = HandlersOf(e) /\ ArgumentsOf(e)' = ArgumentsOf(e)
  BY <1>1, <1>4 DEF HandlersOf, ArgumentsOf
<1>6. Together' /\ Chain' /\ Counted' /\ Living'
  BY <1>3, <1>5, RestKept
<1>7. Typed'
  BY <1>3, <1>4 DEF Inv, Typed
<1>8. \A i \in DOMAIN scopes' : scopes'[i].kind # "argument" /\ scopes'[i].kind # "cleanup"
  <2> SUFFICES ASSUME NEW i \in DOMAIN scopes, i # n
               PROVE  scopes[i].kind # "argument" /\ scopes[i].kind # "cleanup"
    BY <1>4
  <2>1. i < n
    BY <1>1
  <2>2. QED BY <1>1, <1>2, <2>1 DEF Inv, InTheAir
<1>9. InTheAir'
  BY <1>2, <1>3, <1>8 DEF Inv, InTheAir
<1>10. NotBelow(active)'
  <2>1. Ahead' \subseteq Ahead
    BY <1>1, <1>4, <1>8 DEF Inv, InTheAir, Ahead, CleanupAt
  <2>2. QED BY <1>2, <1>3, <1>5, <2>1 DEF Inv, NotBelow
<1>11. QED BY <1>6, <1>7, <1>9, <1>10 DEF Inv

LEMMA ThrowStep == ASSUME Assumed, Inv, NEW e \in Exceptions, Throw(e) PROVE Inv'
<1>1. /\ active = Null /\ raised = Null /\ CleanupAt = {} /\ uncaught = 0 /\ e # Null
  BY NobodyInTheAir DEF Assumed, Throw, MayThrow, Inv, InTheAir, Runs, ExceptionsConstants
<1>2. /\ headers' = [headers EXCEPT ![e].state = "alive"]
      /\ active' = e /\ uncaught' = 1 /\ raised' = e
      /\ UNCHANGED <<caught, landing, resume, scopes, pointers, aborted>>
  BY <1>1 DEF Throw, Raise
<1>3. \A f : /\ HandlersOf(f)' = HandlersOf(f) /\ ArgumentsOf(f)' = ArgumentsOf(f)
            /\ PointersTo(f)' = PointersTo(f)
  BY <1>2 DEF HandlersOf, ArgumentsOf, PointersTo
<1>4. HandlersOf(e) = {}
  BY DEF Throw, Inv, Living, Used
<1>5. headers' \in Headers /\ \A f \in Exceptions :
         /\ headers'[f].next = headers[f].next
         /\ headers'[f].handlerCount = headers[f].handlerCount
         /\ headers'[f].references = headers[f].references
         /\ headers'[f].state = IF f = e THEN "alive" ELSE headers[f].state
  BY <1>2 DEF Inv, Typed, Headers
<1>6. Typed'
  BY <1>1, <1>2, <1>5 DEF Inv, Typed, Optional
<1>7. InTheAir'
  BY <1>1, <1>2 DEF Inv, InTheAir, CleanupAt
<1>8. Together' /\ Chain'
  BY <1>2, <1>3, <1>5, ChainKept DEF Inv
<1>9. Counted'
  <2> SUFFICES ASSUME NEW f \in Exceptions
               PROVE  /\ IsFiniteSet(HandlersOf(f))
                      /\ headers'[f].handlerCount = (IF f = e THEN -Cardinality(HandlersOf(f))
                                                     ELSE Cardinality(HandlersOf(f)))
                      /\ headers'[f].references =
                            Cardinality(PointersTo(f)) + (IF ArgumentsOf(f) = {} THEN 0 ELSE 1)
    BY <1>2, <1>3 DEF Counted
  <2>1. Cardinality(HandlersOf(e)) = 0
    BY <1>4, FS_EmptySet
  <2>2. f # active
    BY <1>1 DEF Assumed, ExceptionsConstants
  <2>3. QED BY <1>5, <2>1, <2>2 DEF Inv, Counted
<1>10. Living'
  <2> SUFFICES ASSUME NEW f \in Exceptions
               PROVE  headers'[f].state = "alive" <=>
                         f = e \/ HandlersOf(f) # {} \/ PointersTo(f) # {}
                             \/ ArgumentsOf(f) # {}
    BY <1>2, <1>3 DEF Living, Used
  <2>1. f # active
    BY <1>1 DEF Assumed, ExceptionsConstants
  <2>2. QED BY <1>5, <2>1 DEF Inv, Living, Used
<1>11. NotBelow(active)'
  BY <1>2, <1>3, <1>4 DEF NotBelow
<1>12. QED BY <1>6, <1>7, <1>8, <1>9, <1>10, <1>11 DEF Inv

\* The mark turns the count of handlers.
LEMMA MarkedHeaders ==
    ASSUME Assumed, Inv, active = Null, NEW e \in Exceptions
    PROVE  /\ Marked(e) \in Headers
           /\ Marked(e)[e].handlerCount = -Cardinality(HandlersOf(e))
           /\ \A f \in Exceptions \ {e} : Marked(e)[f].handlerCount = headers[f].handlerCount
           /\ \A f \in Exceptions :
                 /\ Marked(e)[f].state = headers[f].state
                 /\ Marked(e)[f].references = headers[f].references
                 /\ Marked(e)[f].next = headers[f].next
<1>1. headers \in Headers
  BY DEF Inv, Typed
<1>2. e # active
  BY DEF Assumed, ExceptionsConstants
<1>3. headers[e].handlerCount = Cardinality(HandlersOf(e)) /\ Cardinality(HandlersOf(e)) \in Nat
  BY <1>2, CountedSet DEF Inv, Counted
<1>4. Abs(headers[e].handlerCount) = Cardinality(HandlersOf(e))
  BY <1>3 DEF Abs
<1>5. Marked(e) = [headers EXCEPT ![e].handlerCount = -Cardinality(HandlersOf(e))]
  BY <1>1, <1>4 DEF Marked, Headers
<1>6. QED BY <1>1, <1>3, <1>5 DEF Headers

LEMMA RethrowStep == ASSUME Assumed, Inv, Rethrow PROVE Inv'
<1> DEFINE e == caught
<1>1. /\ active = Null /\ raised = Null /\ CleanupAt = {} /\ uncaught = 0 /\ e # Null
      /\ e \in Exceptions
  BY NobodyInTheAir DEF Assumed, Rethrow, MayThrow, Inv, InTheAir, Typed, Optional, Runs
<1>2. /\ headers' = Marked(e) /\ active' = e /\ uncaught' = 1 /\ raised' = e
      /\ UNCHANGED <<caught, landing, resume, scopes, pointers, aborted>>
  BY <1>1 DEF Rethrow, Raise
<1>3. \A f : /\ HandlersOf(f)' = HandlersOf(f) /\ ArgumentsOf(f)' = ArgumentsOf(f)
            /\ PointersTo(f)' = PointersTo(f)
  BY <1>2 DEF HandlersOf, ArgumentsOf, PointersTo
<1>4. PICK k \in HandlersOf(e) : \A f \in Exceptions : \A j \in HandlersOf(f) : j <= k
  BY <1>1 DEF Inv, Chain, Innermosts
<1>5. /\ headers' \in Headers
      /\ headers'[e].handlerCount = -Cardinality(HandlersOf(e))
      /\ \A f \in Exceptions \ {e} : headers'[f].handlerCount = headers[f].handlerCount
      /\ \A f \in Exceptions :
            /\ headers'[f].state = headers[f].state
            /\ headers'[f].references = headers[f].references
            /\ headers'[f].next = headers[f].next
  BY <1>1, <1>2, MarkedHeaders
<1>6. Typed'
  BY <1>1, <1>2, <1>5 DEF Inv, Typed, Optional
<1>7. InTheAir'
  BY <1>1, <1>2 DEF Inv, InTheAir, CleanupAt
<1>8. Together' /\ Chain'
  BY <1>2, <1>3, <1>5, ChainKept DEF Inv
<1>9. Counted'
  <2> SUFFICES ASSUME NEW f \in Exceptions
               PROVE  /\ IsFiniteSet(HandlersOf(f))
                      /\ headers'[f].handlerCount = (IF f = e THEN -Cardinality(HandlersOf(f))
                                                     ELSE Cardinality(HandlersOf(f)))
                      /\ headers'[f].references =
                            Cardinality(PointersTo(f)) + (IF ArgumentsOf(f) = {} THEN 0 ELSE 1)
    BY <1>2, <1>3 DEF Counted
  <2>1. f # active
    BY <1>1 DEF Assumed, ExceptionsConstants
  <2>2. QED BY <1>5, <2>1 DEF Inv, Counted
<1>10. Living'
  <2> SUFFICES ASSUME NEW f \in Exceptions
               PROVE  headers[f].state = "alive" <=>
                         f = e \/ HandlersOf(f) # {} \/ PointersTo(f) # {}
                             \/ ArgumentsOf(f) # {}
    BY <1>2, <1>3, <1>5 DEF Living, Used
  <2>1. f # active
    BY <1>1 DEF Assumed, ExceptionsConstants
  <2>2. QED BY <1>4, <2>1 DEF Inv, Living, Used
<1>11. NotBelow(active)'
  <2> SUFFICES ASSUME NEW i \in HandlersOf(e), NEW f \in Exceptions \ {e},
      NEW j \in HandlersOf(f), i < j
               PROVE  FALSE
    BY <1>2, <1>3 DEF NotBelow
  <2>1. j <= k /\ j # k /\ j \in Nat /\ k \in Nat
    BY <1>4, Domains DEF HandlersOf, Inv
  <2>2. QED BY <1>1, <2>1, <1>4 DEF Inv, Together
<1>12. QED BY <1>6, <1>7, <1>8, <1>9, <1>10, <1>11 DEF Inv

LEMMA RethrowExceptionStep ==
    ASSUME Assumed, Inv, NEW p \in Pointers, RethrowException(p)
    PROVE  Inv'
<1> DEFINE e == pointers[p]
           s == Scope("argument", e)
           n == Len(scopes) + 1
<1>1. /\ active = Null /\ raised = Null /\ CleanupAt = {} /\ uncaught = 0 /\ e # Null
      /\ e \in Exceptions
      /\ ~CaughtBelow(e)
  BY NobodyInTheAir DEF Assumed, RethrowException, MayThrow, Inv, InTheAir, Typed, Optional,
         Runs
<1>2. /\ headers' = [Marked(e) EXCEPT ![e].references = @ + 1]
      /\ active' = e /\ uncaught' = 1 /\ raised' = e /\ scopes' = Append(scopes, s)
      /\ UNCHANGED <<caught, landing, resume, pointers, aborted>>
  BY <1>1 DEF RethrowException, Raise
<1>3. s \in [kind : Kinds, exc : Optional] /\ s.kind = "argument" /\ s.exc = e
  BY <1>1 DEF Scope, Kinds, Optional
<1>4. /\ scopes' \in Seq([kind : Kinds, exc : Optional])
      /\ Len(scopes') = n /\ DOMAIN scopes' = DOMAIN scopes \cup {n} /\ n \notin DOMAIN scopes
      /\ \A i \in DOMAIN scopes : i < n /\ scopes'[i] = scopes[i]
      /\ scopes'[n] = s
  BY <1>2, <1>3, Pushed DEF Inv
<1>5. DOMAIN scopes = 1 .. Len(scopes) /\ Len(scopes) \in Nat
  BY Domains DEF Inv
<1> HIDE DEF s, n
<1>6. \A f : HandlersOf(f)' = HandlersOf(f) /\ PointersTo(f)' = PointersTo(f)
  BY <1>2, <1>3, <1>4 DEF HandlersOf, PointersTo
<1>7. /\ \A f : ArgumentsOf(f) = {}
      /\ \A f : ArgumentsOf(f)' = IF f = e THEN {n} ELSE {}
  BY <1>1, <1>3, <1>4 DEF ArgumentsOf, Inv, InTheAir
<1>8. /\ headers' \in Headers
      /\ headers'[e].handlerCount = -Cardinality(HandlersOf(e))
      /\ headers'[e].references = headers[e].references + 1
      /\ \A f \in Exceptions \ {e} : /\ headers'[f].handlerCount = headers[f].handlerCount
                                   /\ headers'[f].references = headers[f].references
      /\ \A f \in Exceptions :
            /\ headers'[f].state = headers[f].state
            /\ headers'[f].next = headers[f].next
  <2>1. /\ Marked(e) \in Headers
        /\ Marked(e)[e].handlerCount = -Cardinality(HandlersOf(e))
        /\ \A f \in Exceptions \ {e} : Marked(e)[f].handlerCount = headers[f].handlerCount
        /\ \A f \in Exceptions :
              /\ Marked(e)[f].state = headers[f].state
              /\ Marked(e)[f].references = headers[f].references
              /\ Marked(e)[f].next = headers[f].next
    BY <1>1, MarkedHeaders
  <2> DEFINE m == Marked(e)
  <2> HIDE DEF m
  <2>2. m \in Headers /\ headers' = [m EXCEPT ![e].references = @ + 1]
    BY <1>2, <2>1 DEF m
  <2>3. /\ headers' \in Headers
        /\ headers'[e].references = m[e].references + 1
        /\ headers'[e].handlerCount = m[e].handlerCount
        /\ \A f \in Exceptions \ {e} : headers'[f] = m[f]
        /\ \A f \in Exceptions : headers'[f].state = m[f].state /\ headers'[f].next = m[f].next
    BY <1>1, <2>2 DEF Headers
  <2>4. QED BY <1>1, <2>1, <2>3 DEF m
<1>9. Typed'
  BY <1>1, <1>2, <1>3, <1>4, <1>8 DEF Inv, Typed, Optional
<1>10. InTheAir'
  <2>1. \A i \in DOMAIN scopes : scopes[i].kind # "argument" /\ scopes[i].kind # "cleanup"
    BY <1>1 DEF Inv, InTheAir, CleanupAt
  <2>2. \A i \in DOMAIN scopes' : scopes'[i].kind # "cleanup"
            /\ (scopes'[i].kind = "argument" => i = n)
    BY <1>3, <1>4, <2>1
  <2>3. QED BY <1>1, <1>2, <1>3, <1>4, <2>2 DEF Inv, InTheAir
<1>11. Together' /\ Chain'
  BY <1>2, <1>6, <1>8, ChainKept DEF Inv
<1>12. \A f \in Exceptions : f # active
  BY <1>1 DEF Assumed, ExceptionsConstants
<1>13. Counted'
  <2> SUFFICES ASSUME NEW f \in Exceptions
               PROVE  /\ IsFiniteSet(HandlersOf(f))
                      /\ headers'[f].handlerCount = (IF f = e THEN -Cardinality(HandlersOf(f))
                                                     ELSE Cardinality(HandlersOf(f)))
                      /\ headers'[f].references =
                            Cardinality(PointersTo(f)) + (IF f = e THEN 1 ELSE 0)
    BY <1>2, <1>6, <1>7 DEF Counted
  <2>1. /\ IsFiniteSet(HandlersOf(f)) /\ headers[f].handlerCount = Cardinality(HandlersOf(f))
        /\ headers[f].references = Cardinality(PointersTo(f)) + 0
    BY <1>7, <1>12 DEF Inv, Counted
  <2>2. headers[f].references \in Nat
    BY DEF Inv, Typed, Headers
  <2>3. IsFiniteSet(PointersTo(f))
    BY FS_Subset DEF Assumed, ExceptionsConstants, PointersTo
  <2>4. QED BY <1>8, <2>1, <2>2, <2>3, CountedSet
<1>14. Living'
  <2> SUFFICES ASSUME NEW f \in Exceptions
               PROVE  headers[f].state = "alive" <=>
                         f = e \/ HandlersOf(f) # {} \/ PointersTo(f) # {}
    BY <1>2, <1>6, <1>7, <1>8 DEF Living, Used
  <2>1. p \in PointersTo(e)
    BY DEF PointersTo
  <2>2. QED BY <1>7, <1>12, <2>1 DEF Inv, Living, Used
<1>15. NotBelow(active)'
  <2> SUFFICES ASSUME NEW i \in HandlersOf(e), NEW f \in Exceptions \ {e},
      NEW j \in HandlersOf(f),
                      NEW t \in DOMAIN scopes, scopes[t].kind = "try", i < j, j < t
               PROVE  FALSE
    <3>1. \A t \in Ahead' : t \in DOMAIN scopes /\ scopes[t].kind = "try"
      BY <1>3, <1>4 DEF Ahead
    <3>2. QED BY <1>2, <1>6, <3>1 DEF NotBelow
  <2> DEFINE around == {h \in DOMAIN scopes : /\ scopes[h].kind = "handler"
                                            /\ \E u \in DOMAIN scopes : u > h
                                                   /\ scopes[u].kind = "try"}
  <2>1. i \in around /\ j \in around
    BY <1>5 DEF HandlersOf
  <2>2. PICK k \in around : \A h \in around : h <= k
    BY <1>5, <2>1, HighestOf
  <2>3. scopes[i].exc = e /\ scopes[k].kind = "handler" /\ k \in DOMAIN scopes
    BY DEF HandlersOf
  <2>4. scopes[k].exc = e
    BY <1>1, <2>1, <2>2, <2>3 DEF CaughtBelow
  <2>5. k \in HandlersOf(e) /\ j <= k /\ j # k
    BY <2>1, <2>2, <2>3, <2>4 DEF HandlersOf
  <2>6. i < j /\ j < k
    BY <1>5, <2>5 DEF HandlersOf
  <2>7. QED BY <1>1, <2>5, <2>6 DEF Inv, Together
<1>16. QED BY <1>9, <1>10, <1>11, <1>13, <1>14, <1>15 DEF Inv

\* What giving up a reference does to a header.
LEMMA Released ==
    ASSUME Assumed, Typed, Chain, NEW h \in Headers, NEW e \in Exceptions, h[e].references # 0,
           h[e].handlerCount = 0 <=> HandlersOf(e) = {}
    PROVE  LET r == ReleaseExceptionReference(h, e) IN
           /\ r \in Headers
           /\ \A f \in Exceptions \ {e} : r[f] = h[f]
           /\ r[e].references = h[e].references - 1
           /\ r[e].handlerCount = h[e].handlerCount /\ r[e].next = h[e].next
           /\ r[e].state = IF HandlersOf(e) = {} /\ active # e /\ h[e].references = 1
                           THEN "destroyed" ELSE h[e].state
<1> DEFINE m == [h EXCEPT ![e].references = @ - 1]
           d == [m EXCEPT ![e].state = "destroyed"]
           busy == HandlersOf(e) # {} \/ active = e
<1>1. e # Null
  BY DEF Assumed, ExceptionsConstants
<1>2. e \in Listed => HandlersOf(e) # {}
  BY ListedIsHandled
<1>3. /\ m \in Headers /\ m[e].references = h[e].references - 1
      /\ m[e].handlerCount = h[e].handlerCount /\ m[e].next = h[e].next
      /\ m[e].state = h[e].state
      /\ \A f \in Exceptions \ {e} : m[f] = h[f]
  BY DEF Headers
<1>4. ReleaseExceptionReference(h, e) =
         IF busy THEN m ELSE IF m[e].references # 0 THEN m ELSE d
  BY <1>1, <1>2 DEF ReleaseExceptionReference, DestroyHeaderIfNeeded
<1> HIDE DEF m
<1>5. /\ d \in Headers /\ d[e].references = m[e].references
      /\ d[e].handlerCount = m[e].handlerCount /\ d[e].next = m[e].next
      /\ d[e].state = "destroyed"
      /\ \A f \in Exceptions \ {e} : d[f] = m[f]
  BY <1>3 DEF Headers
<1>6. h[e].references \in Nat
  BY DEF Headers
<1> HIDE DEF d
<1>7. QED BY <1>3, <1>4, <1>5, <1>6

LEMMA LandInArgumentStep == ASSUME Assumed, Inv, LandInArgument PROVE Inv'
<1> DEFINE n == Len(scopes)
           e == active
<1>1. /\ scopes # << >> /\ n \in DOMAIN scopes /\ n \in Nat /\ DOMAIN scopes = 1 .. n
      /\ scopes[n].kind = "argument" /\ Last(scopes) = scopes[n]
  BY OuterOf, Domains DEF Inv, LandInArgument, Innermost
<1>2. raised = e /\ e # Null /\ e \in Exceptions /\ scopes[n].exc = e
  BY <1>1 DEF LandInArgument, Inv, InTheAir, Typed, Optional
<1>3. /\ landing' = e /\ raised' = e /\ scopes' = SubSeq(scopes, 1, Len(Outer))
      /\ resume' = [exc |-> e, depth |-> n - 1]
      /\ headers' = ReleaseExceptionReference(headers, e)
      /\ UNCHANGED <<caught, uncaught, active, pointers, aborted>>
  BY <1>1, <1>2, OuterOf DEF LandInArgument, Resume, Context, Inv
<1>4. /\ scopes' \in Seq([kind : Kinds, exc : Optional])
      /\ Len(scopes') = n - 1 /\ DOMAIN scopes' = DOMAIN scopes \ {n}
      /\ \A i \in DOMAIN scopes' : scopes'[i] = scopes[i]
  BY <1>1, <1>3, OuterOf, OuterIs DEF Inv
<1> HIDE DEF n
<1>5. \A f : HandlersOf(f)' = HandlersOf(f) /\ PointersTo(f)' = PointersTo(f)
  BY <1>1, <1>3, <1>4 DEF HandlersOf, PointersTo
<1>6. \A i \in DOMAIN scopes' : scopes'[i].kind # "argument" /\ scopes'[i].kind # "cleanup"
  BY <1>1, <1>2, <1>4 DEF n, Inv, InTheAir
<1>7. /\ n \in ArgumentsOf(e) /\ \A f : ArgumentsOf(f)' = {}
      /\ \A f : f # e => ArgumentsOf(f) = {}
  BY <1>1, <1>2, <1>6 DEF ArgumentsOf, Inv, InTheAir
<1>8. /\ headers \in Headers /\ headers[e].references = Cardinality(PointersTo(e)) + 1
      /\ IsFiniteSet(PointersTo(e)) /\ Cardinality(PointersTo(e)) \in Nat
  BY <1>2, <1>7, CountedSet, FS_Subset DEF Assumed, Inv, Typed, Counted, ExceptionsConstants,
         PointersTo
<1>9. headers[e].handlerCount = 0 <=> HandlersOf(e) = {}
  <2>1. headers[e].handlerCount = -Cardinality(HandlersOf(e)) /\ IsFiniteSet(HandlersOf(e))
    BY <1>2 DEF Inv, Counted
  <2>2. QED BY <2>1, CountedSet
<1>10. /\ headers' \in Headers
       /\ \A f \in Exceptions \ {e} : headers'[f] = headers[f]
       /\ headers'[e].references = Cardinality(PointersTo(e))
       /\ headers'[e].handlerCount = headers[e].handlerCount
       /\ headers'[e].next = headers[e].next
       /\ headers'[e].state = headers[e].state
  <2>1. headers[e].references # 0
    BY <1>8
  <2>2. QED BY <1>2, <1>3, <1>8, <1>9, <2>1, Released DEF Inv
<1>11. Typed'
  BY <1>1, <1>2, <1>3, <1>4, <1>10 DEF Inv, Typed, Optional
<1>12. InTheAir'
  BY <1>2, <1>3, <1>6 DEF Inv, InTheAir
<1>13. Together' /\ Chain'
  BY <1>3, <1>5, <1>10, ChainKept DEF Inv
<1>14. Counted'
  <2> SUFFICES ASSUME NEW f \in Exceptions
               PROVE  /\ IsFiniteSet(HandlersOf(f))
                      /\ headers'[f].handlerCount = (IF f = e THEN -Cardinality(HandlersOf(f))
                                                     ELSE Cardinality(HandlersOf(f)))
                      /\ headers'[f].references = Cardinality(PointersTo(f)) + 0
    BY <1>3, <1>5, <1>7 DEF Counted
  <2>1. CASE f = e
    BY <1>2, <1>8, <1>10, <2>1 DEF Inv, Counted
  <2>2. CASE f # e
    BY <1>7, <1>10, <2>2 DEF Inv, Counted
  <2>3. QED BY <2>1, <2>2
<1>15. Living'
  BY <1>2, <1>3, <1>5, <1>7, <1>10 DEF Inv, Living, Used
<1>16. NotBelow(active)'
  <2>1. Ahead' \subseteq Ahead
    BY <1>2, <1>4 DEF Inv, InTheAir, Ahead, CleanupAt
  <2>2. QED BY <1>2, <1>3, <1>5, <2>1 DEF Inv, NotBelow
<1>17. QED BY <1>11, <1>12, <1>13, <1>14, <1>15, <1>16 DEF Inv

LEMMA ReleasedIfAny ==
    ASSUME Assumed, Typed, Chain, NEW h \in Headers, NEW e \in Optional,
           e \in Exceptions =>
               h[e].references # 0 /\ (h[e].handlerCount = 0 <=> HandlersOf(e) = {}),
           NEW r, r = ReleaseExceptionReference(h, e)
    PROVE  /\ r \in Headers
           /\ \A f \in Exceptions :
                 /\ r[f].references = IF f = e THEN h[f].references - 1 ELSE h[f].references
                 /\ r[f].handlerCount = h[f].handlerCount /\ r[f].next = h[f].next
                 /\ r[f].state =
                       IF f = e /\ HandlersOf(f) = {} /\ active # f /\ h[f].references = 1
                       THEN "destroyed" ELSE h[f].state
<1>1. CASE e \in Exceptions
  BY <1>1, Released
<1>2. CASE e \notin Exceptions
  <2>1. r = h
    BY <1>2 DEF ReleaseExceptionReference, Optional
  <2>2. QED BY <1>2, <2>1
<1>3. QED BY <1>1, <1>2

\* A pointer is given another value: the reference to the old one is given up.
LEMMA Assigned ==
    ASSUME Assumed, Inv, Runs, NEW p \in Pointers, NEW new \in Optional,
           new # Null => Used(new),
           headers' = ReleaseExceptionReference(
                          IF new = Null THEN headers
                          ELSE [headers EXCEPT ![new].references = @ + 1],
                          pointers[p]),
           pointers' = [pointers EXCEPT ![p] = new],
           UNCHANGED <<caught, uncaught, active, landing, resume, raised, scopes, aborted>>
    PROVE  Inv'
<1> DEFINE old == pointers[p]
           h == IF new = Null THEN headers ELSE [headers EXCEPT ![new].references = @ + 1]
<1>1. /\ old \in Optional /\ Null \notin Exceptions /\ headers \in Headers
      /\ pointers \in [Pointers -> Optional]
  BY DEF Assumed, Inv, Typed, ExceptionsConstants
<1>2. \A f : HandlersOf(f)' = HandlersOf(f) /\ ArgumentsOf(f)' = ArgumentsOf(f)
  BY DEF HandlersOf, ArgumentsOf
<1>3. \A f : ArgumentsOf(f) = {}
  BY DEF ArgumentsOf, Inv, InTheAir, Runs
<1>4. ASSUME NEW f \in Exceptions
      PROVE  /\ IsFiniteSet(PointersTo(f)) /\ Cardinality(PointersTo(f)) \in Nat
             /\ headers[f].references = Cardinality(PointersTo(f))
             /\ IsFiniteSet(PointersTo(f)')
             /\ PointersTo(f)' = IF f = new THEN PointersTo(f) \cup {p} ELSE PointersTo(f) \ {p}
             /\ p \in PointersTo(f) <=> f = old
             /\ headers[f].handlerCount = 0 <=> HandlersOf(f) = {}
  <2>1. IsFiniteSet(PointersTo(f)) /\ IsFiniteSet(PointersTo(f)')
    BY FS_Subset DEF Assumed, ExceptionsConstants, PointersTo
  <2>2. Cardinality(PointersTo(f)) \in Nat
    BY <2>1, CountedSet
  <2>3. headers[f].references = Cardinality(PointersTo(f))
    BY <1>3, <2>2 DEF Inv, Counted
  <2>4. /\ IsFiniteSet(HandlersOf(f))
        /\ headers[f].handlerCount \in {Cardinality(HandlersOf(f)), -Cardinality(HandlersOf(f))}
    BY DEF Inv, Counted
  <2>5. headers[f].handlerCount = 0 <=> HandlersOf(f) = {}
    BY <2>4, CountedSet
  <2>6. /\ PointersTo(f)' = IF f = new THEN PointersTo(f) \cup {p} ELSE PointersTo(f) \ {p}
        /\ p \in PointersTo(f) <=> f = old
    BY <1>1 DEF PointersTo
  <2>7. QED BY <2>1, <2>2, <2>3, <2>5, <2>6
<1>5. /\ h \in Headers
      /\ \A f \in Exceptions :
            /\ h[f].references = headers[f].references + (IF f = new THEN 1 ELSE 0)
            /\ h[f].handlerCount = headers[f].handlerCount
            /\ h[f].next = headers[f].next /\ h[f].state = headers[f].state
  BY <1>1 DEF Headers, Optional
<1>6. headers' = ReleaseExceptionReference(h, old)
  OBVIOUS
<1> HIDE DEF h
<1>7. /\ headers' \in Headers
      /\ \A f \in Exceptions :
            /\ headers'[f].references = IF f = old THEN h[f].references - 1 ELSE h[f].references
            /\ headers'[f].handlerCount = headers[f].handlerCount
            /\ headers'[f].next = headers[f].next
            /\ headers'[f].state =
                  IF f = old /\ HandlersOf(f) = {} /\ active # f /\ h[f].references = 1
                  THEN "destroyed" ELSE headers[f].state
  <2>1. ASSUME old \in Exceptions
        PROVE  h[old].references # 0 /\ (h[old].handlerCount = 0 <=> HandlersOf(old) = {})
    <3>1. old \in Exceptions /\ p \in PointersTo(old)
      BY <1>4, <2>1
    <3>2. headers[old].references \in Nat /\ headers[old].references # 0
      BY <1>4, <3>1, CountedSet
    <3>3. QED BY <1>4, <1>5, <3>1, <3>2
  <2>2. Typed /\ Chain
    BY DEF Inv
  <2> HIDE DEF old
  <2>3. /\ headers' \in Headers
        /\ \A f \in Exceptions :
              /\ headers'[f].references = IF f = old THEN h[f].references - 1 ELSE h[f].references
              /\ headers'[f].handlerCount = h[f].handlerCount
              /\ headers'[f].next = h[f].next
              /\ headers'[f].state =
                    IF f = old /\ HandlersOf(f) = {} /\ active # f /\ h[f].references = 1
                    THEN "destroyed" ELSE h[f].state
    <3> DEFINE r == headers'
    <3>1. r = ReleaseExceptionReference(h, old)
      BY <1>6
    <3> HIDE DEF r
    <3>2. h \in Headers /\ old \in Optional
      BY <1>1, <1>5
    <3>3. r \in Headers
      BY <2>1, <2>2, <3>1, <3>2, ReleasedIfAny
    <3>4. ASSUME NEW f \in Exceptions
          PROVE /\ r[f].references = IF f = old THEN h[f].references - 1 ELSE h[f].references
                /\ r[f].handlerCount = h[f].handlerCount
                /\ r[f].next = h[f].next
                /\ r[f].state =
                    IF f = old /\ HandlersOf(f) = {} /\ active # f /\ h[f].references = 1
                    THEN "destroyed" ELSE h[f].state
      BY <2>1, <2>2, <3>1, <3>2, ReleasedIfAny
    <3>5. headers' = r
      BY DEF r
    <3>6. QED BY <3>3, <3>4, <3>5
  <2>4. ASSUME NEW f \in Exceptions
        PROVE  /\ h[f].handlerCount = headers[f].handlerCount
               /\ h[f].next = headers[f].next /\ h[f].state = headers[f].state
    BY <1>5
  <2>5. ASSUME NEW f \in Exceptions
        PROVE  /\ headers'[f].references =
                      IF f = old THEN h[f].references - 1 ELSE h[f].references
               /\ headers'[f].handlerCount = headers[f].handlerCount
               /\ headers'[f].next = headers[f].next
    BY <2>3, <2>4
  <2>6. ASSUME NEW f \in Exceptions
        PROVE  headers'[f].state =
                  IF f = old /\ HandlersOf(f) = {} /\ active # f /\ h[f].references = 1
                  THEN "destroyed" ELSE headers[f].state
    <3>1. headers'[f].state =
                  IF f = old /\ HandlersOf(f) = {} /\ active # f /\ h[f].references = 1
                  THEN "destroyed" ELSE h[f].state
      BY <2>3
    <3>2. h[f].state = headers[f].state
      BY <2>4
    <3>3. QED BY <3>1, <3>2
  <2>7. headers' \in Headers
    BY <2>3
  <2>8. QED BY <2>5, <2>6, <2>7
<1>8. Typed'
  BY <1>1, <1>7 DEF Inv, Typed
<1>9. InTheAir'
  BY DEF Inv, InTheAir, CleanupsOf
<1>10. Together' /\ Chain'
  BY <1>2, <1>7, ChainKept DEF Inv
<1>11. ASSUME NEW f \in Exceptions
       PROVE  /\ headers'[f].references = Cardinality(PointersTo(f)')
              /\ headers'[f].references \in Nat
              /\ headers'[f].references = 0 <=> PointersTo(f)' = {}
  <2>1. Cardinality(PointersTo(f)') =
           Cardinality(PointersTo(f)) + (IF f = new THEN 1 ELSE 0) - (IF f = old THEN 1 ELSE 0)
    <3>1. CASE f = old /\ f = new
      <4>1. p \in PointersTo(f) /\ PointersTo(f)' = PointersTo(f) \cup {p}
        BY <1>4, <3>1
      <4>2. PointersTo(f)' = PointersTo(f)
        BY <4>1
      <4>3. QED BY <1>4, <3>1, <4>2
    <3>2. CASE f = old /\ f # new
      <4>1. PointersTo(f)' = PointersTo(f) \ {p} /\ p \in PointersTo(f)
        BY <1>4, <3>2
      <4>2. QED BY <1>4, <3>2, <4>1, CountedWithout
    <3>3. CASE f # old /\ f = new
      <4>1. PointersTo(f)' = PointersTo(f) \cup {p} /\ p \notin PointersTo(f)
        BY <1>4, <3>3
      <4>2. QED BY <1>4, <3>3, <4>1, CountedWith
    <3>4. CASE f # old /\ f # new
      <4>1. PointersTo(f)' = PointersTo(f)
        BY <1>4, <3>4
      <4>2. QED BY <1>4, <3>4, <4>1
    <3>5. QED BY <3>1, <3>2, <3>3, <3>4
  <2>2. headers'[f].references =
           headers[f].references + (IF f = new THEN 1 ELSE 0) - (IF f = old THEN 1 ELSE 0)
    <3>1. headers[f].references \in Nat
      BY <1>4
    <3>2. h[f].references = headers[f].references + (IF f = new THEN 1 ELSE 0)
      BY <1>5
    <3>3. headers'[f].references = IF f = old THEN h[f].references - 1 ELSE h[f].references
      BY <1>7
    <3>4. QED BY <3>1, <3>2, <3>3
  <2>3. headers'[f].references = Cardinality(PointersTo(f)')
    BY <1>4, <2>1, <2>2
  <2>4. QED BY <1>4, <2>3, CountedSet
<1>12. Counted'
  <2> SUFFICES ASSUME NEW f \in Exceptions
               PROVE  /\ IsFiniteSet(HandlersOf(f))
                      /\ headers'[f].handlerCount = (IF f = active THEN -Cardinality(HandlersOf(f))
                                                     ELSE Cardinality(HandlersOf(f)))
                      /\ headers'[f].references = Cardinality(PointersTo(f)') + 0
    BY <1>2, <1>3 DEF Counted
  <2>1. headers'[f].references = Cardinality(PointersTo(f)') + 0
    <3>1. headers'[f].references = Cardinality(PointersTo(f)')
              /\ Cardinality(PointersTo(f)') \in Nat
      BY <1>11
    <3>2. QED BY <3>1
  <2>2. QED BY <1>7, <2>1 DEF Inv, Counted
<1>13. Living'
  <2> SUFFICES ASSUME NEW f \in Exceptions
               PROVE  headers'[f].state = "alive" <=>
                         f = active \/ HandlersOf(f) # {} \/ PointersTo(f)' # {}
    BY <1>2, <1>3 DEF Living, Used
  <2>1. headers[f].state = "alive" <=> f = active \/ HandlersOf(f) # {} \/ PointersTo(f) # {}
    BY <1>3 DEF Inv, Living, Used
  <2>2. headers[f].references \in Nat
    BY <1>4
  <2>3. CASE f = old
    <3>1. PointersTo(f) # {}
      BY <1>4, <2>3
    <3>2. h[f].references = 1 <=> PointersTo(f)' = {}
      <4>1. h[f].references \in Int
        BY <1>5 DEF Headers
      <4>2. headers'[f].references = h[f].references - 1
        BY <1>7, <2>3
      <4>3. headers'[f].references = 0 <=> PointersTo(f)' = {}
        BY <1>11
      <4>4. QED BY <4>1, <4>2, <4>3
    <3>3. QED BY <1>7, <2>1, <2>3, <3>1, <3>2
  <2>4. CASE f # old
    <3>1. headers'[f].state = headers[f].state
      BY <1>7, <2>4
    <3>2. CASE f = new
      <4>1. Used(f)
        BY <1>1, <3>2
      <4>2. PointersTo(f)' # {}
        BY <1>4, <3>2
      <4>3. QED BY <2>1, <3>1, <4>1, <4>2 DEF Inv, Living
    <3>3. CASE f # new
      <4>1. PointersTo(f)' = PointersTo(f)
        BY <1>4, <2>4, <3>3
      <4>2. QED BY <2>1, <3>1, <4>1
    <3>4. QED BY <3>2, <3>3
  <2>5. QED BY <2>3, <2>4
<1>14. active # Null => NotBelow(active)'
  BY <1>2 DEF Inv, NotBelow, Ahead, CleanupAt
<1>15. QED BY <1>8, <1>9, <1>10, <1>12, <1>13, <1>14 DEF Inv

\* The innermost handler is left: its exception is the current one.
LEMMA Popped ==
    ASSUME Inv, Innermost("handler"), scopes' = Outer
    PROVE  LET n == Len(scopes) IN
           /\ n \in Nat /\ n \in HandlersOf(caught) /\ caught \in Exceptions
           /\ scopes' \in Seq([kind : Kinds, exc : Optional])
           /\ DOMAIN scopes' = DOMAIN scopes \ {n} /\ DOMAIN scopes = 1 .. n
           /\ \A i \in DOMAIN scopes' : scopes'[i] = scopes[i]
           /\ \A f : HandlersOf(f)' = IF f = caught THEN HandlersOf(f) \ {n} ELSE HandlersOf(f)
           /\ \A f : ArgumentsOf(f)' = {} /\ ArgumentsOf(f) = {}
<1> DEFINE n == Len(scopes)
           c == scopes[n].exc
<1>1. /\ scopes # << >> /\ n \in DOMAIN scopes /\ n \in Nat /\ DOMAIN scopes = 1 .. n
      /\ scopes[n].kind = "handler" /\ c \in Exceptions
  <2>1. /\ scopes # << >> /\ n \in DOMAIN scopes /\ n \in Nat /\ DOMAIN scopes = 1 .. n
        /\ scopes[n].kind = "handler"
    BY OuterOf, Domains DEF Inv, Innermost
  <2> HIDE DEF n
  <2>2. c # Null
    BY <2>1 DEF Inv, Typed
  <2>3. scopes[n] \in [kind : Kinds, exc : Optional]
    <3> DEFINE S == [kind : Kinds, exc : Optional]
    <3>1. scopes \in Seq(S)
      BY DEF Inv, Typed
    <3> HIDE DEF S
    <3>2. scopes[n] \in S
      BY <2>1, <3>1
    <3>3. QED BY <3>2 DEF S
  <2>4. QED BY <2>1, <2>2, <2>3 DEF Optional
<1>2. /\ scopes' \in Seq([kind : Kinds, exc : Optional]) /\ DOMAIN scopes' = DOMAIN scopes \ {n}
      /\ \A i \in DOMAIN scopes' : scopes'[i] = scopes[i]
  BY <1>1, OuterOf DEF Inv
<1>3. n \in HandlersOf(c)
  BY <1>1 DEF HandlersOf
<1>4. caught = c
  <2>1. Innermosts(caught) /\ caught \in Optional
    BY DEF Inv, Typed, Chain
  <2>2. caught # Null
    BY <1>1, <1>3, <2>1 DEF Innermosts
  <2>3. PICK k \in HandlersOf(caught) : \A f \in Exceptions : \A j \in HandlersOf(f) : j <= k
    BY <2>1, <2>2 DEF Innermosts
  <2>4. n <= k /\ k \in 1 .. n /\ scopes[k].exc = caught
    BY <1>1, <1>3, <2>3 DEF HandlersOf
  <2>5. QED BY <1>1, <2>4
<1> HIDE DEF n
<1>5. \A f : HandlersOf(f)' = IF f = c THEN HandlersOf(f) \ {n} ELSE HandlersOf(f)
  BY <1>1, <1>2 DEF HandlersOf
<1>6. \A f : ArgumentsOf(f) = {}
  BY <1>1 DEF n, ArgumentsOf, Inv, InTheAir
<1>7. \A f : ArgumentsOf(f)' = {}
  BY <1>2, <1>6 DEF ArgumentsOf
<1>8. QED BY <1>1, <1>2, <1>3, <1>4, <1>5, <1>6, <1>7 DEF n

LEMMA PoppedHeader ==
    ASSUME NEW h \in Headers, NEW c \in Exceptions, NEW p, p = PopCaughtException(h, c)
    PROVE  /\ p \in Headers /\ p[c].handlerCount = 0 /\ p[c].next = Null
           /\ p[c].state = h[c].state /\ p[c].references = h[c].references
           /\ \A f \in Exceptions \ {c} : p[f] = h[f]
<1> DEFINE q == [h EXCEPT ![c].next = Null]
<1>1. /\ q \in Headers /\ q[c].next = Null
      /\ q[c].state = h[c].state /\ q[c].references = h[c].references
      /\ \A f \in Exceptions \ {c} : q[f] = h[f]
  BY DEF Headers, Optional
<1>2. p = [q EXCEPT ![c].handlerCount = 0]
  BY DEF PopCaughtException
<1> HIDE DEF q
<1>3. QED BY <1>1, <1>2 DEF Headers

LEMMA EndCatchStep ==
    ASSUME Assumed, Inv, Innermost("handler"), NEW l \in Optional, NEW end, end = EndCatch(l),
           headers' = end.headers, caught' = end.caught, scopes' = Outer,
           UNCHANGED <<active, pointers>>
    PROVE  /\ headers' \in Headers /\ caught' \in Optional
           /\ Together' /\ Chain' /\ Counted' /\ Living'
           /\ end.landing \in {l, Null}
           /\ l = active \/ l # caught => end.landing = l
           /\ end.landing # Null /\ l = caught /\ l # active => caught' = caught
<1>a. PICK c, n : c = caught /\ n = Len(scopes)
  OBVIOUS
<1> DEFINE size == Cardinality(HandlersOf(c))
           count == headers[c].handlerCount
           left == IF count < 0 THEN count + 1 ELSE count - 1
           h == [headers EXCEPT ![c].handlerCount = left]
           popped == PopCaughtException(h, c)
<1>1. /\ n \in Nat /\ n \in HandlersOf(c) /\ c \in Exceptions /\ DOMAIN scopes = 1 .. n
      /\ \A f : HandlersOf(f)' = IF f = c THEN HandlersOf(f) \ {n} ELSE HandlersOf(f)
      /\ \A f : ArgumentsOf(f)' = {} /\ ArgumentsOf(f) = {}
  BY <1>a, Popped
<1>2. /\ \A f : PointersTo(f)' = PointersTo(f)
      /\ c # Null /\ headers \in Headers
  BY <1>1 DEF Assumed, PointersTo, Inv, Typed, ExceptionsConstants
<1>3. /\ IsFiniteSet(HandlersOf(c)) /\ size \in Nat \ {0}
      /\ count = IF c = active THEN -size ELSE size
      /\ IsFiniteSet(HandlersOf(c)') /\ Cardinality(HandlersOf(c)') = size - 1
      /\ size = 1 <=> HandlersOf(c)' = {}
  <2>1. IsFiniteSet(HandlersOf(c)) /\ count = IF c = active THEN -size ELSE size
    BY <1>1 DEF Inv, Counted
  <2>2. size \in Nat /\ size # 0
    BY <1>1, <2>1, CountedSet
  <2>3. IsFiniteSet(HandlersOf(c)') /\ Cardinality(HandlersOf(c)') = size - 1
    BY <1>1, <2>1, CountedWithout
  <2>4. size - 1 = 0 <=> HandlersOf(c)' = {}
    BY <2>3, CountedSet
  <2>5. QED BY <2>1, <2>2, <2>3, <2>4
<1> HIDE DEF size
<1>4. /\ count < 0 <=> c = active
      /\ left = IF c = active THEN -(size - 1) ELSE size - 1
      /\ left = 0 <=> HandlersOf(c)' = {}
  BY <1>3
<1>5. left \in Int
  BY <1>3, <1>4
<1>6. /\ h \in Headers /\ h[c].handlerCount = left /\ h[c].next = headers[c].next
      /\ h[c].state = headers[c].state /\ h[c].references = headers[c].references
      /\ \A f \in Exceptions \ {c} : h[f] = headers[f]
  BY <1>1, <1>2, <1>5 DEF Headers
<1>7. end = IF left # 0 THEN [headers |-> h, caught |-> c, landing |-> l]
            ELSE IF c = active THEN [headers |-> popped, caught |-> h[c].next, landing |-> l]
            ELSE [headers |-> DestroyHeaderIfNeeded(popped, c), caught |-> h[c].next,
                  landing |-> IF l = c THEN Null ELSE l]
  <2>1. EndCatch(l) = IF left # 0 THEN [headers |-> h, caught |-> c, landing |-> l]
            ELSE IF count < 0 THEN [headers |-> popped, caught |-> h[c].next, landing |-> l]
            ELSE [headers |-> DestroyHeaderIfNeeded(popped, c), caught |-> h[c].next,
                  landing |-> IF l = c THEN Null ELSE l]
    <3>1. headers[c].handlerCount + (IF count < 0 THEN 1 ELSE -1) = left
      BY <1>3
    <3>2. QED BY <1>a, <1>2, <3>1 DEF EndCatch
  <2>2. QED BY <1>4, <2>1
<1> HIDE DEF h, left, count
<1>8. /\ popped \in Headers /\ popped[c].handlerCount = 0 /\ popped[c].next = Null
      /\ popped[c].state = headers[c].state /\ popped[c].references = headers[c].references
      /\ \A f \in Exceptions \ {c} : popped[f] = headers[f]
  BY <1>1, <1>6, PoppedHeader
<1> HIDE DEF popped
<1>9. LET d == DestroyHeaderIfNeeded(popped, c) IN
      /\ d \in Headers /\ d[c].handlerCount = 0 /\ d[c].next = Null
      /\ d[c].state = IF headers[c].references = 0 THEN "destroyed" ELSE headers[c].state
      /\ d[c].references = headers[c].references
      /\ \A f \in Exceptions \ {c} : d[f] = headers[f]
  BY <1>1, <1>8 DEF DestroyHeaderIfNeeded, Headers
<1>10. /\ headers' \in Headers
       /\ \A f \in Exceptions \ {c} : headers'[f] = headers[f]
       /\ headers'[c].handlerCount = left /\ headers'[c].references = headers[c].references
       /\ HandlersOf(c)' # {} => /\ caught' = c /\ headers'[c].next = headers[c].next
                                 /\ headers'[c].state = headers[c].state
       /\ HandlersOf(c)' = {} =>
             /\ caught' = headers[c].next
             /\ headers'[c].state = IF c # active /\ headers[c].references = 0 THEN "destroyed"
                                    ELSE headers[c].state
  <2>1. CASE left # 0
    BY <1>4, <1>6, <1>7, <2>1
  <2>2. CASE left = 0 /\ c = active
    BY <1>4, <1>6, <1>7, <1>8, <2>2
  <2>3. CASE left = 0 /\ c # active
    BY <1>4, <1>6, <1>7, <1>9, <2>3
  <2>4. QED BY <2>1, <2>2, <2>3
<1>11. /\ end.landing \in {l, Null}
       /\ l = active \/ l # c => end.landing = l
       /\ end.landing # Null /\ l = c /\ l # active => caught' = c
  BY <1>a, <1>2, <1>7
<1>12. caught' \in Optional
  BY <1>1, <1>2, <1>10 DEF Headers, Optional
<1>13. Together'
  <2>1. \A f : HandlersOf(f)' \subseteq HandlersOf(f)
    BY <1>1
  <2>2. QED BY <2>1 DEF Inv, Together
<1>14. Innermosts(caught)'
  <2>1. CASE HandlersOf(c)' # {}
    <3>1. HandlersOf(c)' \subseteq 1 .. n
      BY <1>1 DEF HandlersOf
    <3>2. PICK m \in HandlersOf(c)' : \A i \in HandlersOf(c)' : i <= m
      BY <1>1, <2>1, <3>1, HighestOf
    <3>3. ASSUME NEW f \in Exceptions, NEW j \in HandlersOf(f)' PROVE j <= m
      <4>1. CASE f = c
        BY <3>2, <4>1
      <4>2. CASE f # c
        <5>1. j \in HandlersOf(f) /\ m \in HandlersOf(c) /\ m \in 1 .. n /\ j \in 1 .. n
                  /\ j # n
          <6>1. j \in HandlersOf(f) /\ m \in HandlersOf(c)
            BY <1>1, <3>2, <4>2
          <6>2. QED BY <1>1, <4>2, <6>1 DEF HandlersOf
        <5>2. ~(m < j /\ j < n)
          BY <1>1, <4>2, <5>1 DEF Inv, Together
        <5>3. QED BY <5>1, <5>2, <1>1
      <4>3. QED BY <4>1, <4>2
    <3>4. caught' = c
      BY <1>10, <2>1
    <3>5. QED BY <1>2, <3>2, <3>3, <3>4 DEF Innermosts
  <2>2. CASE HandlersOf(c)' = {}
    <3>1. caught' = headers[c].next /\ NextOuter(c, headers[c].next)
      BY <1>1, <1>10, <2>2 DEF Inv, Chain
    <3>2. \A f \in Exceptions : \A j \in HandlersOf(f) : ~(n < j)
      BY <1>1 DEF HandlersOf
    <3>3. CASE caught' = Null
      BY <1>1, <2>2, <3>1, <3>2, <3>3 DEF NextOuter, Innermosts
    <3>4. CASE caught' # Null
      <4>1. PICK k \in HandlersOf(caught') :
               \A f \in Exceptions \ {c} : \A j \in HandlersOf(f) : j <= k
        BY <1>1, <3>1, <3>2, <3>4 DEF NextOuter
      <4>2. caught' # c
        BY <3>1, <3>4 DEF NextOuter
      <4>3. k \in HandlersOf(caught)'
        BY <1>1, <4>2
      <4>4. \A f \in Exceptions : \A j \in HandlersOf(f)' : j <= k
        BY <1>1, <2>2, <4>1
      <4>5. QED BY <3>4, <4>3, <4>4 DEF Innermosts
    <3>5. QED BY <3>3, <3>4
  <2>3. QED BY <2>1, <2>2
<1>15. ASSUME NEW e \in Exceptions, HandlersOf(e)' # {} PROVE NextOuter(e, headers[e].next)'
  <2>a. PICK o : o = headers[e].next
    OBVIOUS
  <2>1. HandlersOf(e) # {} /\ headers'[e].next = o /\ NextOuter(e, o)
    BY <2>a, <1>1, <1>10, <1>15 DEF Inv, Chain
  <2>2. /\ \A f : HandlersOf(f)' \subseteq HandlersOf(f)
        /\ \A f : HandlersOf(f) \subseteq 1 .. n
        /\ \A f : \A j \in HandlersOf(f) : j # n => j \in HandlersOf(f)'
    <3>1. \A f : HandlersOf(f) \subseteq DOMAIN scopes
      BY DEF HandlersOf
    <3>2. /\ \A f : HandlersOf(f)' \subseteq HandlersOf(f)
          /\ \A f : \A j \in HandlersOf(f) : j # n => j \in HandlersOf(f)'
      BY <1>1
    <3>3. QED BY <1>1, <3>1, <3>2
  <2>3. CASE o = Null
    BY <2>1, <2>2, <2>3 DEF NextOuter
  <2>4. CASE o # Null
    <3>1. o # e
      BY <2>1, <2>4 DEF NextOuter
    <3>2. PICK k \in HandlersOf(o) :
              /\ \A i \in HandlersOf(e) : k < i
              /\ \A f \in Exceptions \ {e} : \A j \in HandlersOf(f) :
                    j <= k \/ \A i \in HandlersOf(e) : i < j
      BY <2>1, <2>4 DEF NextOuter
    <3>3. PICK i \in HandlersOf(e) : k < i
      BY <2>1, <3>2
    <3>4. k # n
      BY <1>1, <2>2, <3>2, <3>3
    <3>5. k \in HandlersOf(o)'
      BY <2>2, <3>2, <3>4
    <3>6. QED BY <2>1, <2>2, <2>4, <3>1, <3>2, <3>5 DEF NextOuter
  <2>5. QED BY <2>3, <2>4
<1>16. Chain'
  BY <1>14, <1>15 DEF Chain
<1>17. Counted'
  <2> SUFFICES ASSUME NEW f \in Exceptions
               PROVE  /\ IsFiniteSet(HandlersOf(f)')
                      /\ headers'[f].handlerCount = (IF f = active THEN -Cardinality(HandlersOf(f)')
                                                     ELSE Cardinality(HandlersOf(f)'))
                      /\ headers'[f].references = Cardinality(PointersTo(f)) + 0
    BY <1>1, <1>2 DEF Counted
  <2>1. /\ headers[f].references = Cardinality(PointersTo(f)) + 0 /\ IsFiniteSet(HandlersOf(f))
        /\ headers[f].handlerCount = (IF f = active THEN -Cardinality(HandlersOf(f))
                                      ELSE Cardinality(HandlersOf(f)))
    BY <1>1 DEF Inv, Counted
  <2>2. CASE f = c
    BY <1>3, <1>4, <1>10, <2>1, <2>2
  <2>3. CASE f # c
    <3>1. HandlersOf(f)' = HandlersOf(f) /\ headers'[f] = headers[f]
      BY <1>1, <1>10, <2>3
    <3>2. QED BY <2>1, <3>1
  <2>4. QED BY <2>2, <2>3
<1>18. Living'
  <2> SUFFICES ASSUME NEW f \in Exceptions
               PROVE  headers'[f].state = "alive" <=>
                         f = active \/ HandlersOf(f)' # {} \/ PointersTo(f) # {}
    BY <1>1, <1>2 DEF Living, Used
  <2>1. headers[f].state = "alive" <=> f = active \/ HandlersOf(f) # {} \/ PointersTo(f) # {}
    BY <1>1 DEF Inv, Living, Used
  <2>2. headers[f].references = 0 <=> PointersTo(f) = {}
    <3>1. IsFiniteSet(PointersTo(f))
      BY FS_Subset DEF Assumed, ExceptionsConstants, PointersTo
    <3>2. headers[f].references = Cardinality(PointersTo(f)) + 0
      BY <1>1 DEF Inv, Counted
    <3>3. QED BY <3>1, <3>2, CountedSet
  <2>3. CASE f = c
    BY <1>1, <1>10, <2>1, <2>2, <2>3
  <2>4. CASE f # c
    BY <1>1, <1>10, <2>1, <2>4
  <2>5. QED BY <2>3, <2>4
<1>19. QED BY <1>a, <1>10, <1>11, <1>12, <1>13, <1>16, <1>17, <1>18

LEMMA LeaveHandlerStep == ASSUME Assumed, Inv, LeaveHandler PROVE Inv'
<1>1. PICK end : end = EndCatch(landing)
  OBVIOUS
<1>2. /\ headers' = end.headers /\ caught' = end.caught /\ landing' = end.landing
      /\ scopes' = Outer
      /\ Innermost("handler") /\ Runs
      /\ UNCHANGED <<uncaught, active, resume, raised, pointers, aborted>>
  BY <1>1 DEF LeaveHandler
<1>3. landing \in Optional
  BY DEF Inv, Typed
<1>4. /\ headers' \in Headers /\ caught' \in Optional
      /\ Together' /\ Chain' /\ Counted' /\ Living'
      /\ landing' \in {landing, Null}
      /\ landing' # Null /\ landing = caught /\ landing # active => caught' = caught
  BY <1>1, <1>2, <1>3, EndCatchStep
<1>5. /\ scopes' \in Seq([kind : Kinds, exc : Optional])
      /\ DOMAIN scopes' = DOMAIN scopes \ {Len(scopes)} /\ DOMAIN scopes = 1 .. Len(scopes)
      /\ \A i \in DOMAIN scopes' : scopes'[i] = scopes[i]
      /\ Len(scopes) \in Nat /\ Len(scopes) \in HandlersOf(caught)
  BY <1>2, Popped
<1>6. \A i \in DOMAIN scopes : scopes[i].kind # "argument" /\ scopes[i].kind # "cleanup"
  <2> SUFFICES ASSUME NEW i \in DOMAIN scopes, scopes[i].kind = "cleanup" PROVE FALSE
    BY <1>2 DEF Runs, Inv, InTheAir
  <2>1. \A j \in DOMAIN scopes : j > i => scopes[j].kind \in {"try", "object"}
    BY DEF Inv, InTheAir
  <2>2. Len(scopes) > i
    BY <1>5 DEF HandlersOf
  <2>3. QED BY <1>5, <2>1, <2>2 DEF HandlersOf
<1>7. active = Null /\ raised = Null
  BY <1>2, <1>6, NobodyInTheAir DEF CleanupAt, Runs
<1>8. Typed'
  BY <1>2, <1>3, <1>4, <1>5 DEF Inv, Typed, Optional
<1>9. InTheAir'
  <2>1. \A i \in DOMAIN scopes' : scopes'[i].kind # "argument" /\ scopes'[i].kind # "cleanup"
    BY <1>5, <1>6
  <2>2. landing' # Null => landing' = caught'
    BY <1>4, <1>7 DEF Inv, InTheAir
  <2>3. QED BY <1>2, <1>7, <2>1, <2>2 DEF Inv, InTheAir
<1>10. QED BY <1>2, <1>4, <1>7, <1>8, <1>9 DEF Inv

LEMMA LandInHandlerStep == ASSUME Assumed, Inv, LandInHandler PROVE Inv'
<1>0. /\ raised # Null /\ raised = active /\ Innermost("handler") /\ scopes # << >>
      /\ raised \in Optional
  BY DEF Inv, Typed, InTheAir, LandInHandler, Innermost
<1>1. PICK end : end = EndCatch(raised)
  OBVIOUS
<1>2. Len(Outer) = Len(scopes) - 1 /\ Len(Outer) \in Nat /\ SubSeq(scopes, 1,
          Len(Outer)) = Outer
  BY <1>0, OuterOf, OuterIs DEF Inv
<1>3. /\ headers' = end.headers /\ caught' = end.caught /\ landing' = end.landing
      /\ resume' = Context /\ Resume(end.landing, Context)
      /\ UNCHANGED <<uncaught, active, pointers>>
  BY <1>1 DEF LandInHandler
<1>4. end.landing = raised
  <2>1. ASSUME raised = caught PROVE headers[caught].handlerCount < 0
    <3>1. PICK k \in HandlersOf(caught) : TRUE
      BY <1>0, <2>1 DEF Inv, Chain, Innermosts
    <3>2. /\ IsFiniteSet(HandlersOf(caught))
          /\ headers[caught].handlerCount = -Cardinality(HandlersOf(caught))
      BY <1>0, <2>1 DEF Inv, Counted, Optional
    <3>3. Cardinality(HandlersOf(caught)) \in Nat /\ Cardinality(HandlersOf(caught)) # 0
      BY <3>1, <3>2, CountedSet
    <3>4. QED BY <3>2, <3>3
  <2>2. QED BY <1>1, <2>1 DEF EndCatch
<1>5. raised' = raised /\ scopes' = Outer /\ aborted' = aborted
  BY <1>0, <1>2, <1>3, <1>4 DEF Resume, Context
<1>6. /\ headers' \in Headers /\ caught' \in Optional
      /\ Together' /\ Chain' /\ Counted' /\ Living'
  BY <1>0, <1>1, <1>3, <1>5, EndCatchStep
<1>7. /\ scopes' \in Seq([kind : Kinds, exc : Optional])
      /\ DOMAIN scopes' = DOMAIN scopes \ {Len(scopes)} /\ DOMAIN scopes = 1 .. Len(scopes)
      /\ \A i \in DOMAIN scopes' : scopes'[i] = scopes[i]
      /\ \A f : HandlersOf(f)' \subseteq HandlersOf(f)
      /\ Len(scopes) \in Nat /\ Len(scopes) \in HandlersOf(caught)
  BY <1>0, <1>5, Popped
<1>8. \A i \in DOMAIN scopes : scopes[i].kind # "argument" /\ scopes[i].kind # "cleanup"
  BY <1>0, <1>7 DEF Inv, InTheAir, HandlersOf
<1>9. Typed'
  <2>1. resume' \in [exc : Optional, depth : Nat]
    BY <1>0, <1>2, <1>3 DEF Context
  <2>2. QED BY <1>0, <1>3, <1>4, <1>5, <1>6, <1>7, <2>1 DEF Inv, Typed
<1>10. InTheAir'
  <2>1. \A i \in DOMAIN scopes' : scopes'[i].kind # "argument" /\ scopes'[i].kind # "cleanup"
    BY <1>7, <1>8
  <2>2. QED BY <1>0, <1>3, <1>4, <1>5, <2>1 DEF Inv, InTheAir
<1>11. NotBelow(active)'
  <2>1. Ahead' \subseteq Ahead
    BY <1>7, <1>8 DEF Ahead, CleanupAt
  <2>2. NotBelow(active)
    BY <1>0 DEF Inv
  <2>3. QED BY <1>3, <1>7, <2>1, <2>2 DEF NotBelow
<1>12. QED BY <1>6, <1>9, <1>10, <1>11 DEF Inv

\* Catching links the exception, unless it is the current one already.
LEMMA LandInTryStep == ASSUME Assumed, Inv, LandInTry PROVE Inv'
<1>1. PICK e, n, s : e = raised /\ n = Len(scopes) /\ s = Scope("handler", raised)
  OBVIOUS
<1>2. /\ e # Null /\ e = active /\ e \in Exceptions /\ scopes # << >> /\ n \in Nat
      /\ n \in DOMAIN scopes /\ DOMAIN scopes = 1 .. n /\ scopes[n].kind = "try"
  BY <1>1, OuterOf, Domains DEF LandInTry, Innermost, Inv, InTheAir, Typed, Optional
<1>3. s \in [kind : Kinds, exc : Optional] /\ s.kind = "handler" /\ s.exc = e
  BY <1>1, <1>2 DEF Scope, Kinds, Optional
<1>4. /\ scopes' = Append(Outer, s) /\ caught' = e /\ landing' = e /\ raised' = Null
      /\ headers' = BeginCatch(e) /\ active' = Null /\ uncaught' = 0
      /\ resume' \in [exc : Optional, depth : Nat]
      /\ UNCHANGED <<pointers, aborted>>
  <2>1. Len(Outer) \in Nat
    BY <1>2, OuterOf DEF Inv
  <2>2. uncaught = 1
    BY <1>2 DEF Inv, InTheAir
  <2>3. QED BY <1>1, <1>2, <2>1, <2>2 DEF LandInTry, Context, Optional
<1>5. /\ scopes' \in Seq([kind : Kinds, exc : Optional])
      /\ Len(scopes') = n /\ DOMAIN scopes' = DOMAIN scopes
      /\ \A i \in DOMAIN scopes \ {n} : i < n /\ scopes'[i] = scopes[i]
      /\ scopes'[n] = s
  BY <1>1, <1>2, <1>3, <1>4, Replaced DEF Inv
<1>6. \A i \in DOMAIN scopes : scopes[i].kind # "argument" /\ scopes[i].kind # "cleanup"
  BY <1>1, <1>2 DEF Inv, InTheAir
<1>7. /\ \A f : HandlersOf(f)' = IF f = e THEN HandlersOf(f) \cup {n} ELSE HandlersOf(f)
      /\ \A f : n \notin HandlersOf(f)
      /\ \A f : \A j \in HandlersOf(f) : j \in Nat /\ j < n
      /\ \A f : PointersTo(f)' = PointersTo(f) /\ ArgumentsOf(f) = {} /\ ArgumentsOf(f)' = {}
  <2>1. \A f : ArgumentsOf(f) = {}
    BY <1>6 DEF ArgumentsOf
  <2>2. \A f : ArgumentsOf(f)' = {}
    BY <1>3, <1>5, <1>6 DEF ArgumentsOf
  <2>3. \A f : HandlersOf(f)' = IF f = e THEN HandlersOf(f) \cup {n} ELSE HandlersOf(f)
    BY <1>2, <1>3, <1>5 DEF HandlersOf
  <2>4. \A f : n \notin HandlersOf(f) /\ \A j \in HandlersOf(f) : j \in Nat /\ j < n
    BY <1>2, <1>5 DEF HandlersOf
  <2>5. QED BY <1>4, <2>1, <2>2, <2>3, <2>4 DEF PointersTo
\* Its handlers are the innermost ones.
<1>8. \A i \in HandlersOf(e) : \A f \in Exceptions \ {e} : \A j \in HandlersOf(f) : ~(i < j)
  <2>1. n \in Ahead
    BY <1>2, <1>6 DEF Ahead, CleanupAt
  <2>2. NotBelow(e)
    BY <1>2 DEF Inv
  <2>3. QED BY <1>7, <2>1, <2>2 DEF NotBelow
<1>9. caught # e => HandlersOf(e) = {}
  <2> SUFFICES ASSUME caught # e, NEW i \in HandlersOf(e) PROVE FALSE
    OBVIOUS
  <2>1. PICK k \in HandlersOf(caught) : \A f \in Exceptions : \A j \in HandlersOf(f) : j <= k
    BY <1>2 DEF Inv, Chain, Innermosts
  <2>2. caught \in Exceptions
    BY <1>2 DEF Inv, Typed, Chain, Innermosts, Optional
  <2>3. i # k
    BY <2>1 DEF HandlersOf
  <2>4. i < k
    BY <1>2, <1>7, <2>1, <2>3
  <2>5. QED BY <1>8, <2>1, <2>2, <2>4
<1>10. /\ IsFiniteSet(HandlersOf(e)) /\ Cardinality(HandlersOf(e)) \in Nat
       /\ headers[e].handlerCount = -Cardinality(HandlersOf(e))
       /\ IsFiniteSet(HandlersOf(e) \cup {n})
       /\ Cardinality(HandlersOf(e) \cup {n}) = Cardinality(HandlersOf(e)) + 1
  BY <1>2, <1>7, CountedSet, CountedWith DEF Inv, Counted
<1>11. /\ headers' \in Headers
       /\ \A f \in Exceptions \ {e} : headers'[f] = headers[f]
       /\ headers'[e].handlerCount = Cardinality(HandlersOf(e) \cup {n})
       /\ headers'[e].references = headers[e].references
       /\ headers'[e].state = headers[e].state
       /\ headers'[e].next = IF e = caught THEN headers[e].next ELSE caught
  <2>1. Abs(headers[e].handlerCount) + 1 = Cardinality(HandlersOf(e) \cup {n})
    BY <1>10 DEF Abs
  <2>2. /\ headers \in Headers /\ caught \in Optional
        /\ Cardinality(HandlersOf(e) \cup {n}) \in Int
    BY <1>10 DEF Inv, Typed
  <2> DEFINE next == IF e = caught THEN headers[e].next ELSE caught
             count == Cardinality(HandlersOf(e) \cup {n})
             q == [headers EXCEPT ![e].handlerCount = count]
  <2>3. next \in Optional
    BY <1>2, <2>2 DEF Headers
  <2> HIDE DEF count
  <2>4. /\ q \in Headers /\ q[e].handlerCount = count /\ q[e].next = headers[e].next
        /\ q[e].references = headers[e].references /\ q[e].state = headers[e].state
        /\ \A f \in Exceptions \ {e} : q[f] = headers[f]
    BY <1>2, <2>2 DEF Headers, count
  <2>5. headers' = [q EXCEPT ![e].next = next]
    BY <1>2, <1>4, <2>1, <2>2 DEF BeginCatch, Headers, count
  <2> HIDE DEF q, next
  <2>6. /\ headers' \in Headers /\ \A f \in Exceptions \ {e} : headers'[f] = q[f]
        /\ headers'[e].handlerCount = q[e].handlerCount
        /\ headers'[e].references = q[e].references
        /\ headers'[e].state = q[e].state /\ headers'[e].next = next
    BY <1>2, <2>3, <2>4, <2>5 DEF Headers
  <2>7. QED BY <2>4, <2>6 DEF count, next
<1>12. Typed'
  <2>1. \A i \in DOMAIN scopes' : scopes'[i].kind \in {"handler", "cleanup", "argument"} =>
            scopes'[i].exc # Null
    BY <1>2, <1>3, <1>5 DEF Inv, Typed
  <2>2. QED BY <1>2, <1>4, <1>5, <1>11, <2>1 DEF Inv, Typed, Optional
<1>13. InTheAir'
  <2>1. \A i \in DOMAIN scopes' : scopes'[i].kind # "argument" /\ scopes'[i].kind # "cleanup"
    BY <1>3, <1>5, <1>6
  <2>2. QED BY <1>4, <2>1 DEF InTheAir
<1>14. Together'
  <2> SUFFICES ASSUME NEW f \in Exceptions, NEW g \in Exceptions, NEW i \in HandlersOf(f)',
                      NEW k \in HandlersOf(f)', NEW j \in HandlersOf(g)', i < j, j < k
               PROVE  f = g
    BY DEF Together
  <2>1. i # n /\ j # n
    BY <1>2, <1>7
  <2>2. i \in HandlersOf(f) /\ j \in HandlersOf(g)
    BY <1>7, <2>1
  <2>3. CASE k = n
    <3>1. f = e
      BY <1>7, <2>3
    <3>2. QED BY <1>8, <2>2, <3>1
  <2>4. CASE k # n
    <3>1. k \in HandlersOf(f)
      BY <1>7, <2>4
    <3>2. QED BY <2>2, <3>1 DEF Inv, Together
  <2>5. QED BY <2>3, <2>4
<1>15. Innermosts(caught)'
  <2>1. n \in HandlersOf(caught)'
    BY <1>4, <1>7
  <2>2. \A f \in Exceptions : \A j \in HandlersOf(f)' : j <= n
    BY <1>2, <1>7
  <2>3. QED BY <1>2, <1>4, <2>1, <2>2 DEF Innermosts
<1>16. ASSUME NEW f \in Exceptions, HandlersOf(f)' # {} PROVE NextOuter(f, headers[f].next)'
  <2>a. PICK o : o = headers'[f].next
    OBVIOUS
  <2>1. CASE f = e /\ caught # e
    <3>1. o = caught /\ HandlersOf(e)' = {n} /\ Innermosts(caught) /\ o # e
      BY <2>a, <1>7, <1>9, <1>11, <2>1 DEF Inv, Chain
    <3>2. \A g \in Exceptions \ {e} : HandlersOf(g)' = HandlersOf(g)
      BY <1>7
    <3>3. CASE o = Null
      BY <2>a, <2>1, <3>1, <3>2, <3>3 DEF NextOuter, Innermosts
    <3>4. CASE o # Null
      <4>1. PICK k \in HandlersOf(o) : \A g \in Exceptions : \A j \in HandlersOf(g) : j <= k
        BY <3>1, <3>4 DEF Innermosts
      <4>2. k \in HandlersOf(o)' /\ k < n
        BY <1>7, <3>1, <4>1
      <4>3. QED BY <2>a, <2>1, <3>1, <3>2, <3>4, <4>1, <4>2 DEF NextOuter
    <3>5. QED BY <3>3, <3>4
  <2>2. CASE f = e /\ caught = e
    <3>1. HandlersOf(e) # {}
      BY <1>2, <2>2 DEF Inv, Chain, Innermosts
    <3>2. NextOuter(e, o)
      BY <2>a, <1>2, <1>11, <2>2, <3>1 DEF Inv, Chain
    <3>3. \A g \in Exceptions \ {e} : HandlersOf(g)' = HandlersOf(g)
      BY <1>7
    <3>4. PICK i \in HandlersOf(e) : TRUE
      BY <3>1
    <3>5. \A g \in Exceptions \ {e} : \A j \in HandlersOf(g) : ~ \A h \in HandlersOf(e) : h < j
      BY <1>8, <3>4
    <3>6. CASE o = Null
      <4>1. \A g \in Exceptions \ {e} : HandlersOf(g)' = {}
        BY <3>2, <3>3, <3>5, <3>6 DEF NextOuter
      <4>2. QED BY <2>a, <2>2, <3>6, <4>1 DEF NextOuter
    <3>7. CASE o # Null
      <4>1. /\ o # e
            /\ \E k \in HandlersOf(o) :
                  /\ \A h \in HandlersOf(e) : k < h
                  /\ \A g \in Exceptions \ {e} : \A j \in HandlersOf(g) : j <= k
        BY <3>2, <3>5, <3>7 DEF NextOuter
      <4>2. PICK k \in HandlersOf(o) :
                  /\ \A h \in HandlersOf(e) : k < h
                  /\ \A g \in Exceptions \ {e} : \A j \in HandlersOf(g) : j <= k
        BY <4>1
      <4>3. k \in HandlersOf(o)' /\ \A h \in HandlersOf(e)' : k < h
        BY <1>7, <4>1, <4>2
      <4>4. QED BY <2>a, <2>2, <3>3, <3>7, <4>1, <4>2, <4>3 DEF NextOuter
    <3>8. QED BY <3>6, <3>7
  <2>3. CASE f # e
    <3>1. HandlersOf(f)' = HandlersOf(f) /\ HandlersOf(f) # {} /\ o = headers[f].next
      BY <2>a, <1>7, <1>11, <1>16, <2>3
    <3>2. NextOuter(f, o)
      BY <3>1 DEF Inv, Chain
    <3>3. \A g : HandlersOf(g) \subseteq HandlersOf(g)'
      BY <1>7
    <3>4. \A g : \A j \in HandlersOf(g)' : j \in HandlersOf(g) \/ \A i \in HandlersOf(f) : i < j
      BY <1>7
    <3>5. CASE o = Null
      BY <2>a, <3>1, <3>2, <3>4, <3>5 DEF NextOuter
    <3>6. CASE o # Null
      <4>1. o # f
        BY <3>2, <3>6 DEF NextOuter
      <4>2. PICK k \in HandlersOf(o) :
                /\ \A i \in HandlersOf(f) : k < i
                /\ \A g \in Exceptions \ {f} : \A j \in HandlersOf(g) :
                      j <= k \/ \A i \in HandlersOf(f) : i < j
        BY <3>2, <3>6 DEF NextOuter
      <4>3. k \in HandlersOf(o)'
        BY <3>3
      <4>4. QED BY <2>a, <3>1, <3>4, <3>6, <4>1, <4>2, <4>3 DEF NextOuter
    <3>7. QED BY <3>5, <3>6
  <2>4. QED BY <2>1, <2>2, <2>3
<1>17. Counted'
  <2> SUFFICES ASSUME NEW f \in Exceptions
               PROVE  /\ IsFiniteSet(HandlersOf(f)')
                      /\ headers'[f].handlerCount = Cardinality(HandlersOf(f)')
                      /\ headers'[f].references = Cardinality(PointersTo(f)) + 0
    BY <1>4, <1>7 DEF Assumed, Counted, ExceptionsConstants
  <2>1. headers[f].references = Cardinality(PointersTo(f)) + 0
    BY <1>7 DEF Inv, Counted
  <2>2. CASE f = e
    BY <1>7, <1>10, <1>11, <2>1, <2>2
  <2>3. CASE f # e
    <3>1. HandlersOf(f)' = HandlersOf(f) /\ headers'[f] = headers[f] /\ f # active
      BY <1>2, <1>7, <1>11, <2>3
    <3>2. IsFiniteSet(HandlersOf(f)) /\ headers[f].handlerCount = Cardinality(HandlersOf(f))
      BY <3>1 DEF Inv, Counted
    <3>3. QED BY <2>1, <3>1, <3>2
  <2>4. QED BY <2>2, <2>3
<1>18. Living'
  <2> SUFFICES ASSUME NEW f \in Exceptions
               PROVE  headers'[f].state = "alive" <=> HandlersOf(f)' # {} \/ PointersTo(f) # {}
    BY <1>4, <1>7 DEF Assumed, Living, Used, ExceptionsConstants
  <2>1. headers[f].state = "alive" <=> f = active \/ HandlersOf(f) # {} \/ PointersTo(f) # {}
    BY <1>7 DEF Inv, Living, Used
  <2>2. CASE f = e
    BY <1>2, <1>7, <1>11, <2>1, <2>2
  <2>3. CASE f # e
    BY <1>2, <1>7, <1>11, <2>1, <2>3
  <2>4. QED BY <2>2, <2>3
<1>19. QED BY <1>4, <1>12, <1>13, <1>14, <1>15, <1>16, <1>17, <1>18 DEF Inv, Chain

LEMMA PointerSteps ==
    ASSUME Assumed, Inv, NEW p \in Pointers,
           \/ CurrentException(p) \/ ReleasePointer(p)
           \/ \E q \in Pointers : CopyPointer(p, q)
    PROVE  Inv'
<1>0. pointers \in [Pointers -> Optional] /\ caught \in Optional
  BY DEF Inv, Typed
<1>1. CASE CurrentException(p)
  <2>1. caught # Null => Used(caught)
    BY DEF Inv, Chain, Innermosts, Used
  <2>2. QED BY <1>0, <1>1, <2>1, Assigned DEF CurrentException
<1>2. CASE ReleasePointer(p)
  <2>1. headers' = ReleaseExceptionReference(
           IF Null = Null THEN headers ELSE [headers EXCEPT ![Null].references = @ + 1],
               pointers[p])
    BY <1>2 DEF ReleasePointer
  <2>2. Null \in Optional
    BY DEF Optional
  <2>3. QED BY <1>2, <2>1, <2>2, Assigned DEF ReleasePointer
<1>3. ASSUME NEW q \in Pointers, CopyPointer(p, q) PROVE Inv'
  <2>1. Used(pointers[q]) /\ pointers[q] \in Optional /\ pointers[q] # Null
    BY <1>0, <1>3 DEF CopyPointer, Used, PointersTo
  <2>2. headers' = ReleaseExceptionReference(
           IF pointers[q] = Null THEN headers
           ELSE [headers EXCEPT ![pointers[q]].references = @ + 1], pointers[p])
    BY <1>3, <2>1 DEF CopyPointer
  <2>3. QED BY <1>3, <2>1, <2>2, Assigned DEF CopyPointer
<1>4. QED BY <1>1, <1>2, <1>3

LEMMA StutterInv == Inv /\ UNCHANGED vars => Inv'
<1> SUFFICES ASSUME Inv, UNCHANGED vars PROVE Inv'
  OBVIOUS
<1>1. /\ headers' = headers /\ caught' = caught /\ uncaught' = uncaught /\ active' = active
      /\ landing' = landing /\ resume' = resume /\ raised' = raised /\ scopes' = scopes
      /\ pointers' = pointers /\ aborted' = aborted
  BY DEF vars
<1>2. \A f : /\ HandlersOf(f)' = HandlersOf(f) /\ ArgumentsOf(f)' = ArgumentsOf(f)
              /\ PointersTo(f)' = PointersTo(f) /\ CleanupsOf(f)' = CleanupsOf(f)
  BY <1>1 DEF HandlersOf, ArgumentsOf, PointersTo, CleanupsOf
<1>3. Ahead' = Ahead
  BY <1>1 DEF Ahead, CleanupAt
<1>4. Typed'
  BY <1>1 DEF Inv, Typed
<1>5. InTheAir'
  BY <1>1, <1>2 DEF Inv, InTheAir
<1>6. Together'
  BY <1>2 DEF Inv, Together
<1>7. Chain'
  <2>1. Innermosts(caught)'
    BY <1>1, <1>2 DEF Inv, Chain, Innermosts
  <2>2. ASSUME NEW e \in Exceptions, HandlersOf(e)' # {} PROVE NextOuter(e, headers[e].next)'
    <3>1. NextOuter(e, headers[e].next)
      BY <1>2, <2>2 DEF Inv, Chain
    <3>2. QED BY <1>1, <1>2, <3>1 DEF NextOuter
  <2>3. QED BY <2>1, <2>2 DEF Chain
<1>8. Counted'
  BY <1>1, <1>2 DEF Inv, Counted
<1>9. Living'
  BY <1>1, <1>2 DEF Inv, Living, Used
<1>10. active' # Null => NotBelow(active)'
  BY <1>1, <1>2, <1>3 DEF Inv, NotBelow
<1>11. QED BY <1>4, <1>5, <1>6, <1>7, <1>8, <1>9, <1>10 DEF Inv

LEMMA NextInv == ASSUME Assumed, Inv, Next PROVE Inv'
BY EnterStep, LeaveStep, LeaveHandlerStep, RethrowStep, ThrowStep, LandInCleanupStep,
   LandInHandlerStep, LandInArgumentStep, LandInTryStep, CleanupReturnsStep,
   RethrowExceptionStep, PointerSteps DEF Next

\* What is in flight is what the runtime has for active.
LEMMA FlyingIs ==
    ASSUME Assumed, Inv, NEW e \in Exceptions
    PROVE  InFlight(e) <=> e = active
<1>1. e # Null
  BY DEF Assumed, ExceptionsConstants
<1>2. InFlight(e) <=> e = raised \/ CleanupsOf(e) # {}
  BY DEF InFlight, ScopesOf, CleanupsOf
<1>3. CleanupsOf(e) # {} => e = active
  BY DEF Inv, InTheAir, CleanupsOf
<1>4. e = raised => e = active
  BY <1>1 DEF Inv, InTheAir
<1>5. e = active => e = raised \/ CleanupsOf(e) # {}
  BY <1>1 DEF Inv, InTheAir
<1>6. QED BY <1>2, <1>3, <1>4, <1>5

LEMMA InvSafe == ASSUME Assumed, Inv PROVE ExceptionsSafe
<1>1. TypeOK
  <2>1. \A i \in DOMAIN scopes : scopes[i].kind \in Kinds /\ scopes[i].exc \in Optional
    <3> DEFINE S == [kind : Kinds, exc : Optional]
    <3>1. scopes \in Seq(S)
      BY DEF Inv, Typed
    <3> HIDE DEF S
    <3>2. \A i \in DOMAIN scopes : scopes[i] \in S
      BY <3>1
    <3>3. QED BY <3>2 DEF S
  <2>2. QED BY <2>1 DEF Inv, Typed, Headers, TypeOK
<1>2. ObjectsLiveWhileUsed
  <2>1. ASSUME NEW e \in Exceptions
        PROVE  (headers[e].state = "alive") <=> (InFlight(e) \/ Handled(e) \/ Referenced(e))
    <3>1. headers[e].state = "alive" <=> Used(e)
      BY DEF Inv, Living
    <3>2. Handled(e) <=> HandlersOf(e) # {}
      BY DEF Handled, ScopesOf, HandlersOf
    <3>3. Referenced(e) <=> PointersTo(e) # {} \/ ArgumentsOf(e) # {}
      BY DEF Referenced, ScopesOf, PointersTo, ArgumentsOf
    <3>4. QED BY <3>1, <3>2, <3>3, FlyingIs DEF Used
  <2>2. ASSUME NEW e \in {active, landing} \ {Null} PROVE headers[e].state = "alive"
    <3>1. e \in Exceptions
      BY DEF Inv, Typed, Optional
    <3>2. Used(e)
      BY DEF Inv, InTheAir, Chain, Innermosts, Used
    <3>3. QED BY <3>1, <3>2 DEF Inv, Living
  <2>3. QED BY <2>1, <2>2 DEF ObjectsLiveWhileUsed
<1>3. CurrentIsInnermost
  <2>1. caught = IF ScopesOf("handler") = {} THEN Null
                 ELSE scopes[CHOOSE i \in ScopesOf("handler") :
                                \A j \in ScopesOf("handler") : j <= i].exc
    <3>1. /\ caught \in Optional /\ Innermosts(caught)
          /\ DOMAIN scopes = 1 .. Len(scopes) /\ Len(scopes) \in Nat
      BY Domains DEF Inv, Typed, Chain
    <3>2. \A i \in ScopesOf("handler") : /\ scopes[i].exc \in Exceptions
                                        /\ i \in HandlersOf(scopes[i].exc) /\ i \in Nat
      <4>1. \A i \in DOMAIN scopes : scopes[i].kind = "handler" => scopes[i].exc # Null
        BY DEF Inv, Typed
      <4>2. \A i \in DOMAIN scopes : scopes[i].exc \in Optional
        BY <1>1 DEF TypeOK
      <4>3. QED BY <3>1, <4>1, <4>2 DEF ScopesOf, HandlersOf, Optional
    <3>3. \A f : HandlersOf(f) \subseteq ScopesOf("handler")
      BY DEF HandlersOf, ScopesOf
    <3>4. CASE caught = Null
      BY <3>1, <3>2, <3>4 DEF Innermosts
    <3>5. CASE caught # Null
      <4>1. PICK k \in HandlersOf(caught) : \A f \in Exceptions : \A j \in HandlersOf(f) :
                j <= k
        BY <3>1, <3>5 DEF Innermosts
      <4>2. k \in ScopesOf("handler") /\ \A j \in ScopesOf("handler") : j <= k
        BY <3>2, <3>3, <4>1
      <4>3. \A i \in ScopesOf("handler") : (\A j \in ScopesOf("handler") : j <= i) => i = k
        BY <3>2, <4>2
      <4>4. k = CHOOSE i \in ScopesOf("handler") : \A j \in ScopesOf("handler") : j <= i
        BY <4>2, <4>3
      <4>5. scopes[k].exc = caught
        BY <4>1 DEF HandlersOf
      <4>6. QED BY <4>2, <4>4, <4>5
    <3>6. QED BY <3>4, <3>5
  <2>2. uncaught = Cardinality({e \in Exceptions : InFlight(e)})
    <3>1. {e \in Exceptions : InFlight(e)} = {e \in Exceptions : e = active}
      BY FlyingIs
    <3>2. CASE active = Null
      <4>1. {e \in Exceptions : e = active} = {}
        BY <3>2 DEF Assumed, ExceptionsConstants
      <4>2. QED BY <3>1, <3>2, <4>1, FS_EmptySet DEF Inv, InTheAir
    <3>3. CASE active # Null
      <4>1. {e \in Exceptions : e = active} = {active}
        BY <3>3 DEF Inv, Typed, Optional
      <4>2. Cardinality({active}) = 1
        BY FS_Singleton
      <4>3. QED BY <3>1, <3>3, <4>1, <4>2 DEF Inv, InTheAir
    <3>4. QED BY <3>2, <3>3
  <2>3. QED BY <2>1, <2>2 DEF CurrentIsInnermost
<1>4. QED BY <1>1, <1>2, <1>3 DEF Inv, Typed, UnwindingGoesOn, ExceptionsSafe

\* An object lives as long as it is used, the current exception is the innermost
\* handler's, and unwinding goes on (__cxa_begin_catch, __cxa_end_catch,
\* __davecc_eh_rethrow_exception, _Unwind_Resume).
THEOREM ExceptionsAreSafe ==
    ASSUME Assumed PROVE Spec => []ExceptionsSafe
<1>1. Spec => []Inv
  BY InitInv, NextInv, StutterInv, PTL DEF Spec
<1>2. QED BY <1>1, InvSafe, PTL

-----------------------------------------------------------------------------
\* The loader.

CONSTANTS Images, Executable, Missing, Root, Loads

VARIABLES input, stack, order, done, successful, phase, cursor, calls

D == INSTANCE LoaderLifecycle WITH Main <- Executable, Inputs <- Loads

\* The loader counts with the operators of FiniteSets.
LEMMA DSets ==
    /\ \A S : D!IsFiniteSet(S) <=> IsFiniteSet(S)
    /\ \A S : D!Cardinality(S) = Cardinality(S)
BY DEF D!IsFiniteSet, D!Cardinality, IsFiniteSet, Cardinality

USE DSets

CallPhases == {"preinit", "init", "fini"}

LoaderTyped ==
    /\ input \in Loads
    /\ phase \in {"sort", "failed", "main", "shutdown", "ended"} \cup CallPhases
    /\ order \in Seq(Images) /\ successful \in Seq(Images)
    /\ calls \in Seq(CallPhases \X Images)
    /\ stack \in Seq([lib : Images \cup {Root}, next : Nat \ {0}])
    /\ done \in [CallPhases -> SUBSET Images] /\ cursor \in Nat \ {0}

\* An image is in the order once, after all it needs.
OrderExact ==
    /\ \A i, j \in 1 .. Len(order) : order[i] = order[j] => i = j
    /\ \A i \in 1 .. Len(order) : \A k \in 1 .. Len(input.needed[order[i]]) :
          \E j \in 1 .. i - 1 : order[j] = input.needed[order[i]][k]

Ordered(a) == \E i \in 1 .. Len(order) : order[i] = a
Sorted == \A a \in Images : Ordered(a)

\* The images on the way, each entered for one the visit before has come to.
StackExact == phase = "sort" =>
    /\ Len(stack) > 0 /\ stack[1].lib = Root
    /\ \A i, j \in 1 .. Len(stack) : stack[i].lib = stack[j].lib => i = j
    /\ \A i \in 1 .. Len(stack) : ~Ordered(stack[i].lib)
    /\ \A i \in 1 .. Len(stack) : \A k \in 1 .. Len(D!Dependencies(stack[i].lib)) :
          k < stack[i].next =>
             LET d == D!Dependencies(stack[i].lib)[k]
             IN  D!PassedOver(d) \/ Ordered(d) \/ (i < Len(stack) /\ d = stack[i + 1].lib)

\* Nothing runs before the sort has ended.
NothingDone == calls = << >> /\ successful = << >> /\ \A p \in CallPhases : done[p] = {}
SortFirst ==
    /\ phase = "sort" => NothingDone /\ cursor = 1
    /\ phase = "failed" => Sorted \/ NothingDone
    /\ phase \notin {"sort", "failed"} => Sorted

\* The initialized images are the first ones of the order.
InitExact ==
    /\ Len(successful) <= Len(order)
    /\ \A i \in 1 .. Len(successful) : successful[i] = order[i]
    /\ \A a \in Images : a \in done["init"] <=> \E i \in 1 .. Len(successful) : order[i] = a
    /\ phase = "preinit" => successful = << >>
    /\ phase = "init" => Len(successful) = cursor - 1
    /\ phase \in {"main", "shutdown", "fini", "ended"} => Len(successful) = Len(order)
    /\ phase \in {"main", "shutdown"} => cursor = 1

\* The finalized ones are its last ones, the executable apart, which the guest may have
\* finalized before.
FiniExact ==
    /\ phase \in {"sort", "preinit", "init", "main", "shutdown"} =>
           done["fini"] \subseteq {Executable}
    /\ phase = "fini" => cursor <= Len(order) + 1 /\ \A i \in 1 .. Len(order) :
          IF i + cursor > Len(order) + 1 THEN order[i] \in done["fini"]
          ELSE order[i] \in done["fini"] => order[i] = Executable
    /\ phase = "ended" => \A i \in 1 .. Len(order) : order[i] \in done["fini"]
    /\ \A i, j \in 1 .. Len(order) :
          i < j /\ order[i] \in done["fini"] /\ order[i] # Executable =>
              order[j] \in done["fini"]
    /\ \A a \in done["fini"] : a # Executable => a \in done["init"]

\* What has been called, once, and in which order.
IsCall(x) == \E n \in 1 .. Len(calls) : calls[n] = x
CallsExact ==
    /\ \A m, n \in 1 .. Len(calls) : calls[m] = calls[n] => m = n
    /\ \A p \in CallPhases, a \in Images :
          IsCall(<<p, a>>) <=> a \in done[p] /\ D!HasArray(p, a)
    /\ \A i, j \in 1 .. Len(order) :
          i < j /\ IsCall(<<"init", order[i]>>) /\ IsCall(<<"init", order[j]>>)
             => D!CalledBefore(<<"init", order[i]>>, <<"init", order[j]>>)
    /\ \A i, j \in 1 .. Len(order) :
          i < j /\ order[i] # Executable /\ IsCall(<<"fini", order[i]>>) /\ IsCall(<<"fini",
              order[j]>>)
             => D!CalledBefore(<<"fini", order[j]>>, <<"fini", order[i]>>)

LoaderInv ==
    /\ LoaderTyped /\ OrderExact /\ StackExact /\ SortFirst
    /\ InitExact /\ FiniExact /\ CallsExact

\* What the input and the lists are.

LEMMA LoaderInput ==
    ASSUME D!LifecycleConstants, LoaderTyped
    PROVE  /\ input.needed \in [Images -> Seq(Images \cup {Missing})]
           /\ input.search \in Seq(Images)
           /\ input.arrays \in [CallPhases -> SUBSET Images]
           /\ input.pie \in BOOLEAN
           /\ \A a \in Images : \E i \in 1 .. Len(input.search) : input.search[i] = a
           /\ ~input.pie =>
                 /\ \A a \in Images : \A i \in 1 .. Len(input.needed[a]) :
                        input.needed[a][i] # Executable
                 /\ \A i \in 1 .. Len(input.needed[Executable]) :
                        input.needed[Executable][i] # Missing
           /\ Executable \in Images /\ Missing \notin Images /\ Root \notin Images
           /\ Missing # Root
<1>1. input \in Loads /\ input \in D!InputRec  BY DEF D!LifecycleConstants, LoaderTyped
<1>2. /\ input.needed \in [Images -> Seq(Images \cup {Missing})]
      /\ input.search \in Seq(Images) /\ input.arrays \in [CallPhases -> SUBSET Images]
      /\ input.pie \in BOOLEAN
  BY <1>1 DEF D!InputRec, CallPhases
<1>3. /\ DOMAIN input.search = 1 .. Len(input.search)
      /\ \A a \in Images : DOMAIN input.needed[a] = 1 .. Len(input.needed[a])
  BY <1>2
<1>4. /\ \A a \in Images : \E i \in DOMAIN input.search : input.search[i] = a
      /\ ~input.pie =>
            /\ \A a \in Images : \A i \in DOMAIN input.needed[a] :
                   input.needed[a][i] # Executable
            /\ \A i \in DOMAIN input.needed[Executable] : input.needed[Executable][i] # Missing
      /\ Executable \in Images /\ Missing \notin Images /\ Root \notin Images /\ Missing # Root
  BY <1>1 DEF D!LifecycleConstants
<1>. QED  BY <1>2, <1>3, <1>4

LEMMA DependenciesTyped ==
    ASSUME D!LifecycleConstants, LoaderTyped, NEW lib \in Images \cup {Root}
    PROVE  /\ D!Dependencies(lib) \in Seq(Images \cup {Missing})
           /\ lib # Root => D!Dependencies(lib) = input.needed[lib]
           /\ lib = Root => D!Dependencies(lib) = input.search
<1>1. input.search \in Seq(Images) /\ input.needed \in [Images -> Seq(Images \cup {Missing})]
  BY LoaderInput
<1>2. input.search \in Seq(Images \cup {Missing})
  <2>1. Len(input.search) \in Nat /\ input.search \in [1 .. Len(input.search) -> Images]
    BY <1>1
  <2>. QED  BY <2>1, SeqDef
<1>. QED  BY <1>1, <1>2 DEF D!Dependencies

\* An image is in the range of the order if it has a place there.
LEMMA OrderRange == ASSUME LoaderTyped, NEW a PROVE a \in D!Range(order) <=> Ordered(a)
BY DEF LoaderTyped, D!Range, Ordered

LEMMA CalledIsCall ==
    ASSUME LoaderTyped, NEW p, NEW a
    PROVE  D!Called(p, a) <=> IsCall(<<p, a>>)
<1>1. DOMAIN calls = 1 .. Len(calls)  BY DEF LoaderTyped
<1>. QED  BY <1>1 DEF D!Called, IsCall, D!Range

\* A call goes to the end: it is the last of those there are.
LEMMA CallsGrow ==
    ASSUME LoaderTyped, NEW x \in CallPhases \X Images, calls' = Append(calls, x)
    PROVE  /\ calls' \in Seq(CallPhases \X Images)
           /\ \A y : IsCall(y)' <=> IsCall(y) \/ y = x
           /\ \A u, v : D!CalledBefore(u, v) => D!CalledBefore(u, v)'
           /\ \A u : IsCall(u) => D!CalledBefore(u, x)'
<1>1. calls \in Seq(CallPhases \X Images)  BY DEF LoaderTyped
<1>2. /\ calls' \in Seq(CallPhases \X Images) /\ Len(calls') = Len(calls) + 1
      /\ Len(calls) \in Nat /\ DOMAIN calls = 1 .. Len(calls)
      /\ DOMAIN calls' = 1 .. Len(calls) + 1
      /\ \A n \in 1 .. Len(calls) : calls'[n] = calls[n]
      /\ calls'[Len(calls) + 1] = x
  BY <1>1
<1>3. ASSUME NEW y PROVE IsCall(y)' <=> IsCall(y) \/ y = x
  BY <1>2 DEF IsCall
<1>4. ASSUME NEW u, NEW v, D!CalledBefore(u, v) PROVE D!CalledBefore(u, v)'
  BY <1>2, <1>4 DEF D!CalledBefore
<1>5. ASSUME NEW u, IsCall(u) PROVE D!CalledBefore(u, x)'
  <2>1. PICK n \in 1 .. Len(calls) : calls[n] = u  BY <1>5 DEF IsCall
  <2>2. /\ n \in DOMAIN calls' /\ Len(calls) + 1 \in DOMAIN calls' /\ n < Len(calls) + 1
        /\ calls'[n] = u /\ calls'[Len(calls) + 1] = x
    BY <1>2, <2>1
  <2>. QED  BY <2>2 DEF D!CalledBefore
<1>. QED  BY <1>2, <1>3, <1>4, <1>5

\* An image whose turn it is in a phase, and what it may do to the order of the calls.
LEMMA PhaseCalls ==
    ASSUME D!LifecycleConstants, LoaderInv,
           NEW p \in CallPhases, NEW a \in Images, a \notin done[p],
           calls' = IF D!HasArray(p, a) THEN Append(calls, <<p, a>>) ELSE calls,
           done' = [done EXCEPT ![p] = @ \cup {a}], order' = order, input' = input,
           p = "init" => \A i, j \in 1 .. Len(order) :
              i < j /\ order[i] = a => order[j] \notin done["init"],
           p = "fini" => \A i, j \in 1 .. Len(order) :
              i < j /\ order[j] = a /\ order[i] # Executable => order[i] \notin done["fini"]
    PROVE  CallsExact' /\ calls' \in Seq(CallPhases \X Images)
        /\ done' \in [CallPhases -> SUBSET Images]
<1>. USE DEF LoaderInv
<1>1. /\ done \in [CallPhases -> SUBSET Images] /\ order \in Seq(Images)
      /\ calls \in Seq(CallPhases \X Images)
  BY DEF LoaderTyped
<1>2. done' \in [CallPhases -> SUBSET Images] /\ done'[p] = done[p] \cup {a}
  BY <1>1
<1>3. \A q \in CallPhases : q # p => done'[q] = done[q]
  BY <1>1
<1>4. \A q, b : D!HasArray(q, b)' <=> D!HasArray(q, b)
  BY DEF D!HasArray
<1>5. ~IsCall(<<p, a>>)
  BY DEF CallsExact
<1>6. CASE ~D!HasArray(p, a)
  <2>1. calls' = calls  BY <1>6
  <2>2. \A y : IsCall(y)' <=> IsCall(y)  BY <2>1 DEF IsCall
  <2>3. \A u, v : D!CalledBefore(u, v)' <=> D!CalledBefore(u, v)  BY <2>1 DEF D!CalledBefore
  <2>4. \A q \in CallPhases, b \in Images : IsCall(<<q, b>>)' <=>
            b \in done'[q] /\ D!HasArray(q, b)'
    BY <1>2, <1>3, <1>4, <1>6, <2>2 DEF CallsExact
  <2>5. \A m, n \in 1 .. Len(calls') : calls'[m] = calls'[n] => m = n
    BY <2>1 DEF CallsExact
  <2>6. CallsExact'
    BY <2>2, <2>3, <2>4, <2>5 DEF CallsExact
  <2>. QED  BY <1>1, <1>2, <2>1, <2>6
<1>7. CASE D!HasArray(p, a)
  <2>1. calls' = Append(calls, <<p, a>>) /\ <<p, a>> \in CallPhases \X Images  BY <1>7
  <2>2. /\ calls' \in Seq(CallPhases \X Images)
        /\ \A y : IsCall(y)' <=> IsCall(y) \/ y = <<p, a>>
        /\ \A u, v : D!CalledBefore(u, v) => D!CalledBefore(u, v)'
        /\ \A u : IsCall(u) => D!CalledBefore(u, <<p, a>>)'
    BY <2>1, CallsGrow
  <2>3. \A q \in CallPhases, b \in Images : IsCall(<<q, b>>)' <=>
            b \in done'[q] /\ D!HasArray(q, b)'
    BY <1>2, <1>3, <1>4, <1>7, <2>2 DEF CallsExact
  <2>4. ASSUME NEW m \in 1 .. Len(calls'), NEW n \in 1 .. Len(calls'), calls'[m] = calls'[n]
        PROVE  m = n
    <3>1. /\ Len(calls') = Len(calls) + 1 /\ Len(calls) \in Nat
          /\ \A k \in 1 .. Len(calls) : calls'[k] = calls[k]
          /\ calls'[Len(calls) + 1] = <<p, a>>
      BY <1>1, <2>1
    <3>2. \A k \in 1 .. Len(calls) : calls[k] # <<p, a>>
      BY <1>5 DEF IsCall
    <3>3. \A k, l \in 1 .. Len(calls) : calls[k] = calls[l] => k = l
      BY DEF CallsExact
    <3>. QED  BY <2>4, <3>1, <3>2, <3>3
  <2>5. ASSUME NEW i \in 1 .. Len(order), NEW j \in 1 .. Len(order), i < j,
               IsCall(<<"init", order[i]>>)', IsCall(<<"init", order[j]>>)'
        PROVE  D!CalledBefore(<<"init", order[i]>>, <<"init", order[j]>>)'
    <3>1. order[i] \in Images /\ order[j] \in Images  BY <1>1
    <3>2. CASE IsCall(<<"init", order[i]>>) /\ IsCall(<<"init", order[j]>>)
      BY <2>2, <2>5, <3>2 DEF CallsExact
    <3>3. CASE ~IsCall(<<"init", order[i]>>)
      <4>1. p = "init" /\ order[i] = a  BY <2>2, <2>5, <3>3
      <4>2. order[j] \notin done["init"]  BY <2>5, <4>1
      <4>3. ~IsCall(<<"init", order[j]>>)  BY <3>1, <4>2 DEF CallsExact, CallPhases
      <4>4. order[j] = a  BY <2>2, <2>5, <4>3
      <4>5. i = j  BY <4>1, <4>4 DEF OrderExact
      <4>. QED  BY <2>5, <4>5, <1>1
    <3>4. CASE IsCall(<<"init", order[i]>>) /\ ~IsCall(<<"init", order[j]>>)
      <4>1. <<"init", order[j]>> = <<p, a>>  BY <2>2, <2>5, <3>4
      <4>. QED  BY <2>2, <3>4, <4>1
    <3>. QED  BY <3>2, <3>3, <3>4
  <2>6. ASSUME NEW i \in 1 .. Len(order), NEW j \in 1 .. Len(order), i < j,
            order[i] # Executable,
               IsCall(<<"fini", order[i]>>)', IsCall(<<"fini", order[j]>>)'
        PROVE  D!CalledBefore(<<"fini", order[j]>>, <<"fini", order[i]>>)'
    <3>1. order[i] \in Images /\ order[j] \in Images  BY <1>1
    <3>2. CASE IsCall(<<"fini", order[i]>>) /\ IsCall(<<"fini", order[j]>>)
      BY <2>2, <2>6, <3>2 DEF CallsExact
    <3>3. CASE ~IsCall(<<"fini", order[j]>>)
      <4>1. p = "fini" /\ order[j] = a  BY <2>2, <2>6, <3>3
      <4>2. order[i] \notin done["fini"]  BY <2>6, <4>1
      <4>3. ~IsCall(<<"fini", order[i]>>)  BY <3>1, <4>2 DEF CallsExact, CallPhases
      <4>4. order[i] = a  BY <2>2, <2>6, <4>3
      <4>5. i = j  BY <4>1, <4>4 DEF OrderExact
      <4>. QED  BY <2>6, <4>5, <1>1
    <3>4. CASE IsCall(<<"fini", order[j]>>) /\ ~IsCall(<<"fini", order[i]>>)
      <4>1. <<"fini", order[i]>> = <<p, a>>  BY <2>2, <2>6, <3>4
      <4>. QED  BY <2>2, <3>4, <4>1
    <3>. QED  BY <3>2, <3>3, <3>4
  <2>7. CallsExact'
    BY <2>3, <2>4, <2>5, <2>6 DEF CallsExact
  <2>. QED  BY <1>2, <2>2, <2>7
<1>. QED  BY <1>6, <1>7

\* The sort.

Visit == [lib : Images \cup {Root}, next : Nat \ {0}]

\* What the step of the sort sees: the visit on top.
LEMMA SortTop ==
    ASSUME D!LifecycleConstants, LoaderInv, phase = "sort"
    PROVE  /\ stack \in Seq(Visit) /\ Len(stack) \in Nat \ {0}
           /\ D!Last(stack) = stack[Len(stack)] /\ stack[Len(stack)] \in Visit
           /\ D!Dependencies(D!Last(stack).lib) \in Seq(Images \cup {Missing})
<1>1. stack \in Seq(Visit)  BY DEF LoaderInv, LoaderTyped, Visit
<1>2. Len(stack) \in Nat \ {0}  BY <1>1 DEF LoaderInv, StackExact
<1>3. D!Last(stack) = stack[Len(stack)]  BY DEF D!Last
<1>4. stack[Len(stack)] \in Visit  BY <1>1, <1>2
<1>5. D!Last(stack).lib \in Images \cup {Root}  BY <1>3, <1>4 DEF Visit
<1>. QED  BY <1>1, <1>2, <1>3, <1>4, <1>5, DependenciesTyped DEF LoaderInv

LEMMA AdvanceTop ==
    ASSUME stack \in Seq(Visit), Len(stack) \in Nat \ {0}
    PROVE  /\ D!Advance(stack) \in Seq(Visit) /\ Len(D!Advance(stack)) = Len(stack)
           /\ \A i \in 1 .. Len(stack) :
                 /\ D!Advance(stack)[i].lib = stack[i].lib
                 /\ i < Len(stack) => D!Advance(stack)[i].next = stack[i].next
           /\ D!Advance(stack)[Len(stack)].next = stack[Len(stack)].next + 1
<1>1. /\ \A i \in 1 .. Len(stack) : stack[i] \in Visit
      /\ DOMAIN stack = 1 .. Len(stack) /\ stack \in [1 .. Len(stack) -> Visit]
  <2>. QED  OBVIOUS
<1>. DEFINE top == stack[Len(stack)]
            next == [lib |-> top.lib, next |-> top.next + 1]
<1>2. top \in Visit /\ next \in Visit
  BY <1>1 DEF Visit
<1>3. D!Advance(stack) = [stack EXCEPT ![Len(stack)] = next]
  <2>1. [top EXCEPT !.next = top.next + 1] = next
    BY <1>2 DEF Visit
  <2>2. D!Advance(stack) = [stack EXCEPT ![Len(stack)] = [top EXCEPT !.next = top.next + 1]]
    BY DEF D!Advance
  <2>. QED  BY <2>1, <2>2
<1>4. next.lib = top.lib /\ next.next = top.next + 1
  OBVIOUS
<1>. HIDE DEF next
<1>5. D!Advance(stack) \in Seq(Visit) /\ Len(D!Advance(stack)) = Len(stack)
  BY <1>1, <1>2, <1>3
<1>6. \A i \in 1 .. Len(stack) : D!Advance(stack)[i] = IF i = Len(stack) THEN next ELSE stack[i]
  BY <1>1, <1>3
<1>. QED  BY <1>4, <1>5, <1>6

\* The sort leaves everything else alone.
SortFrame == phase = "sort" /\ UNCHANGED <<input, done, successful, cursor, calls>>

LEMMA SortRest ==
    ASSUME D!LifecycleConstants, LoaderInv, SortFrame, order' = order,
           phase' = "sort" \/ phase' = "failed"
    PROVE  /\ OrderExact' /\ SortFirst' /\ InitExact' /\ FiniExact' /\ CallsExact'
           /\ \A lib : D!Dependencies(lib)' = D!Dependencies(lib)
                  /\ D!PassedOver(lib)' = D!PassedOver(lib)
           /\ \A a : Ordered(a)' = Ordered(a)
<1>. USE DEF LoaderInv, SortFrame
<1>1. NothingDone /\ NothingDone' /\ cursor = 1
  BY DEF SortFirst, NothingDone
<1>2. OrderExact'  BY DEF OrderExact
<1>3. SortFirst'  BY <1>1 DEF SortFirst
<1>4. InitExact'  BY <1>1 DEF InitExact
<1>5. FiniExact'  BY <1>1 DEF FiniExact, NothingDone
<1>6. CallsExact'
  <2>1. /\ \A x : IsCall(x)' = IsCall(x)
        /\ \A u, v : D!CalledBefore(u, v)' = D!CalledBefore(u, v)
        /\ \A p, a : D!HasArray(p, a)' = D!HasArray(p, a)
    BY DEF IsCall, D!CalledBefore, D!HasArray
  <2>. QED  BY <2>1 DEF CallsExact
<1>7. \A lib : D!Dependencies(lib)' = D!Dependencies(lib)
          /\ D!PassedOver(lib)' = D!PassedOver(lib)
  BY DEF D!Dependencies, D!PassedOver
<1>8. \A a : Ordered(a)' = Ordered(a)  BY DEF Ordered
<1>. QED  BY <1>2, <1>3, <1>4, <1>5, <1>6, <1>7, <1>8

LEMMA LoaderEnterStep ==
    ASSUME D!LifecycleConstants, LoaderInv, SortFrame,
           NEW top, top = D!Last(stack), top.next <= Len(D!Dependencies(top.lib)),
           D!Enter(D!Dependencies(top.lib)[top.next])
    PROVE  LoaderInv'
<1>. DEFINE d == D!Dependencies(top.lib)[top.next]
<1>1. /\ stack \in Seq(Visit) /\ Len(stack) \in Nat \ {0}
      /\ top = stack[Len(stack)] /\ top \in Visit
      /\ D!Dependencies(top.lib) \in Seq(Images \cup {Missing})
  BY SortTop DEF SortFrame
<1>2. d \in Images \cup {Missing}
  BY <1>1 DEF Visit
<1>3. Missing \notin Images /\ Root \notin Images /\ Missing # Root /\ Executable \in Images
  BY LoaderInput DEF LoaderInv
<1>4. order' = order /\ (phase' = "sort" \/ phase' = "failed")
  BY DEF D!Enter, SortFrame
<1>5. /\ OrderExact' /\ SortFirst' /\ InitExact' /\ FiniExact' /\ CallsExact'
      /\ \A lib : D!Dependencies(lib)' = D!Dependencies(lib)
             /\ D!PassedOver(lib)' = D!PassedOver(lib)
      /\ \A a : Ordered(a)' = Ordered(a)
  BY <1>4, SortRest
<1>6. CASE phase' = "failed"
  <2>1. stack' = stack  BY <1>6 DEF D!Enter, SortFrame
  <2>2. LoaderTyped'  BY <1>4, <1>6, <2>1 DEF LoaderTyped, LoaderInv, SortFrame
  <2>3. StackExact'  BY <1>6 DEF StackExact
  <2>. QED  BY <1>5, <2>2, <2>3 DEF LoaderInv
<1>7. CASE phase' # "failed"
  <2>1. /\ phase' = "sort" /\ (D!PassedOver(d) \/ d \notin D!Visiting \cup {Missing})
        /\ stack' = IF D!PassedOver(d) \/ d \in D!Range(order) THEN D!Advance(stack)
                    ELSE Append(D!Advance(stack), [lib |-> d, next |-> 1])
    BY <1>7 DEF D!Enter, SortFrame
  <2>2. d \in D!Range(order) <=> Ordered(d)  BY OrderRange DEF LoaderInv
  <2>3. /\ D!Advance(stack) \in Seq(Visit) /\ Len(D!Advance(stack)) = Len(stack)
        /\ \A i \in 1 .. Len(stack) :
              /\ D!Advance(stack)[i].lib = stack[i].lib
              /\ i < Len(stack) => D!Advance(stack)[i].next = stack[i].next
        /\ D!Advance(stack)[Len(stack)].next = stack[Len(stack)].next + 1
    BY <1>1, AdvanceTop
  <2>4. /\ stack[1].lib = Root
        /\ \A i, j \in 1 .. Len(stack) : stack[i].lib = stack[j].lib => i = j
        /\ \A i \in 1 .. Len(stack) : ~Ordered(stack[i].lib)
        /\ \A i \in 1 .. Len(stack) : \A k \in 1 .. Len(D!Dependencies(stack[i].lib)) :
              k < stack[i].next =>
                 \/ D!PassedOver(D!Dependencies(stack[i].lib)[k])
                 \/ Ordered(D!Dependencies(stack[i].lib)[k])
                 \/ i < Len(stack) /\ D!Dependencies(stack[i].lib)[k] = stack[i + 1].lib
    BY DEF LoaderInv, StackExact, SortFrame
  <2>5. CASE D!PassedOver(d) \/ Ordered(d)
    <3>1. stack' = D!Advance(stack)  BY <2>1, <2>2, <2>5
    <3>2. LoaderTyped'  BY <1>4, <2>1, <2>3, <3>1 DEF LoaderTyped, LoaderInv, SortFrame, Visit
    <3>3. ASSUME NEW i \in 1 .. Len(stack'), NEW k \in 1 .. Len(D!Dependencies(stack'[i].lib)),
                 k < stack'[i].next
          PROVE  \/ D!PassedOver(D!Dependencies(stack'[i].lib)[k])
                 \/ Ordered(D!Dependencies(stack'[i].lib)[k])
                 \/ i < Len(stack') /\ D!Dependencies(stack'[i].lib)[k] = stack'[i + 1].lib
      <4>1. stack'[i].lib = stack[i].lib /\ i \in 1 .. Len(stack) /\ Len(stack') = Len(stack)
        BY <2>3, <3>1
      <4>2. k \in 1 .. Len(D!Dependencies(stack[i].lib))
        BY <1>5, <3>3, <4>1
      <4>3. CASE k < stack[i].next
        <5>1. i < Len(stack) => stack'[i + 1].lib = stack[i + 1].lib
          BY <2>3, <3>1, <1>1
        <5>. QED  BY <2>4, <4>1, <4>2, <4>3, <5>1
      <4>4. CASE ~(k < stack[i].next)
        <5>1. i = Len(stack) /\ k = stack[i].next
          <6>1. k \in Nat /\ stack[i].next \in Nat
            <7>1. stack[i] \in Visit  BY <1>1, <4>1
            <7>2. D!Dependencies(stack[i].lib) \in Seq(Images \cup {Missing})
              BY <7>1, DependenciesTyped DEF LoaderInv, Visit
            <7>. QED  BY <4>2, <7>1, <7>2 DEF Visit
          <6>2. stack'[i].next = D!Advance(stack)[i].next  BY <3>1, <4>1
          <6>3. i = Len(stack)  BY <1>1, <2>3, <3>3, <4>1, <4>4, <6>2
          <6>. QED  BY <2>3, <3>3, <4>4, <6>1, <6>2, <6>3
        <5>2. D!Dependencies(stack'[i].lib)[k] = d  BY <1>1, <4>1, <5>1
        <5>. QED  BY <2>5, <5>2
      <4>. QED  BY <4>3, <4>4
    <3>4. /\ Len(stack') > 0 /\ stack'[1].lib = Root
          /\ \A i, j \in 1 .. Len(stack') : stack'[i].lib = stack'[j].lib => i = j
          /\ \A i \in 1 .. Len(stack') : ~Ordered(stack'[i].lib)
      <4>1. /\ Len(stack') = Len(stack) /\ Len(stack) > 0 /\ 1 \in 1 .. Len(stack)
            /\ \A i \in 1 .. Len(stack) : stack'[i].lib = stack[i].lib
        BY <1>1, <2>3, <3>1
      <4>. QED  BY <2>4, <4>1
    <3>5. StackExact'
      BY <1>5, <3>3, <3>4 DEF StackExact
    <3>. QED  BY <1>5, <3>2, <3>5 DEF LoaderInv
  <2>6. CASE ~(D!PassedOver(d) \/ Ordered(d))
    <3>. DEFINE new == [lib |-> d, next |-> 1]
    <3>1. stack' = Append(D!Advance(stack), new)  BY <2>1, <2>2, <2>6
    <3>2. d \in Images /\ d \notin D!Visiting  BY <1>2, <2>1, <2>6
    <3>3. new \in Visit  BY <3>2 DEF Visit
    <3>4. /\ stack' \in Seq(Visit) /\ Len(stack') = Len(stack) + 1
          /\ \A i \in 1 .. Len(stack) : stack'[i] = D!Advance(stack)[i]
          /\ stack'[Len(stack) + 1] = new
      BY <2>3, <3>1, <3>3, <1>1
    <3>5. LoaderTyped'  BY <1>4, <2>1, <3>4 DEF LoaderTyped, LoaderInv, SortFrame, Visit
    <3>6. \A i \in 1 .. Len(stack) : stack[i].lib # d
      <4>1. DOMAIN stack = 1 .. Len(stack)  BY <1>1
      <4>. QED  BY <3>2, <4>1 DEF D!Visiting
    <3>7. /\ \A i \in 1 .. Len(stack) : stack'[i].lib = stack[i].lib
          /\ stack'[Len(stack) + 1].lib = d /\ stack'[Len(stack) + 1].next = 1
      <4>1. new.lib = d /\ new.next = 1  OBVIOUS
      <4>. HIDE DEF new, d
      <4>2. \A i \in 1 .. Len(stack) : stack'[i].lib = stack[i].lib  BY <2>3, <3>4
      <4>. QED  BY <3>4, <4>1, <4>2
    <3>8. ASSUME NEW i \in 1 .. Len(stack'), NEW k \in 1 .. Len(D!Dependencies(stack'[i].lib)),
                 k < stack'[i].next
          PROVE  \/ D!PassedOver(D!Dependencies(stack'[i].lib)[k])
                 \/ Ordered(D!Dependencies(stack'[i].lib)[k])
                 \/ i < Len(stack') /\ D!Dependencies(stack'[i].lib)[k] = stack'[i + 1].lib
      <4>1. i \in 1 .. Len(stack)
        BY <1>1, <3>4, <3>7, <3>8
      <4>2. stack'[i].lib = stack[i].lib /\ i < Len(stack')
        BY <1>1, <3>4, <3>7, <4>1
      <4>3. k \in 1 .. Len(D!Dependencies(stack[i].lib))
        BY <1>5, <3>8, <4>2
      <4>4. CASE k < stack[i].next
        <5>1. i < Len(stack) => stack'[i + 1].lib = stack[i + 1].lib
          BY <3>7, <1>1, <4>1
        <5>. QED  BY <2>4, <4>1, <4>2, <4>3, <4>4, <5>1
      <4>5. CASE ~(k < stack[i].next)
        <5>1. i = Len(stack) /\ k = stack[i].next
          <6>1. k \in Nat /\ stack[i].next \in Nat
            <7>1. stack[i] \in Visit  BY <1>1, <4>1
            <7>2. D!Dependencies(stack[i].lib) \in Seq(Images \cup {Missing})
              BY <7>1, DependenciesTyped DEF LoaderInv, Visit
            <7>. QED  BY <4>1, <4>2, <4>3, <7>1, <7>2 DEF Visit
          <6>2. stack'[i].next = D!Advance(stack)[i].next  BY <3>4, <4>1
          <6>3. i # Len(stack) => stack'[i].next = stack[i].next  BY <2>3, <4>1, <6>2
          <6>4. i = Len(stack)  BY <3>8, <4>5, <6>3
          <6>. QED  BY <2>3, <3>8, <4>5, <6>1, <6>2, <6>4
        <5>2. D!Dependencies(stack'[i].lib)[k] = d  BY <1>1, <4>2, <5>1
        <5>. QED  BY <3>7, <4>2, <5>1, <5>2
      <4>. QED  BY <4>4, <4>5
    <3>9. /\ Len(stack') > 0 /\ stack'[1].lib = Root
          /\ \A i, j \in 1 .. Len(stack') : stack'[i].lib = stack'[j].lib => i = j
          /\ \A i \in 1 .. Len(stack') : ~Ordered(stack'[i].lib)
      <4>1. Len(stack') > 0 /\ stack'[1].lib = Root
        BY <1>1, <2>4, <3>4, <3>7
      <4>2. \A i \in 1 .. Len(stack') :
                stack'[i].lib = IF i = Len(stack) + 1 THEN d ELSE stack[i].lib
        <5>1. Len(stack) \in Nat /\ Len(stack') = Len(stack) + 1  BY <1>1, <3>4
        <5>. HIDE DEF d, new
        <5>2. ASSUME NEW i \in 1 .. Len(stack'), i # Len(stack) + 1 PROVE i \in 1 .. Len(stack)
          BY <5>1, <5>2
        <5>. QED  BY <3>7, <5>2
      <4>. HIDE DEF d
      <4>3. \A i, j \in 1 .. Len(stack') : stack'[i].lib = stack'[j].lib => i = j
        <5>1. Len(stack) \in Nat /\ Len(stack') = Len(stack) + 1  BY <1>1, <3>4
        <5>. DEFINE n == Len(stack)
        <5>2. \A i \in 1 .. n + 1 : stack'[i].lib = IF i = n + 1 THEN d ELSE stack[i].lib
          BY <4>2, <5>1
        <5>3. /\ \A i \in 1 .. n : stack[i].lib # d
              /\ \A i, j \in 1 .. n : stack[i].lib = stack[j].lib => i = j
          BY <2>4, <3>6
        <5>. HIDE DEF n
        <5>4. SUFFICES ASSUME NEW i \in 1 .. n + 1, NEW j \in 1 .. n + 1,
                              stack'[i].lib = stack'[j].lib
                       PROVE  i = j
          BY <5>1 DEF n
        <5>5. n \in Nat  BY <5>1 DEF n
        <5>6. CASE i = n + 1
          BY <5>2, <5>3, <5>4, <5>5, <5>6
        <5>7. CASE i # n + 1
          BY <5>2, <5>3, <5>4, <5>5, <5>7
        <5>. QED  BY <5>6, <5>7
      <4>4. \A i \in 1 .. Len(stack') : ~Ordered(stack'[i].lib)
        BY <1>1, <2>4, <2>6, <3>4, <4>2
      <4>. QED  BY <4>1, <4>3, <4>4
    <3>10. StackExact'
      BY <1>5, <3>8, <3>9 DEF StackExact
    <3>. QED  BY <1>5, <3>5, <3>10 DEF LoaderInv
  <2>. QED  BY <2>5, <2>6
<1>. QED  BY <1>6, <1>7

LEMMA LoaderLeaveStep ==
    ASSUME D!LifecycleConstants, LoaderInv, SortFrame,
           NEW top, top = D!Last(stack), ~(top.next <= Len(D!Dependencies(top.lib))),
           top.lib # Root, D!Leave(top.lib)
    PROVE  LoaderInv'
<1>1. /\ stack \in Seq(Visit) /\ Len(stack) \in Nat \ {0}
      /\ top = stack[Len(stack)] /\ top \in Visit
      /\ D!Dependencies(top.lib) \in Seq(Images \cup {Missing})
  BY SortTop DEF SortFrame
<1>2. top.lib \in Images  BY <1>1 DEF Visit
<1>3. /\ order' = Append(order, top.lib) /\ stack' = D!Front(stack) /\ phase' = "sort"
      /\ order \in Seq(Images)
  BY DEF D!Leave, SortFrame, LoaderInv, LoaderTyped
<1>4. /\ order' \in Seq(Images) /\ Len(order) \in Nat /\ Len(order') = Len(order) + 1
      /\ \A i \in 1 .. Len(order) : order'[i] = order[i]
      /\ order'[Len(order) + 1] = top.lib
  BY <1>2, <1>3
<1>5. /\ stack[1].lib = Root
      /\ \A i, j \in 1 .. Len(stack) : stack[i].lib = stack[j].lib => i = j
      /\ \A i \in 1 .. Len(stack) : ~Ordered(stack[i].lib)
      /\ \A i \in 1 .. Len(stack) : \A k \in 1 .. Len(D!Dependencies(stack[i].lib)) :
            k < stack[i].next =>
               \/ D!PassedOver(D!Dependencies(stack[i].lib)[k])
               \/ Ordered(D!Dependencies(stack[i].lib)[k])
               \/ i < Len(stack) /\ D!Dependencies(stack[i].lib)[k] = stack[i + 1].lib
  BY DEF LoaderInv, StackExact, SortFrame
<1>6. /\ stack' \in Seq(Visit) /\ Len(stack') = Len(stack) - 1 /\ Len(stack) > 1
      /\ \A i \in 1 .. Len(stack) - 1 : stack'[i] = stack[i]
  <2>1. Len(stack) # 1  BY <1>1, <1>5
  <2>2. Len(stack) - 1 \in Nat \ {0} /\ stack' = SubSeq(stack, 1, Len(stack) - 1)
    BY <1>1, <1>3, <2>1 DEF D!Front
  <2>. DEFINE n == Len(stack) - 1
  <2>3. n \in Nat \ {0} /\ stack' = SubSeq(stack, 1, n)  BY <2>2
  <2>4. \A i \in 1 .. n : stack[i] \in Visit  BY <1>1
  <2>. HIDE DEF n
  <2>5. n - 1 + 1 = n /\ n \in Int /\ 1 <= n /\ \A i \in 1 .. n : 1 + i - 1 = i  BY <2>3
  <2>6. stack' \in Seq(Visit) /\ Len(stack') = n /\ \A i \in 1 .. n : stack'[i] = stack[i]
    BY <2>3, <2>4, <2>5, SubSeqProperties
  <2>. QED  BY <1>1, <2>2, <2>6 DEF n
<1>7. \A a : Ordered(a)' <=> Ordered(a) \/ a = top.lib
  BY <1>4 DEF Ordered
<1>8. NothingDone /\ NothingDone' /\ cursor = 1 /\ cursor' = 1
  BY DEF SortFirst, NothingDone, LoaderInv, SortFrame
<1>9. LoaderTyped'
  BY <1>3, <1>4, <1>6 DEF LoaderTyped, LoaderInv, SortFrame, Visit
<1>10. OrderExact'
  <2>1. ASSUME NEW k \in 1 .. Len(input.needed[top.lib])
        PROVE  \E j \in 1 .. Len(order) : order[j] = input.needed[top.lib][k]
    <3>1. /\ D!Dependencies(top.lib) = input.needed[top.lib]
          /\ ~input.pie => input.needed[top.lib][k] # Executable
      BY <1>2, LoaderInput, DependenciesTyped DEF LoaderInv
    <3>2. k < top.next
      BY <1>1, <3>1 DEF Visit
    <3>3. \/ D!PassedOver(input.needed[top.lib][k])
          \/ Ordered(input.needed[top.lib][k])
      BY <1>1, <1>5, <3>1, <3>2
    <3>. QED  BY <3>1, <3>3 DEF D!PassedOver, Ordered
  <2>2. \A i \in 1 .. Len(order) : order[i] # top.lib
    BY <1>1, <1>5 DEF Ordered
  <2>3. \A i, j \in 1 .. Len(order') : order'[i] = order'[j] => i = j
    BY <1>4, <2>2 DEF OrderExact, LoaderInv
  <2>4. ASSUME NEW i \in 1 .. Len(order'), NEW k \in 1 .. Len(input.needed[order'[i]])
        PROVE  \E j \in 1 .. i - 1 : order'[j] = input.needed[order'[i]][k]
    <3>1. CASE i \in 1 .. Len(order)
      <4>1. order'[i] = order[i]  BY <1>4, <3>1
      <4>2. PICK j \in 1 .. i - 1 : order[j] = input.needed[order[i]][k]
        BY <2>4, <3>1, <4>1 DEF OrderExact, LoaderInv
      <4>3. order'[j] = order[j]  BY <1>4, <3>1, <4>2
      <4>. QED  BY <4>1, <4>2, <4>3
    <3>2. CASE i \notin 1 .. Len(order)
      <4>1. i = Len(order) + 1 /\ order'[i] = top.lib  BY <1>4, <3>2
      <4>2. PICK j \in 1 .. Len(order) : order[j] = input.needed[top.lib][k]
        BY <2>1, <2>4, <4>1
      <4>3. j \in 1 .. i - 1 /\ order'[j] = order[j]  BY <1>4, <4>1, <4>2
      <4>. QED  BY <4>1, <4>2, <4>3
    <3>. QED  BY <3>1, <3>2
  <2>5. input' = input  BY DEF SortFrame
  <2>. QED  BY <2>3, <2>4, <2>5 DEF OrderExact
<1>11. StackExact'
  <2>1. \A lib : D!Dependencies(lib)' = D!Dependencies(lib)
            /\ D!PassedOver(lib)' = D!PassedOver(lib)
    BY DEF D!Dependencies, D!PassedOver, SortFrame
  <2>. DEFINE now(x) == \E m \in 1 .. Len(order') : order'[m] = x
  <2>6. \A x : Ordered(x) \/ x = top.lib => now(x)
    BY <1>4 DEF Ordered
  <2>2. ASSUME NEW i \in 1 .. Len(stack'), NEW k \in 1 .. Len(D!Dependencies(stack'[i].lib)),
               k < stack'[i].next
        PROVE  \/ D!PassedOver(D!Dependencies(stack'[i].lib)[k])
               \/ now(D!Dependencies(stack'[i].lib)[k])
               \/ i < Len(stack') /\ D!Dependencies(stack'[i].lib)[k] = stack'[i + 1].lib
    <3>. DEFINE e == D!Dependencies(stack[i].lib)[k]
    <3>. HIDE DEF now
    <3>1. stack'[i] = stack[i] /\ i \in 1 .. Len(stack) /\ i < Len(stack)  BY <1>1, <1>6
    <3>2. D!PassedOver(e) \/ Ordered(e) \/ e = stack[i + 1].lib
      BY <1>5, <2>2, <3>1
    <3>3. i + 1 = Len(stack) \/ (i < Len(stack') /\ stack'[i + 1] = stack[i + 1])
      <4>1. CASE i + 1 = Len(stack)  BY <4>1
      <4>2. CASE i + 1 # Len(stack)
        <5>1. i + 1 \in 1 .. Len(stack) - 1 /\ i < Len(stack')  BY <1>1, <1>6, <3>1, <4>2
        <5>. QED  BY <1>6, <5>1
      <4>. QED  BY <4>1, <4>2
    <3>4. e = D!Dependencies(stack'[i].lib)[k]  BY <3>1
    <3>. HIDE DEF e
    <3>. QED  BY <1>1, <2>6, <3>2, <3>3, <3>4
  <2>3. /\ Len(stack') > 0 /\ stack'[1].lib = Root
        /\ \A i, j \in 1 .. Len(stack') : stack'[i].lib = stack'[j].lib => i = j
    BY <1>1, <1>5, <1>6
  <2>4. \A i \in 1 .. Len(stack') : stack'[i].lib # top.lib /\ ~Ordered(stack'[i].lib)
    BY <1>1, <1>5, <1>6
  <2>5. \A i \in 1 .. Len(stack') : \A m \in 1 .. Len(order') : order'[m] # stack'[i].lib
    BY <1>4, <2>4 DEF Ordered
  <2>. QED  BY <2>1, <2>2, <2>3, <2>5 DEF StackExact, Ordered
<1>12. SortFirst'  BY <1>3, <1>8 DEF SortFirst
<1>13. InitExact'  BY <1>3, <1>4, <1>8 DEF InitExact, NothingDone, CallPhases
<1>14. FiniExact'  BY <1>3, <1>8 DEF FiniExact, NothingDone, CallPhases
<1>15. CallsExact'
  <2>1. \A x : ~IsCall(x)'  BY <1>8 DEF IsCall, NothingDone
  <2>. QED  BY <1>8, <2>1 DEF CallsExact, NothingDone
<1>. QED  BY <1>9, <1>10, <1>11, <1>12, <1>13, <1>14, <1>15 DEF LoaderInv

LEMMA EndSortStep ==
    ASSUME D!LifecycleConstants, LoaderInv, SortFrame,
           NEW top, top = D!Last(stack), ~(top.next <= Len(D!Dependencies(top.lib))),
           top.lib = Root, D!EndSort
    PROVE  LoaderInv'
<1>1. /\ stack \in Seq(Visit) /\ Len(stack) \in Nat \ {0}
      /\ top = stack[Len(stack)] /\ top \in Visit
      /\ D!Dependencies(top.lib) \in Seq(Images \cup {Missing})
  BY SortTop DEF SortFrame
<1>2. order \in Seq(Images) /\ phase' = "preinit" /\ stack' = stack
  BY DEF D!EndSort, LoaderInv, LoaderTyped
<1>3. /\ D!Dependencies(Root) = input.search /\ input.search \in Seq(Images)
      /\ \A a \in Images : \E i \in 1 .. Len(input.search) : input.search[i] = a
      /\ Executable \in Images
  BY LoaderInput DEF LoaderInv, D!Dependencies
<1>4. \A a \in Images : D!PassedOver(a) \/ Ordered(a)
  <2>. SUFFICES ASSUME NEW a \in Images PROVE D!PassedOver(a) \/ Ordered(a)
    OBVIOUS
  <2>1. PICK i \in 1 .. Len(input.search) : input.search[i] = a  BY <1>3
  <2>2. i \in 1 .. Len(D!Dependencies(top.lib)) /\ i < stack[Len(stack)].next
        /\ D!Dependencies(top.lib)[i] = a
    <3>1. D!Dependencies(top.lib) = input.search  BY <1>3
    <3>2. Len(input.search) \in Nat  BY <1>3
    <3>3. top.next \in Nat  BY <1>1 DEF Visit
    <3>. QED  BY <1>1, <2>1, <3>1, <3>2, <3>3
  <2>. QED  BY <1>1, <2>2 DEF LoaderInv, StackExact, SortFrame
<1>5. Executable \in D!Range(order) <=> Ordered(Executable)  BY OrderRange DEF LoaderInv
<1>6. NothingDone /\ NothingDone' /\ cursor = 1 /\ cursor' = 1
  BY DEF SortFirst, NothingDone, LoaderInv, SortFrame
<1>7. /\ order' \in Seq(Images) /\ OrderExact'
      /\ \A a \in Images : \E i \in 1 .. Len(order') : order'[i] = a
  <2>1. CASE Ordered(Executable)
    <3>1. order' = order /\ input' = input  BY <1>5, <2>1 DEF D!EndSort, SortFrame
    <3>2. OrderExact'  BY <3>1 DEF OrderExact, LoaderInv
    <3>. QED  BY <1>2, <1>4, <2>1, <3>1, <3>2 DEF Ordered, D!PassedOver
  <2>2. CASE ~Ordered(Executable)
    <3>1. order' = Append(order, Executable) /\ input' = input  BY <1>5, <2>2 DEF D!EndSort,
              SortFrame
    <3>2. /\ order' \in Seq(Images) /\ Len(order) \in Nat /\ Len(order') = Len(order) + 1
          /\ \A i \in 1 .. Len(order) : order'[i] = order[i]
          /\ order'[Len(order) + 1] = Executable
      BY <1>2, <1>3, <3>1
    <3>3. ASSUME NEW k \in 1 .. Len(input.needed[Executable])
          PROVE  \E j \in 1 .. Len(order) : order[j] = input.needed[Executable][k]
      <4>1. ~input.pie  BY <1>3, <1>4, <2>2 DEF D!PassedOver
      <4>2. /\ input.needed[Executable] \in Seq(Images \cup {Missing})
            /\ input.needed[Executable][k] # Executable /\ input.needed[Executable][k] # Missing
        BY <1>3, <4>1, LoaderInput DEF LoaderInv
      <4>3. input.needed[Executable][k] \in Images  BY <4>2
      <4>. QED  BY <1>4, <4>2, <4>3 DEF D!PassedOver, Ordered
    <3>4. \A i \in 1 .. Len(order) : order[i] # Executable  BY <2>2 DEF Ordered
    <3>5. \A i, j \in 1 .. Len(order') : order'[i] = order'[j] => i = j
      BY <3>2, <3>4 DEF OrderExact, LoaderInv
    <3>6. ASSUME NEW i \in 1 .. Len(order'), NEW k \in 1 .. Len(input.needed[order'[i]])
          PROVE  \E j \in 1 .. i - 1 : order'[j] = input.needed[order'[i]][k]
      <4>1. CASE i \in 1 .. Len(order)
        <5>1. order'[i] = order[i]  BY <3>2, <4>1
        <5>2. PICK j \in 1 .. i - 1 : order[j] = input.needed[order[i]][k]
          BY <3>6, <4>1, <5>1 DEF OrderExact, LoaderInv
        <5>3. order'[j] = order[j]  BY <3>2, <4>1, <5>2
        <5>. QED  BY <5>1, <5>2, <5>3
      <4>2. CASE i \notin 1 .. Len(order)
        <5>1. i = Len(order) + 1 /\ order'[i] = Executable  BY <3>2, <4>2
        <5>2. PICK j \in 1 .. Len(order) : order[j] = input.needed[Executable][k]
          BY <3>3, <3>6, <5>1
        <5>3. j \in 1 .. i - 1 /\ order'[j] = order[j]  BY <3>2, <5>1, <5>2
        <5>. QED  BY <5>1, <5>2, <5>3
      <4>. QED  BY <4>1, <4>2
    <3>7. OrderExact'
      <4>1. \A i \in 1 .. Len(order') : \A k \in 1 .. Len(input'.needed[order'[i]]) :
                \E j \in 1 .. i - 1 : order'[j] = input'.needed[order'[i]][k]
        BY <3>1, <3>6
      <4>. QED  BY <3>5, <4>1 DEF OrderExact
    <3>8. ASSUME NEW a \in Images PROVE \E i \in 1 .. Len(order') : order'[i] = a
      <4>1. CASE a = Executable  BY <3>2, <4>1
      <4>2. CASE a # Executable
        <5>1. PICK i \in 1 .. Len(order) : order[i] = a  BY <1>4, <4>2 DEF D!PassedOver, Ordered
        <5>. QED  BY <3>2, <5>1
      <4>. QED  BY <4>1, <4>2
    <3>. QED  BY <3>2, <3>7, <3>8
  <2>. QED  BY <2>1, <2>2
<1>8. LoaderTyped'  BY <1>2, <1>7 DEF LoaderTyped, LoaderInv, SortFrame, CallPhases
<1>9. SortFirst'  BY <1>2, <1>7 DEF SortFirst, Sorted, Ordered
<1>10. StackExact'  BY <1>2 DEF StackExact
<1>11. Len(order') \in Nat  BY <1>7
<1>12. InitExact'  BY <1>2, <1>6, <1>11 DEF InitExact, NothingDone, CallPhases
<1>13. FiniExact'  BY <1>2, <1>6 DEF FiniExact, NothingDone, CallPhases
<1>14. CallsExact'
  <2>1. \A x : ~IsCall(x)'  BY <1>6 DEF IsCall, NothingDone
  <2>. QED  BY <1>6, <2>1 DEF CallsExact, NothingDone
<1>. QED  BY <1>7, <1>8, <1>9, <1>10, <1>12, <1>13, <1>14 DEF LoaderInv

LEMMA SortStep == ASSUME D!LifecycleConstants, LoaderInv, D!Sort PROVE LoaderInv'
<1>. DEFINE top == D!Last(stack)
<1>1. SortFrame  BY DEF D!Sort, SortFrame
<1>2. CASE top.next <= Len(D!Dependencies(top.lib))
  BY <1>1, <1>2, LoaderEnterStep DEF D!Sort
<1>3. CASE ~(top.next <= Len(D!Dependencies(top.lib))) /\ top.lib # Root
  BY <1>1, <1>3, LoaderLeaveStep DEF D!Sort
<1>4. CASE ~(top.next <= Len(D!Dependencies(top.lib))) /\ top.lib = Root
  BY <1>1, <1>4, EndSortStep DEF D!Sort
<1>. QED  BY <1>2, <1>3, <1>4

\* The phases.

LEMMA OrderKept ==
    ASSUME LoaderInv, phase \notin {"sort", "failed"}, phase' # "sort",
           UNCHANGED <<input, stack, order>>
    PROVE  /\ OrderExact' /\ StackExact' /\ SortFirst' /\ Sorted
           /\ order \in Seq(Images) /\ Len(order) \in Nat
           /\ \A i \in 1 .. Len(order) : order[i] \in Images
<1>1. OrderExact'
  <2>1. OrderExact  BY DEF LoaderInv
  <2>. QED  BY <2>1 DEF OrderExact
<1>2. StackExact'  BY DEF StackExact
<1>3. Sorted /\ Sorted'  BY DEF LoaderInv, SortFirst, Sorted, Ordered
<1>4. SortFirst'  BY <1>3 DEF SortFirst
<1>5. order \in Seq(Images)  BY DEF LoaderInv, LoaderTyped
<1>. QED  BY <1>1, <1>2, <1>3, <1>4, <1>5

LEMMA CallsKept ==
    ASSUME LoaderInv, UNCHANGED <<input, order, done, calls>>
    PROVE  CallsExact'
<1>1. /\ \A x : IsCall(x)' = IsCall(x)
      /\ \A u, v : D!CalledBefore(u, v)' = D!CalledBefore(u, v)
      /\ \A p, a : D!HasArray(p, a)' = D!HasArray(p, a)
  BY DEF IsCall, D!CalledBefore, D!HasArray
<1>. QED  BY <1>1 DEF CallsExact, LoaderInv

LEMMA PreinitStep ==
    ASSUME D!LifecycleConstants, LoaderInv, D!RunPhase("preinit")
    PROVE  LoaderInv'
<1>1. phase = "preinit" /\ UNCHANGED <<input, stack, order>> /\ phase' \in {"preinit",
          "init", "failed"}
  BY DEF D!RunPhase, D!Following
<1>2. /\ OrderExact' /\ StackExact' /\ SortFirst'
      /\ order \in Seq(Images) /\ Len(order) \in Nat
      /\ \A i \in 1 .. Len(order) : order[i] \in Images
  BY <1>1, OrderKept
<1>3. /\ D!List("preinit") = order /\ successful = << >> /\ done["fini"] \subseteq {Executable}
      /\ cursor \in Nat \ {0} /\ LoaderTyped
  BY <1>1 DEF D!List, LoaderInv, InitExact, FiniExact, LoaderTyped
<1>4. CASE cursor > Len(order)
  <2>1. phase' = "init" /\ cursor' = 1 /\ UNCHANGED <<done, successful, calls>>
    BY <1>3, <1>4 DEF D!RunPhase, D!Following
  <2>2. LoaderTyped'  BY <1>1, <1>3, <2>1 DEF LoaderTyped, CallPhases
  <2>3. InitExact'  BY <1>1, <1>3, <2>1 DEF LoaderInv, InitExact
  <2>4. FiniExact'  BY <1>1, <1>3, <2>1 DEF LoaderInv, FiniExact
  <2>. QED  BY <1>1, <1>2, <2>1, <2>2, <2>3, <2>4, CallsKept DEF LoaderInv
<1>5. CASE /\ cursor <= Len(order) /\ UNCHANGED <<done, successful, calls>>
           /\ phase' \in {"preinit", "failed"} /\ cursor' \in {cursor, cursor + 1}
  <2>1. LoaderTyped'  BY <1>1, <1>3, <1>5 DEF LoaderTyped, CallPhases
  <2>2. InitExact'  BY <1>1, <1>3, <1>5 DEF LoaderInv, InitExact
  <2>3. FiniExact'  BY <1>1, <1>3, <1>5 DEF LoaderInv, FiniExact
  <2>. QED  BY <1>1, <1>2, <1>5, <2>1, <2>2, <2>3, CallsKept DEF LoaderInv
<1>6. CASE /\ cursor <= Len(order) /\ ~D!Skipped("preinit", order[cursor])
           /\ calls' = IF D!HasArray("preinit", order[cursor])
                       THEN Append(calls, <<"preinit", order[cursor]>>) ELSE calls
           /\ done' = [done EXCEPT !["preinit"] = @ \cup {order[cursor]}]
           /\ UNCHANGED <<successful, phase>> /\ cursor' = cursor + 1
  <2>1. order[cursor] \in Images /\ order[cursor] \notin done["preinit"]
    BY <1>2, <1>3, <1>6 DEF D!Skipped
  <2>2. CallsExact' /\ calls' \in Seq(CallPhases \X Images)
            /\ done' \in [CallPhases -> SUBSET Images]
    BY <1>1, <1>6, <2>1, PhaseCalls DEF CallPhases
  <2>3. /\ done'["init"] = done["init"] /\ done'["fini"] = done["fini"]
    BY <1>3, <1>6 DEF LoaderTyped, CallPhases
  <2>4. LoaderTyped'  BY <1>1, <1>3, <1>6, <2>2 DEF LoaderTyped, CallPhases
  <2>5. InitExact'  BY <1>1, <1>3, <1>6, <2>3 DEF LoaderInv, InitExact
  <2>6. FiniExact'  BY <1>1, <1>3, <1>6, <2>3 DEF LoaderInv, FiniExact
  <2>. QED  BY <1>2, <2>2, <2>4, <2>5, <2>6 DEF LoaderInv
<1>. QED
  <2>1. cursor > Len(order) \/ cursor <= Len(order)  BY <1>2, <1>3
  <2>. QED  BY <1>3, <1>4, <1>5, <1>6, <2>1 DEF D!RunPhase, D!MarkPhaseDone, D!Successful

LEMMA LoaderInitStep ==
    ASSUME D!LifecycleConstants, LoaderInv, D!RunPhase("init")
    PROVE  LoaderInv'
<1>1. phase = "init" /\ UNCHANGED <<input, stack, order>> /\ phase' \in {"init", "main",
          "failed"}
  BY DEF D!RunPhase, D!Following
<1>2. /\ OrderExact' /\ StackExact' /\ SortFirst'
      /\ order \in Seq(Images) /\ Len(order) \in Nat
      /\ \A i \in 1 .. Len(order) : order[i] \in Images
  BY <1>1, OrderKept
<1>3. /\ D!List("init") = order /\ done["fini"] \subseteq {Executable}
      /\ cursor \in Nat \ {0} /\ LoaderTyped
      /\ successful \in Seq(Images) /\ Len(successful) = cursor - 1
      /\ Len(successful) <= Len(order)
  BY <1>1 DEF D!List, LoaderInv, InitExact, FiniExact, LoaderTyped
<1>4. \A a \in Images : a \in done["init"] <=> \E i \in 1 .. Len(successful) : order[i] = a
  BY DEF LoaderInv, InitExact
<1>5. CASE cursor > Len(order)
  <2>1. phase' = "main" /\ cursor' = 1 /\ UNCHANGED <<done, successful, calls>>
    BY <1>3, <1>5 DEF D!RunPhase, D!Following
  <2>2. LoaderTyped'  BY <1>1, <1>3, <2>1 DEF LoaderTyped, CallPhases
  <2>3. Len(successful) = Len(order)  BY <1>2, <1>3, <1>5
  <2>4. InitExact'  BY <1>1, <1>3, <2>1, <2>3 DEF LoaderInv, InitExact
  <2>5. FiniExact'  BY <1>1, <1>3, <2>1 DEF LoaderInv, FiniExact
  <2>. QED  BY <1>1, <1>2, <2>1, <2>2, <2>4, <2>5, CallsKept DEF LoaderInv
<1>6. CASE /\ cursor <= Len(order) /\ UNCHANGED <<done, successful, calls, cursor>>
           /\ phase' = "failed"
  <2>1. LoaderTyped'  BY <1>1, <1>3, <1>6 DEF LoaderTyped, CallPhases
  <2>2. InitExact'  BY <1>1, <1>3, <1>6 DEF LoaderInv, InitExact
  <2>3. FiniExact'  BY <1>1, <1>3, <1>6 DEF LoaderInv, FiniExact
  <2>. QED  BY <1>1, <1>2, <1>6, <2>1, <2>2, <2>3, CallsKept DEF LoaderInv
<1>7. cursor <= Len(order) => ~D!Skipped("init", order[cursor])
  <2>. SUFFICES ASSUME cursor <= Len(order) PROVE order[cursor] \notin done["init"]
    BY DEF D!Skipped
  <2>1. cursor \in 1 .. Len(order) /\ order[cursor] \in Images  BY <1>2, <1>3
  <2>2. \A i \in 1 .. Len(successful) : i \in 1 .. Len(order) /\ i # cursor  BY <1>2, <1>3
  <2>3. \A i \in 1 .. Len(successful) : order[i] # order[cursor]
    BY <2>1, <2>2 DEF LoaderInv, OrderExact
  <2>. QED  BY <1>4, <2>1, <2>3
<1>8. CASE /\ cursor <= Len(order)
           /\ calls' = IF D!HasArray("init", order[cursor])
                       THEN Append(calls, <<"init", order[cursor]>>) ELSE calls
           /\ done' = [done EXCEPT !["init"] = @ \cup {order[cursor]}]
           /\ successful' = Append(successful, order[cursor])
           /\ UNCHANGED phase /\ cursor' = cursor + 1
  <2>1. /\ cursor \in 1 .. Len(order)
        /\ order[cursor] \in Images /\ order[cursor] \notin done["init"]
    BY <1>2, <1>3, <1>7, <1>8 DEF D!Skipped
  <2>2. ASSUME NEW i \in 1 .. Len(order), NEW j \in 1 .. Len(order), i < j,
            order[i] = order[cursor]
        PROVE  order[j] \notin done["init"]
    <3>1. i = cursor  BY <2>1, <2>2 DEF LoaderInv, OrderExact
    <3>2. \A k \in 1 .. Len(successful) : k \in 1 .. Len(order) /\ k # j
      BY <1>2, <1>3, <2>2, <3>1
    <3>3. \A k \in 1 .. Len(successful) : order[k] # order[j]
      BY <3>2 DEF LoaderInv, OrderExact
    <3>. QED  BY <1>2, <1>4, <3>3
  <2>3. CallsExact' /\ calls' \in Seq(CallPhases \X Images)
            /\ done' \in [CallPhases -> SUBSET Images]
    BY <1>1, <1>8, <2>1, <2>2, PhaseCalls DEF CallPhases
  <2>4. /\ done'["init"] = done["init"] \cup {order[cursor]} /\ done'["fini"] = done["fini"]
    BY <1>3, <1>8 DEF LoaderTyped, CallPhases
  <2>5. /\ successful' \in Seq(Images) /\ Len(successful') = Len(successful) + 1
        /\ \A i \in 1 .. Len(successful) : successful'[i] = successful[i]
        /\ successful'[Len(successful) + 1] = order[cursor]
    BY <1>3, <1>8, <2>1
  <2>6. LoaderTyped'  BY <1>1, <1>3, <1>8, <2>3, <2>5 DEF LoaderTyped, CallPhases
  <2>7. InitExact'
    <3>1. Len(successful') = cursor /\ Len(successful') <= Len(order)  BY <1>3, <1>8, <2>5
    <3>2. \A i \in 1 .. Len(successful') : successful'[i] = order[i]
      BY <1>3, <2>5, <3>1 DEF LoaderInv, InitExact
    <3>3. ASSUME NEW a \in Images
          PROVE a \in done'["init"] <=> \E i \in 1 .. Len(successful') : order[i] = a
      <4>1. a \in done'["init"] <=>
                a = order[cursor] \/ \E i \in 1 .. Len(successful) : order[i] = a
        BY <1>4, <2>4
      <4>. QED  BY <1>3, <2>1, <3>1, <4>1
    <3>. QED  BY <1>1, <1>8, <3>1, <3>2, <3>3 DEF InitExact
  <2>8. FiniExact'  BY <1>1, <1>3, <1>8, <2>4 DEF LoaderInv, FiniExact
  <2>. QED  BY <1>2, <2>3, <2>6, <2>7, <2>8 DEF LoaderInv
<1>. QED
  <2>1. cursor > Len(order) \/ cursor <= Len(order)  BY <1>2, <1>3
  <2>. QED  BY <1>3, <1>5, <1>6, <1>7, <1>8, <2>1 DEF D!RunPhase, D!MarkPhaseDone, D!Successful

LEMMA LoaderFiniStep ==
    ASSUME D!LifecycleConstants, LoaderInv, D!RunPhase("fini")
    PROVE  LoaderInv'
<1>. DEFINE n == Len(order)
            turn == n + 1 - cursor
<1>1. phase = "fini" /\ UNCHANGED <<input, stack, order>> /\ phase' \in {"fini", "ended",
          "failed"}
  BY DEF D!RunPhase, D!Following
<1>2. /\ OrderExact' /\ StackExact' /\ SortFirst'
      /\ order \in Seq(Images) /\ n \in Nat
      /\ \A i \in 1 .. n : order[i] \in Images
  BY <1>1, OrderKept
<1>3. /\ cursor \in Nat \ {0} /\ LoaderTyped
      /\ successful \in Seq(Images) /\ Len(successful) = n
      /\ \A i \in 1 .. n : successful[i] = order[i]
      /\ cursor <= n + 1
  BY <1>1, <1>2 DEF LoaderInv, InitExact, FiniExact, LoaderTyped
<1>4. Len(D!List("fini")) = n /\ (cursor <= n =>
          D!List("fini")[cursor] = order[turn] /\ turn \in 1 .. n)
  BY <1>2, <1>3 DEF D!List, D!Reverse
<1>5. /\ \A i \in 1 .. n :
            IF i + cursor > n + 1 THEN order[i] \in done["fini"]
            ELSE order[i] \in done["fini"] => order[i] = Executable
      /\ \A i, j \in 1 .. n :
            i < j /\ order[i] \in done["fini"] /\ order[i] # Executable =>
                order[j] \in done["fini"]
      /\ \A a \in done["fini"] : a # Executable => a \in done["init"]
      /\ \A i \in 1 .. n : order[i] \in done["init"]
  BY <1>1, <1>2, <1>3 DEF LoaderInv, FiniExact, InitExact
<1>6. CASE cursor > n
  <2>1. phase' = "ended" /\ cursor' = 1 /\ UNCHANGED <<done, successful, calls>>
    BY <1>4, <1>6 DEF D!RunPhase, D!Following
  <2>2. LoaderTyped'  BY <1>1, <1>3, <2>1 DEF LoaderTyped, CallPhases
  <2>3. InitExact'  BY <1>1, <1>3, <2>1 DEF LoaderInv, InitExact
  <2>4. \A i \in 1 .. n : order[i] \in done["fini"]  BY <1>2, <1>3, <1>5, <1>6
  <2>5. FiniExact'  BY <1>1, <1>5, <2>1, <2>4 DEF FiniExact
  <2>. QED  BY <1>1, <1>2, <2>1, <2>2, <2>3, <2>5, CallsKept DEF LoaderInv
<1>7. CASE cursor <= n /\ UNCHANGED <<done, successful, calls, cursor>> /\ phase' = "failed"
  <2>1. LoaderTyped'  BY <1>1, <1>3, <1>7 DEF LoaderTyped, CallPhases
  <2>2. InitExact'  BY <1>1, <1>3, <1>7 DEF LoaderInv, InitExact
  <2>3. FiniExact'  BY <1>1, <1>5, <1>7 DEF FiniExact
  <2>. QED  BY <1>1, <1>2, <1>7, <2>1, <2>2, <2>3, CallsKept DEF LoaderInv
<1>8. CASE /\ cursor <= n /\ D!Skipped("fini", order[turn])
           /\ cursor' = cursor + 1 /\ UNCHANGED <<phase, done, successful, calls>>
  <2>1. order[turn] \in done["fini"]  BY <1>4, <1>5, <1>8 DEF D!Skipped
  <2>2. LoaderTyped'  BY <1>1, <1>3, <1>8 DEF LoaderTyped, CallPhases
  <2>3. InitExact'  BY <1>1, <1>3, <1>8 DEF LoaderInv, InitExact
  <2>4. \A i \in 1 .. n :
           IF i + (cursor + 1) > n + 1 THEN order[i] \in done["fini"]
           ELSE order[i] \in done["fini"] => order[i] = Executable
    <3>. SUFFICES ASSUME NEW i \in 1 .. n
                  PROVE  IF i + (cursor + 1) > n + 1 THEN order[i] \in done["fini"]
                         ELSE order[i] \in done["fini"] => order[i] = Executable
      OBVIOUS
    <3>1. i = turn \/ (i + (cursor + 1) > n + 1 <=> i + cursor > n + 1)  BY <1>2, <1>3
    <3>2. i = turn => i + (cursor + 1) > n + 1  BY <1>2, <1>3
    <3>. QED  BY <1>5, <2>1, <3>1, <3>2
  <2>5. FiniExact'  BY <1>1, <1>2, <1>3, <1>5, <1>8, <2>4 DEF FiniExact
  <2>. QED  BY <1>1, <1>2, <1>8, <2>2, <2>3, <2>5, CallsKept DEF LoaderInv
<1>9. CASE /\ cursor <= n /\ ~D!Skipped("fini", order[turn])
           /\ calls' = IF D!HasArray("fini", order[turn])
                       THEN Append(calls, <<"fini", order[turn]>>) ELSE calls
           /\ done' = [done EXCEPT !["fini"] = @ \cup {order[turn]}]
           /\ UNCHANGED <<successful, phase>> /\ cursor' = cursor + 1
  <2>1. turn \in 1 .. n /\ order[turn] \in Images /\ order[turn] \notin done["fini"]
    BY <1>2, <1>4, <1>9 DEF D!Skipped
  <2>2. ASSUME NEW i \in 1 .. n, NEW j \in 1 .. n, i < j, order[j] = order[turn],
            order[i] # Executable
        PROVE  order[i] \notin done["fini"]
    <3>1. j = turn  BY <2>1, <2>2 DEF LoaderInv, OrderExact
    <3>2. ~(i + cursor > n + 1)  BY <1>2, <1>3, <2>2, <3>1
    <3>. QED  BY <1>5, <2>2, <3>2
  <2>3. CallsExact' /\ calls' \in Seq(CallPhases \X Images)
            /\ done' \in [CallPhases -> SUBSET Images]
    BY <1>1, <1>9, <2>1, <2>2, PhaseCalls DEF CallPhases
  <2>4. /\ done'["fini"] = done["fini"] \cup {order[turn]} /\ done'["init"] = done["init"]
    BY <1>3, <1>9 DEF LoaderTyped, CallPhases
  <2>5. LoaderTyped'  BY <1>1, <1>3, <1>9, <2>3 DEF LoaderTyped, CallPhases
  <2>6. InitExact'  BY <1>1, <1>3, <1>9, <2>4 DEF LoaderInv, InitExact
  <2>7. \A i \in 1 .. n : order[i] = order[turn] => i = turn  BY <2>1 DEF LoaderInv, OrderExact
  <2>8. ASSUME NEW i \in 1 .. n
        PROVE  IF i + (cursor + 1) > n + 1 THEN order[i] \in done'["fini"]
               ELSE order[i] \in done'["fini"] => order[i] = Executable
    <3>1. i = turn \/ (i + (cursor + 1) > n + 1 <=> i + cursor > n + 1)  BY <1>2, <1>3
    <3>2. i = turn => i + (cursor + 1) > n + 1  BY <1>2, <1>3
    <3>. QED  BY <1>5, <2>4, <2>7, <3>1, <3>2
  <2>9. ASSUME NEW i \in 1 .. n, NEW j \in 1 .. n, i < j, order[i] \in done'["fini"],
            order[i] # Executable
        PROVE  order[j] \in done'["fini"]
    <3>1. CASE i = turn
      <4>1. j + cursor > n + 1  BY <1>2, <1>3, <2>9, <3>1
      <4>. QED  BY <1>5, <2>4, <4>1
    <3>2. CASE i # turn
      <4>1. order[i] \in done["fini"]  BY <2>4, <2>7, <2>9, <3>2
      <4>. QED  BY <1>5, <2>4, <2>9, <4>1
    <3>. QED  BY <3>1, <3>2
  <2>10. \A a \in done'["fini"] : a # Executable => a \in done'["init"]
    BY <1>5, <2>1, <2>4
  <2>11. phase' = "fini" /\ order' = order /\ cursor' = cursor + 1 /\ cursor' <= Len(order) + 1
    BY <1>1, <1>2, <1>3, <1>9
  <2>. HIDE DEF turn
  <2>12. FiniExact'  BY <2>8, <2>9, <2>10, <2>11 DEF FiniExact
  <2>. QED  BY <1>2, <2>3, <2>5, <2>6, <2>12 DEF LoaderInv
<1>. QED
  <2>1. cursor > n \/ cursor <= n  BY <1>2, <1>3
  <2>. QED  BY <1>4, <1>6, <1>7, <1>8, <1>9, <2>1 DEF D!RunPhase, D!MarkPhaseDone, D!Successful

\* The guest's side.

\* The guest's exit: nothing but the executable has been finalized yet.
LEMMA GuestFiniStep ==
    ASSUME D!LifecycleConstants, LoaderInv, phase \in {"preinit", "init", "main", "shutdown"},
           Executable \notin done["fini"], D!GuestFini, D!MarkExecutableFiniComplete,
           UNCHANGED <<input, stack, order, successful, cursor>>,
           \/ phase' = phase
           \/ phase = "main" /\ phase' = "shutdown"
           \/ phase = "shutdown" /\ phase' = "fini"
    PROVE  LoaderInv'
<1>1. /\ OrderExact' /\ StackExact' /\ SortFirst'
      /\ order \in Seq(Images) /\ Len(order) \in Nat
      /\ \A i \in 1 .. Len(order) : order[i] \in Images
  BY OrderKept
<1>2. Executable \in Images /\ LoaderTyped  BY LoaderInput DEF LoaderInv
<1>3. done["fini"] = {}
  <2>1. done["fini"] \subseteq {Executable}  BY DEF LoaderInv, FiniExact
  <2>. QED  BY <2>1
<1>4. /\ calls' = IF D!HasArray("fini", Executable) THEN Append(calls, <<"fini",
             Executable>>) ELSE calls
      /\ done' = [done EXCEPT !["fini"] = @ \cup {Executable}]
  BY DEF D!GuestFini, D!MarkExecutableFiniComplete
<1>5. CallsExact' /\ calls' \in Seq(CallPhases \X Images)
          /\ done' \in [CallPhases -> SUBSET Images]
  BY <1>2, <1>3, <1>4, PhaseCalls DEF CallPhases
<1>6. done'["fini"] = {Executable} /\ done'["init"] = done["init"]
  BY <1>2, <1>3, <1>4 DEF LoaderTyped, CallPhases
<1>7. LoaderTyped'  BY <1>2, <1>5 DEF LoaderTyped, CallPhases
<1>8. InitExact'  BY <1>6 DEF LoaderInv, InitExact
<1>9. phase' = "fini" => cursor = 1  BY DEF LoaderInv, InitExact
<1>10. FiniExact'
  <2>1. phase' = "fini" =>
            cursor' <= Len(order) + 1
                /\ \A i \in 1 .. Len(order) : ~(i + cursor' > Len(order) + 1)
    BY <1>1, <1>9
  <2>2. phase' # "ended" /\ order' = order /\ \A a \in done'["fini"] : a = Executable  BY <1>6
  <2>. QED  BY <1>6, <2>1, <2>2 DEF FiniExact
<1>. QED  BY <1>1, <1>5, <1>7, <1>8, <1>10 DEF LoaderInv

LEMMA GuestExitStep == ASSUME D!LifecycleConstants, LoaderInv, D!GuestExit PROVE LoaderInv'
BY GuestFiniStep DEF D!GuestExit

LEMMA QuietStep ==
    ASSUME D!LifecycleConstants, LoaderInv,
           \/ phase = "main" /\ phase' = "shutdown"
           \/ phase = "shutdown" /\ phase' = "fini",
           UNCHANGED <<input, stack, order, done, successful, cursor, calls>>
    PROVE  LoaderInv'
<1>1. /\ OrderExact' /\ StackExact' /\ SortFirst' /\ Len(order) \in Nat
  BY OrderKept
<1>2. LoaderTyped'  BY DEF LoaderInv, LoaderTyped, CallPhases
<1>3. InitExact'  BY DEF LoaderInv, InitExact
<1>4. done["fini"] \subseteq {Executable} /\ cursor = 1  BY DEF LoaderInv, InitExact, FiniExact
<1>5. FiniExact'
  <2>1. cursor' <= Len(order) + 1 /\ \A i \in 1 .. Len(order) : ~(i + cursor' > Len(order) + 1)
    BY <1>1, <1>4
  <2>2. \A i \in 1 .. Len(order) : order[i] \in done["fini"] => order[i] = Executable  BY <1>4
  <2>. QED  BY <1>4, <2>1, <2>2 DEF LoaderInv, FiniExact
<1>. QED  BY <1>1, <1>2, <1>3, <1>5, CallsKept DEF LoaderInv

LEMMA ShutdownStep == ASSUME D!LifecycleConstants, LoaderInv, D!Shutdown PROVE LoaderInv'
<1>1. CASE Executable \notin done["fini"] /\ input.guestFini
  BY <1>1, GuestFiniStep DEF D!Shutdown
<1>2. CASE ~(Executable \notin done["fini"] /\ input.guestFini)
  BY <1>2, QuietStep DEF D!Shutdown
<1>. QED  BY <1>1, <1>2

LEMMA LoaderInit == ASSUME D!LifecycleConstants, D!Init PROVE LoaderInv
<1>1. /\ stack = <<[lib |-> Root, next |-> 1]>> /\ order = << >> /\ successful = << >>
      /\ calls = << >> /\ phase = "sort" /\ cursor = 1 /\ done = [p \in CallPhases |-> {}]
      /\ input \in Loads
  BY DEF D!Init, CallPhases
<1>2. stack \in Seq(Visit) /\ Len(stack) = 1 /\ stack[1].lib = Root /\ stack[1].next = 1
  BY <1>1 DEF Visit
<1>3. LoaderTyped  BY <1>1, <1>2 DEF LoaderTyped, CallPhases, Visit
<1>4. OrderExact  BY <1>1 DEF OrderExact
<1>5. StackExact
  <2>1. D!Dependencies(Root) \in Seq(Images \cup {Missing})  BY <1>3, DependenciesTyped
  <2>2. \A i \in 1 .. Len(stack) : i = 1  BY <1>2
  <2>3. \A k \in 1 .. Len(D!Dependencies(Root)) : ~(k < 1)  BY <2>1
  <2>4. \A a : ~Ordered(a)  BY <1>1 DEF Ordered
  <2>. QED  BY <1>2, <2>2, <2>3, <2>4 DEF StackExact
<1>6. SortFirst  BY <1>1 DEF SortFirst, NothingDone
<1>7. InitExact  BY <1>1 DEF InitExact, CallPhases
<1>8. FiniExact  BY <1>1 DEF FiniExact, CallPhases
<1>9. CallsExact
  <2>1. \A x : ~IsCall(x)  BY <1>1 DEF IsCall
  <2>. QED  BY <1>1, <2>1 DEF CallsExact
<1>. QED  BY <1>3, <1>4, <1>5, <1>6, <1>7, <1>8, <1>9 DEF LoaderInv

LEMMA LoaderStutter == ASSUME LoaderInv, UNCHANGED D!vars PROVE LoaderInv'
<1>. USE DEF D!vars
<1>1. LoaderTyped' /\ OrderExact' /\ InitExact' /\ FiniExact'
  <2>1. LoaderTyped'  BY DEF LoaderInv, LoaderTyped
  <2>2. OrderExact'  BY DEF LoaderInv, OrderExact
  <2>3. InitExact'  BY DEF LoaderInv, InitExact, CallPhases
  <2>4. FiniExact'  BY DEF LoaderInv, FiniExact, CallPhases
  <2>. QED  BY <2>1, <2>2, <2>3, <2>4
<1>2. StackExact'
  <2>1. /\ \A lib : D!Dependencies(lib)' = D!Dependencies(lib)
               /\ D!PassedOver(lib)' = D!PassedOver(lib)
        /\ \A a : Ordered(a)' = Ordered(a)
    BY DEF D!Dependencies, D!PassedOver, Ordered
  <2>. QED  BY <2>1 DEF LoaderInv, StackExact
<1>3. SortFirst'  BY DEF LoaderInv, SortFirst, NothingDone, Sorted, Ordered
<1>4. CallsExact'  BY CallsKept
<1>. QED  BY <1>1, <1>2, <1>3, <1>4 DEF LoaderInv

LEMMA LoaderNext ==
    ASSUME D!LifecycleConstants, LoaderInv, [D!Next]_(D!vars)
    PROVE  LoaderInv'
<1>1. CASE D!MainReturns  BY <1>1, QuietStep DEF D!MainReturns
<1>2. CASE D!Done \/ UNCHANGED D!vars  BY <1>2, LoaderStutter DEF D!Done
<1>. QED
  BY <1>1, <1>2, SortStep, PreinitStep, LoaderInitStep, LoaderFiniStep, GuestExitStep,
         ShutdownStep DEF D!Next

\* What the invariant says of the calls and of the graph.

\* Where an image and one it needs are in the order.
LEMMA NeedPlace ==
    ASSUME D!LifecycleConstants, LoaderInv, NEW a \in Images, NEW b, D!Needs(a, b),
           NEW i \in 1 .. Len(order), order[i] = a
    PROVE  \E j \in 1 .. i - 1 : order[j] = b
<1>1. input.needed[a] \in Seq(Images \cup {Missing})  BY LoaderInput DEF LoaderInv
<1>2. PICK k \in 1 .. Len(input.needed[a]) : input.needed[a][k] = b  BY <1>1 DEF D!Needs
<1>. QED  BY <1>2 DEF LoaderInv, OrderExact

\* Something was done only after the sort.
LEMMA DoneIsSorted ==
    ASSUME LoaderInv, NEW p \in CallPhases, NEW x \in done[p] PROVE Sorted
BY DEF LoaderInv, SortFirst, NothingDone

LEMMA InvNeededInitFirst == ASSUME D!LifecycleConstants, LoaderInv PROVE D!NeededInitFirst
<1>. SUFFICES ASSUME NEW a \in Images, NEW b \in Images,
                     D!Needs(a, b), D!Called("init", a), D!HasArray("init", b)
              PROVE  D!CalledBefore(<<"init", b>>, <<"init", a>>)
  BY DEF D!NeededInitFirst
<1>1. LoaderTyped /\ Len(order) \in Nat /\ Len(successful) \in Nat
          /\ Len(successful) <= Len(order)
  BY DEF LoaderInv, LoaderTyped, InitExact
<1>2. IsCall(<<"init", a>>) /\ a \in done["init"]
  BY <1>1, CalledIsCall DEF LoaderInv, CallsExact, CallPhases
<1>3. PICK i \in 1 .. Len(successful) : order[i] = a  BY <1>2 DEF LoaderInv, InitExact
<1>4. i \in 1 .. Len(order)  BY <1>1
<1>5. PICK j \in 1 .. i - 1 : order[j] = b  BY <1>3, <1>4, NeedPlace
<1>6. j \in 1 .. Len(successful) /\ j \in 1 .. Len(order) /\ j < i  BY <1>1
<1>7. b \in done["init"]  BY <1>5, <1>6 DEF LoaderInv, InitExact
<1>8. IsCall(<<"init", b>>)  BY <1>7 DEF LoaderInv, CallsExact, CallPhases
<1>. QED  BY <1>2, <1>3, <1>4, <1>5, <1>6, <1>8 DEF LoaderInv, CallsExact

LEMMA InvNeededFiniLast == ASSUME D!LifecycleConstants, LoaderInv PROVE D!NeededFiniLast
<1>. SUFFICES ASSUME NEW a \in Images, NEW b \in Images \ {Executable},
                     D!Needs(a, b), D!Called("fini", b), D!HasArray("fini", a)
              PROVE  D!CalledBefore(<<"fini", a>>, <<"fini", b>>)
  BY DEF D!NeededFiniLast
<1>1. LoaderTyped /\ Len(order) \in Nat  BY DEF LoaderInv, LoaderTyped
<1>2. IsCall(<<"fini", b>>) /\ b \in done["fini"]
  BY <1>1, CalledIsCall DEF LoaderInv, CallsExact, CallPhases
<1>3. PICK i \in 1 .. Len(order) : order[i] = a
  BY <1>2, DoneIsSorted DEF CallPhases, Sorted, Ordered
<1>4. PICK j \in 1 .. i - 1 : order[j] = b  BY <1>3, NeedPlace
<1>5. j \in 1 .. Len(order) /\ j < i /\ order[j] # Executable  BY <1>1, <1>4
<1>6. a \in done["fini"]  BY <1>2, <1>3, <1>4, <1>5 DEF LoaderInv, FiniExact
<1>7. IsCall(<<"fini", a>>)  BY <1>6 DEF LoaderInv, CallsExact, CallPhases
<1>. QED  BY <1>2, <1>3, <1>4, <1>5, <1>7 DEF LoaderInv, CallsExact

LEMMA InvOnce == ASSUME LoaderInv PROVE D!OnceAndOnlyAfterInit
<1>1. LoaderTyped /\ DOMAIN calls = 1 .. Len(calls)  BY DEF LoaderInv, LoaderTyped
<1>2. \A i, j \in DOMAIN calls : i # j => calls[i] # calls[j]  BY <1>1 DEF LoaderInv, CallsExact
<1>3. ASSUME NEW a \in Images \ {Executable}, D!Called("fini", a) PROVE a \in done["init"]
  <2>1. a \in done["fini"]  BY <1>1, <1>3, CalledIsCall DEF LoaderInv, CallsExact, CallPhases
  <2>. QED  BY <2>1 DEF LoaderInv, FiniExact
<1>. QED  BY <1>2, <1>3 DEF D!OnceAndOnlyAfterInit

LEMMA InvAcyclic == ASSUME D!LifecycleConstants, LoaderInv, Sorted PROVE D!Acyclic
<1>. SUFFICES ASSUME NEW s \in (SUBSET Images) \ {{}}
      PROVE \E a \in s : \A b \in s : ~D!Needs(a, b)
  BY DEF D!Acyclic
<1>1. Len(order) \in Nat  BY DEF LoaderInv, LoaderTyped
<1>. DEFINE places == {i \in 1 .. Len(order) : order[i] \in s}
            R == {ss \in Nat \X Nat : ss[1] < ss[2]}
<1>2. places \subseteq Nat /\ places # {}  BY <1>1 DEF Sorted, Ordered
<1>7. IsWellFoundedOn(R, Nat)  BY NatLessThanWellFounded DEF OpToRel
<1>8. \A i, j \in Nat : j < i => <<j, i>> \in R  OBVIOUS
<1>. HIDE DEF places, R
<1>3. PICK i \in places : \A j \in places : <<j, i>> \notin R  BY <1>2, <1>7, WFMin
<1>4. \A j \in places : ~(j < i)  BY <1>2, <1>3, <1>8
<1>5. i \in 1 .. Len(order) /\ order[i] \in s /\ order[i] \in Images  BY DEF places
<1>6. ASSUME NEW b \in s, D!Needs(order[i], b) PROVE FALSE
  <2>1. PICK j \in 1 .. i - 1 : order[j] = b  BY <1>5, <1>6, NeedPlace
  <2>2. j \in places /\ j < i  BY <1>1, <1>5, <2>1 DEF places
  <2>. QED  BY <1>4, <2>2
<1>. QED  BY <1>5, <1>6

LEMMA UpTo == ASSUME NEW n \in Nat PROVE IsFiniteSet(1 .. n) /\ Cardinality(1 .. n) = n
BY FS_Interval

LEMMA InvBadGraph == ASSUME D!LifecycleConstants, LoaderInv PROVE D!BadGraphRunsNothing
<1>. SUFFICES ASSUME phase \notin {"sort", "failed"}
              PROVE  /\ D!Acyclic /\ \A a \in Images : ~D!Needs(a, Missing)
                     /\ D!Range(order) = Images /\ Len(order) = Cardinality(Images)
  BY DEF D!BadGraphRunsNothing
<1>1. Sorted /\ order \in Seq(Images) /\ Len(order) \in Nat /\ DOMAIN order = 1 .. Len(order)
  BY DEF LoaderInv, SortFirst, LoaderTyped
<1>2. ASSUME NEW a \in Images, D!Needs(a, Missing) PROVE FALSE
  <2>1. PICK i \in 1 .. Len(order) : order[i] = a  BY <1>1 DEF Sorted, Ordered
  <2>2. PICK j \in 1 .. i - 1 : order[j] = Missing  BY <1>2, <2>1, NeedPlace
  <2>3. order[j] \in Images  BY <1>1, <2>1
  <2>. QED  BY <2>2, <2>3, LoaderInput DEF LoaderInv
<1>3. D!Range(order) = Images
  <2>1. \A a \in Images : a \in D!Range(order)  BY <1>1, OrderRange DEF Sorted, LoaderInv
  <2>2. D!Range(order) \subseteq Images  BY <1>1 DEF D!Range
  <2>. QED  BY <2>1, <2>2
<1>4. Len(order) = Cardinality(Images)
  <2>1. \A i, j \in 1 .. Len(order) : order[i] = order[j] => i = j  BY DEF LoaderInv, OrderExact
  <2>2. order \in [1 .. Len(order) -> Images]  BY <1>1
  <2>3. \A a \in Images : \E i \in 1 .. Len(order) : order[i] = a  BY <1>1 DEF Sorted, Ordered
  <2>4. ExistsBijection(1 .. Len(order), Images)
    BY <2>1, <2>2, <2>3, Fun_IsBij, Fun_ExistsBij
  <2>5. IsFiniteSet(1 .. Len(order)) /\ Cardinality(1 .. Len(order)) = Len(order)
    BY <1>1, UpTo
  <2>. QED  BY <2>4, <2>5, FS_Bijection
<1>. QED  BY <1>1, <1>2, <1>3, <1>4, InvAcyclic

LEMMA InvEverything == ASSUME D!LifecycleConstants, LoaderInv PROVE D!EverythingFinalized
<1>. SUFFICES ASSUME phase = "ended", NEW a \in input.arrays["fini"] PROVE D!Called("fini", a)
  BY DEF D!EverythingFinalized
<1>1. a \in Images /\ D!HasArray("fini", a)  BY LoaderInput DEF LoaderInv, D!HasArray,
          CallPhases
<1>2. PICK i \in 1 .. Len(order) : order[i] = a  BY <1>1 DEF LoaderInv, SortFirst, Sorted,
          Ordered
<1>3. a \in done["fini"]  BY <1>2 DEF LoaderInv, FiniExact
<1>4. IsCall(<<"fini", a>>)  BY <1>1, <1>3 DEF LoaderInv, CallsExact, CallPhases
<1>. QED  BY <1>4, CalledIsCall DEF LoaderInv

LEMMA LoaderInvSafe == ASSUME D!LifecycleConstants, LoaderInv PROVE D!LifecycleSafe
BY InvNeededInitFirst, InvNeededFiniLast, InvOnce, InvBadGraph, InvEverything
   DEF D!LifecycleSafe

HIDE DSets

-----------------------------------------------------------------------------
\* The linker: link is the module's input and step its phase.

CONSTANTS Names, Entry, Initial, Links

VARIABLES link, step, linked, table, position, before, errors, live, worklist

L == INSTANCE Linker WITH Inputs <- Links, input <- link, phase <- step

\* The linker counts with the operators of FiniteSets.
LEMMA LSets ==
    /\ \A S : L!IsFiniteSet(S) <=> IsFiniteSet(S)
    /\ \A S : L!Cardinality(S) = Cardinality(S)
BY DEF L!IsFiniteSet, L!Cardinality, IsFiniteSet, Cardinality

USE LSets

\* Nothing that must be kept is missing, but for what the sections on the worklist
\* refer to; and nothing is kept that a set closed under references could miss.
MarkedLive ==
    /\ L!Roots \subseteq live /\ worklist \subseteq live
    /\ \A s \in live \ worklist : L!References(s) \subseteq live
    /\ \A S : L!Roots \subseteq S /\ L!Closed(S) => live \subseteq S

Collected ==
    /\ step \in {"objects", "entry", "begin", "pass", "collect", "mark", "check", "done"}
    /\ step \notin {"mark", "check", "done"} => live = {} /\ worklist = {}
    /\ step = "mark" => MarkedLive
    /\ step \in {"check", "done"} /\ link.gc => MarkedLive /\ worklist = {}

\* The roots and the references are those of the files and the table.
LEMMA SameGraph ==
    ASSUME UNCHANGED <<link, linked, table>>
    PROVE  /\ L!Roots' = L!Roots
           /\ \A s : L!References(s)' = L!References(s)
           /\ \A S : L!Closed(S)' <=> L!Closed(S)
<1>1. \A n : L!SectionOf(n)' = L!SectionOf(n)
  BY DEF L!SectionOf
<1>2. L!AllSections' = L!AllSections
  BY DEF L!AllSections
<1>3. \A id : L!FileNamed(id)' = L!FileNamed(id)
  BY DEF L!FileNamed
<1>4. L!Roots' = L!Roots
  BY <1>1, <1>2 DEF L!Roots
<1>5. \A s : L!References(s)' = L!References(s)
  BY <1>1, <1>3 DEF L!References
<1>6. \A S : L!Closed(S)' <=> L!Closed(S)
  BY <1>5 DEF L!Closed
<1>7. QED BY <1>4, <1>5, <1>6

LEMMA MarkedStays ==
    ASSUME MarkedLive, UNCHANGED <<link, linked, table, live, worklist>> PROVE MarkedLive'
BY SameGraph DEF MarkedLive

LEMMA CollectedInit == L!Init => Collected
BY DEF L!Init, Collected

LEMMA MarkRootsStep == ASSUME Collected, L!MarkRoots PROVE Collected'
<1>1. /\ step = "collect" /\ live = {} /\ worklist = {} /\ UNCHANGED <<link, linked, table>>
  BY DEF L!MarkRoots, Collected
<1>2. CASE link.gc
  <2>1. step' = "mark" /\ live' = L!Roots /\ worklist' = L!Roots
    BY <1>1, <1>2 DEF L!MarkRoots, L!MarkLive
  <2>2. MarkedLive'
    BY <1>1, <2>1, SameGraph DEF MarkedLive
  <2>3. QED BY <2>1, <2>2 DEF Collected
<1>3. CASE ~ link.gc
  BY <1>1, <1>3 DEF L!MarkRoots, Collected
<1>4. QED BY <1>2, <1>3

LEMMA MarkReferencesStep == ASSUME Collected, L!MarkReferences PROVE Collected'
<1>1. /\ step = "mark" /\ step' = "mark" /\ MarkedLive
      /\ UNCHANGED <<link, linked, table>>
  BY DEF L!MarkReferences, Collected
<1>2. PICK s \in worklist : /\ live' = live \cup L!References(s)
                            /\ worklist' = (worklist \ {s}) \cup (L!References(s) \ live)
  BY DEF L!MarkReferences
<1>3. /\ L!Roots \subseteq live' /\ worklist' \subseteq live'
      /\ \A u \in live' \ worklist' : L!References(u) \subseteq live'
  <2>1. ASSUME NEW u \in live' \ worklist' PROVE L!References(u) \subseteq live'
    BY <1>1, <1>2 DEF MarkedLive
  <2>2. QED BY <1>1, <1>2, <2>1 DEF MarkedLive
<1>4. ASSUME NEW S, L!Roots \subseteq S, L!Closed(S) PROVE live' \subseteq S
  <2>1. live \subseteq S /\ s \in S
    BY <1>1, <1>2, <1>4 DEF MarkedLive
  <2>2. L!References(s) \subseteq S
    BY <1>4, <2>1 DEF L!Closed
  <2>3. QED BY <1>2, <2>1, <2>2
<1>5. MarkedLive'
  <2>1. L!Roots' \subseteq live' /\ worklist' \subseteq live'
    BY <1>1, <1>3, SameGraph
  <2>2. \A u \in live' \ worklist' : L!References(u)' \subseteq live'
    BY <1>1, <1>3, SameGraph
  <2>3. \A S : L!Roots' \subseteq S /\ L!Closed(S)' => live' \subseteq S
    BY <1>1, <1>4, SameGraph
  <2>4. QED BY <2>1, <2>2, <2>3 DEF MarkedLive
<1>6. QED BY <1>1, <1>5 DEF Collected

LEMMA CollectedNext == Collected /\ [L!Next]_(L!vars) => Collected'
<1> SUFFICES ASSUME Collected, [L!Next]_(L!vars) PROVE Collected'
  OBVIOUS
<1>1. CASE L!ReadObject \/ L!ResolveEntrySymbol \/ L!BeginPass \/ L!ResolveUndefined
          \/ L!EndPass
  <2>1. /\ step \in {"objects", "entry", "begin", "pass"}
        /\ step' \in {"objects", "entry", "begin", "pass", "collect"}
        /\ UNCHANGED <<live, worklist>>
    BY <1>1 DEF L!ReadObject, L!ResolveEntrySymbol, L!BeginPass, L!ResolveUndefined, L!EndPass
  <2>2. QED BY <2>1 DEF Collected
<1>2. CASE L!MarkRoots
  BY <1>2, MarkRootsStep
<1>3. CASE L!MarkReferences
  BY <1>3, MarkReferencesStep
<1>4. CASE L!EndCollection \/ L!CheckUndefined \/ L!Done \/ UNCHANGED L!vars
  <2>1. /\ UNCHANGED <<link, linked, table, live, worklist>>
        /\ \/ step = "mark" /\ worklist = {} /\ step' = "check"
           \/ step = "check" /\ step' = "done"
           \/ step' = step
    BY <1>4 DEF L!EndCollection, L!CheckUndefined, L!Done, L!vars
  <2>2. MarkedLive => MarkedLive'
    BY <2>1, MarkedStays
  <2>3. QED BY <2>1, <2>2 DEF Collected
<1>5. QED BY <1>1, <1>2, <1>3, <1>4 DEF L!Next

LEMMA CollectedSafe == ASSUME Collected PROVE L!KeptIsReachable
<1> SUFFICES ASSUME step \in {"check", "done"}, link.gc
             PROVE  /\ L!Roots \subseteq live /\ L!Closed(live)
                    /\ \A s \in SUBSET (live \ L!Roots) :
                          L!Closed(L!Roots \cup s) => L!Roots \cup s = live
  BY DEF L!KeptIsReachable
<1>1. MarkedLive /\ worklist = {}
  BY DEF Collected
<1>2. L!Roots \subseteq live /\ L!Closed(live)
  BY <1>1 DEF MarkedLive, L!Closed
<1>3. ASSUME NEW s \in SUBSET (live \ L!Roots), L!Closed(L!Roots \cup s)
      PROVE L!Roots \cup s = live
  <2>1. live \subseteq L!Roots \cup s
    BY <1>1, <1>3 DEF MarkedLive
  <2>2. QED BY <1>2, <2>1
<1>4. QED BY <1>2, <1>3

\* Some set of positions has a first one.
LEMMA LeastNat == ASSUME NEW S, S \subseteq Nat, S # {}
  PROVE \E x \in S : \A y \in S : x <= y
<1> DEFINE T == {0 .. m : m \in S}
<1>1. T \subseteq FiniteSubsetsOf(Nat) /\ T # {}
  <2>1. ASSUME NEW m \in S PROVE IsFiniteSet(0 .. m) /\ 0 .. m \subseteq Nat
    BY FS_Interval
  <2>2. QED BY <2>1 DEF FiniteSubsetsOf
<1>2. IsWellFoundedOn(StrictSubsetOrdering(Nat), FiniteSubsetsOf(Nat))
  BY FS_StrictSubsetOrderingWellFounded
<1>3. PICK X \in T : \A Y \in T : ~ (<<Y, X>> \in StrictSubsetOrdering(Nat))
  <2> HIDE DEF T
  <2> QED BY <1>1, <1>2, WFMin, Zenon
<1>4. PICK x \in S : X = 0 .. x
  OBVIOUS
<1>5. ASSUME NEW y \in S, y < x PROVE FALSE
  <2>1. 0 .. y \subseteq Nat /\ X \subseteq Nat /\ 0 .. y \subseteq X /\ 0 .. y # X
    BY <1>4, <1>5
  <2>2. <<0 .. y, X>> \in StrictSubsetOrdering(Nat)
    BY <2>1 DEF StrictSubsetOrdering
  <2>3. QED BY <1>3, <2>2
<1>6. QED BY <1>5

\* The first position of a set of positions, and the largest of two sizes.
LEMMA MinOf == ASSUME NEW S, S \subseteq Nat, S # {}
               PROVE  L!Min(S) \in S /\ \A y \in S : L!Min(S) <= y
BY LeastNat DEF L!Min

LEMMA FirstIsOne ==
    ASSUME NEW S, S \subseteq Nat, NEW x \in S, NEW y \in S,
           \A z \in S : x <= z, \A z \in S : y <= z
    PROVE  x = y
OBVIOUS

LEMMA LastIsOne ==
    ASSUME NEW S, S \subseteq Nat, NEW x \in S, NEW y \in S,
           \A z \in S : z <= x, \A z \in S : z <= y
    PROVE  x = y
OBVIOUS

LEMMA MinIs == ASSUME NEW S, S \subseteq Nat, NEW x \in S, \A y \in S : x <= y
               PROVE  L!Min(S) = x
<1>1. L!Min(S) \in S /\ \A y \in S : L!Min(S) <= y
  BY MinOf
<1>2. QED BY <1>1, FirstIsOne, Zenon

LEMMA MaxIs == ASSUME NEW S, S \subseteq Nat, NEW x \in S, \A y \in S : y <= x
               PROVE  L!Max(S) = x
<1>1. L!Max(S) \in S /\ \A y \in S : y <= L!Max(S)
  BY DEF L!Max
<1>2. QED BY <1>1, LastIsOne, Zenon

LEMMA MaxOfTwo == ASSUME NEW m \in Nat, NEW n \in Nat
                  PROVE  L!Max({m, n}) = IF m >= n THEN m ELSE n
BY DEF L!Max

\* What a name is bound to.

Ids == {f.id : f \in L!Files(link)}

Entries == [place : {"common", "section", "undefined"}, weak : BOOLEAN, size : Nat,
            defined : BOOLEAN, file : Ids, dynamic : BOOLEAN]

First(S, w) == w \in S /\ \A i \in S : w <= i

Binding(n, w) == First(IF L!StrongFiles(n) # {} THEN L!StrongFiles(n) ELSE L!DefiningFiles(n), w)

Sized(n, w) ==
    IF w \in L!Commons(n)
    THEN /\ \A c \in L!Commons(n) : linked[c].size[n] <= table[n].size
         /\ \E c \in L!Commons(n) : linked[c].size[n] = table[n].size
    ELSE table[n].size = linked[w].size[n]

BoundTo(n, w) ==
    /\ Binding(n, w) /\ Sized(n, w)
    /\ table[n] \in Entries /\ table[n].defined /\ ~table[n].dynamic
    /\ table[n].place = L!Place(linked[w], n) /\ table[n].file = linked[w].id
    /\ table[n].weak = L!Weak(linked[w], n)

ReferredTo(n) ==
    /\ table[n] \in Entries /\ table[n].place = "undefined"
    /\ table[n].defined = table[n].dynamic
    /\ table[n].weak <=> \A i \in L!ReferringFiles(n) : L!Weak(linked[i], n)
    /\ table[n].dynamic =>
          L!Defining(n) = {} /\ ~table[n].weak /\ step \notin {"objects", "entry"}

Bound(n) ==
    IF L!DefiningFiles(n) # {} THEN \E w : BoundTo(n, w)
    ELSE IF L!ReferringFiles(n) # {} THEN ReferredTo(n)
    ELSE table[n] = L!Absent

LinkTyped ==
    /\ link \in Links /\ linked \in Seq(L!Files(link))
    /\ position \in Nat \ {0} /\ before \in Nat
    /\ step \in {"objects", "entry", "begin", "pass", "collect", "mark", "check", "done"}
    /\ table = [n \in Names |-> table[n]]

\* One file more.
LEMMA OneFileMore ==
    ASSUME LinkTyped, NEW file, linked' = Append(linked, file), NEW n,
           NEW p, p = Len(linked) + 1
    PROVE  /\ p \in Nat \ {0} /\ p \notin L!Positions /\ L!Positions \subseteq 1 .. p - 1
           /\ linked'[p] = file /\ \A i \in L!Positions : linked'[i] = linked[i]
           /\ L!Positions' = L!Positions \cup {p}
           /\ L!DefiningFiles(n)' = L!DefiningFiles(n) \cup
                 {i \in {p} : L!Place(file, n) \in {"common", "section"}}
           /\ L!StrongFiles(n)' = L!StrongFiles(n) \cup
                 {i \in {p} : L!Place(file, n) \in {"common", "section"} /\ ~L!Weak(file, n)}
           /\ L!ReferringFiles(n)' = L!ReferringFiles(n) \cup {i \in {p} : L!Place(file,
                  n) = "undefined"}
           /\ L!Commons(n)' = L!Commons(n) \cup {i \in {p} : L!Place(file, n) = "common"}
<1>1. Len(linked) \in Nat /\ L!Positions = 1 .. Len(linked)
  BY DEF LinkTyped, L!Positions
<1>2. Len(linked') = p /\ DOMAIN linked' = 1 .. p
      /\ linked'[p] = file /\ \A i \in L!Positions : linked'[i] = linked[i]
  BY <1>1 DEF LinkTyped
<1>3. L!Positions' = L!Positions \cup {p}
  BY <1>1, <1>2 DEF L!Positions
<1>4. L!DefiningFiles(n)' = L!DefiningFiles(n) \cup
                 {i \in {p} : L!Place(file, n) \in {"common", "section"}}
  BY <1>2, <1>3 DEF L!DefiningFiles
<1>5. L!StrongFiles(n)' = L!StrongFiles(n) \cup
                 {i \in {p} : L!Place(file, n) \in {"common", "section"} /\ ~L!Weak(file, n)}
  <2>1. L!StrongFiles(n)' = {i \in L!DefiningFiles(n)' : ~L!Weak(linked'[i], n)}
    BY DEF L!StrongFiles
  <2>2. \A i \in L!DefiningFiles(n) : i \in L!Positions
    BY DEF L!DefiningFiles
  <2>3. QED BY <1>2, <1>4, <2>1, <2>2 DEF L!StrongFiles
<1>6. L!ReferringFiles(n)' = L!ReferringFiles(n) \cup {i \in {p} : L!Place(file,
          n) = "undefined"}
  BY <1>2, <1>3 DEF L!ReferringFiles
<1>7. L!Commons(n)' = L!Commons(n) \cup {i \in {p} : L!Place(file, n) = "common"}
  BY <1>2, <1>3 DEF L!Commons
<1>8. QED BY <1>1, <1>2, <1>3, <1>4, <1>5, <1>6, <1>7

\* What a common definition is, and where a place is.
LEMMA LinkKinds ==
    ASSUME NEW file, NEW n
    PROVE  /\ L!Place(file, n) \in {"common", "section", "undefined", "absent"}
           /\ L!Place(file, n) = "common" => ~L!Weak(file, n)
BY DEF L!Place, L!Weak

LEMMA Subsets == ASSUME NEW n
                 PROVE  /\ L!DefiningFiles(n) \subseteq L!Positions
                        /\ L!StrongFiles(n) \subseteq L!DefiningFiles(n)
                        /\ L!Commons(n) \subseteq L!StrongFiles(n)
                        /\ L!ReferringFiles(n) \subseteq L!Positions
BY LinkKinds DEF L!DefiningFiles, L!StrongFiles, L!Commons, L!ReferringFiles

\* A symbol of a file is an entry.
LEMMA SymbolIsEntry ==
    ASSUME NEW file \in L!Files(link), L!IsFile(file), NEW n \in Names, L!Place(file,
           n) # "absent"
    PROVE  /\ L!Symbol(file, n) \in Entries
           /\ L!Symbol(file, n).place = L!Place(file, n)
           /\ L!Symbol(file, n).weak = L!Weak(file, n)
           /\ L!Symbol(file, n).size = file.size[n]
           /\ L!Symbol(file, n).defined = (L!Place(file, n) # "undefined")
           /\ L!Symbol(file, n).file = file.id /\ L!Symbol(file, n).dynamic = FALSE
<1>1. /\ L!Place(file, n) \in {"common", "section", "undefined"} /\ L!Weak(file, n) \in BOOLEAN
      /\ file.size[n] \in Nat /\ file.id \in Ids /\ (L!Place(file, n) # "undefined") \in BOOLEAN
  BY LinkKinds DEF L!Weak, L!IsFile, Ids
<1>2. QED BY <1>1 DEF L!Symbol, Entries

LEMMA EntryIsThere == ASSUME NEW old \in Entries PROVE old # L!Absent
BY DEF Entries, L!Absent

\* A binding that the new file does not change.
LEMMA BindingStays ==
    ASSUME NEW n, NEW w, BoundTo(n, w), \A i \in L!Positions : linked'[i] = linked[i],
           L!StrongFiles(n)' = L!StrongFiles(n), L!DefiningFiles(n)' = L!DefiningFiles(n),
           L!Commons(n)' = L!Commons(n), table'[n] = table[n], link' = link
    PROVE  BoundTo(n, w)'
<1>1. w \in L!Positions /\ linked'[w] = linked[w]
  BY Subsets DEF BoundTo, Binding, First
<1>2. Binding(n, w)'
  BY DEF BoundTo, Binding
<1>3. Sized(n, w)'
  <2>1. \A c \in L!Commons(n) : linked'[c] = linked[c]
    BY Subsets
  <2>2. QED BY <1>1, <2>1 DEF BoundTo, Sized
<1>4. Entries' = Entries
  BY DEF Entries, Ids
<1>5. QED BY <1>1, <1>2, <1>3, <1>4 DEF BoundTo

LEMMA ReferenceStays ==
    ASSUME NEW n, ReferredTo(n), \A i \in L!Positions : linked'[i] = linked[i],
           L!ReferringFiles(n)' = L!ReferringFiles(n), table'[n] = table[n], link' = link,
           step \notin {"objects", "entry"} => step' \notin {"objects", "entry"}
    PROVE  ReferredTo(n)'
<1>1. \A i \in L!ReferringFiles(n) : linked'[i] = linked[i]
  BY Subsets
<1>2. L!Defining(n)' = L!Defining(n) /\ Entries' = Entries
  BY DEF L!Defining, Entries, Ids
<1>3. (\A i \in L!ReferringFiles(n)' : L!Weak(linked'[i], n))
        <=> \A i \in L!ReferringFiles(n) : L!Weak(linked[i], n)
  BY <1>1
<1>4. QED BY <1>2, <1>3 DEF ReferredTo

\* The first definition, or the first strong one.
LEMMA NewBinding ==
    ASSUME LinkTyped, NEW file \in L!Files(link), linked' = Append(linked, file),
           NEW n \in Names,
           NEW p, p = Len(linked) + 1, table'[n] = L!Symbol(file, n), L!IsFile(file),
           L!Place(file, n) \in {"common", "section"}, L!StrongFiles(n) = {},
           L!DefiningFiles(n) = {} \/ ~L!Weak(file, n), link' = link
    PROVE  BoundTo(n, p)'
<1>1. /\ p \in Nat /\ linked'[p] = file
      /\ L!DefiningFiles(n)' = L!DefiningFiles(n) \cup {p}
      /\ L!StrongFiles(n)' = IF L!Weak(file, n) THEN {} ELSE {p}
      /\ L!Commons(n)' = IF L!Place(file, n) = "common" THEN {p} ELSE {}
  BY OneFileMore, Subsets
<1>2. Binding(n, p)'
  BY <1>1 DEF Binding, First
<1>3. /\ table'[n] \in Entries /\ table'[n].place = L!Place(file, n)
      /\ table'[n].weak = L!Weak(file, n) /\ table'[n].size = file.size[n]
      /\ table'[n].defined /\ table'[n].file = file.id /\ ~table'[n].dynamic
  BY SymbolIsEntry
<1>4. table'[n].size \in Nat
  BY <1>3 DEF Entries
<1>5. Sized(n, p)'
  BY <1>1, <1>3, <1>4 DEF Sized
<1>6. Entries' = Entries
  BY DEF Entries, Ids
<1>7. QED BY <1>1, <1>2, <1>3, <1>5, <1>6 DEF BoundTo

LEMMA FirstStays ==
    ASSUME NEW S, NEW w \in Nat, NEW p \in Nat \ {0}, First(S, w), w < p
    PROVE  First(S \cup {p}, w)
BY DEF First

\* One reference more: the name stays weak only as long as all are.
LEMMA ReadsReference ==
    ASSUME LinkTyped, NEW file \in L!Files(link), L!IsFile(file), linked' = Append(linked,
           file),
           NEW n \in Names, L!Place(file, n) = "undefined", L!ReferringFiles(n) # {},
           table'[n] = L!ReadSymbol(table[n], L!Symbol(file, n)), ReferredTo(n), link' = link,
           step \notin {"objects", "entry"} => step' \notin {"objects", "entry"}
    PROVE  ReferredTo(n)'
<1>p. PICK p : p = Len(linked) + 1
  OBVIOUS
<1> DEFINE old == table[n]
           new == L!Symbol(file, n)
<1>1. /\ linked'[p] = file /\ \A i \in L!ReferringFiles(n) : linked'[i] = linked[i]
      /\ L!ReferringFiles(n)' = L!ReferringFiles(n) \cup {p}
  BY <1>p, OneFileMore, Subsets
<1>2. (\A i \in L!ReferringFiles(n)' : L!Weak(linked'[i], n))
        <=> (\A i \in L!ReferringFiles(n) : L!Weak(linked[i], n)) /\ L!Weak(file, n)
  BY <1>1
<1>3. /\ new \in Entries /\ new.place = "undefined" /\ new.weak = L!Weak(file, n)
      /\ ~new.defined
  BY SymbolIsEntry
<1>4. old \in Entries /\ old # L!Absent /\ old.defined = old.dynamic
  BY EntryIsThere DEF ReferredTo
<1> HIDE DEF new
<1>5. table'[n] = L!RedefineSymbol(old, new)
  BY <1>3, <1>4 DEF L!ReadSymbol, new
<1>6. L!Defining(n)' = L!Defining(n) /\ Entries' = Entries
  BY DEF L!Defining, Entries, Ids
<1>7. CASE ~old.defined /\ old.weak /\ ~new.weak
  <2>1. table'[n] = [old EXCEPT !.weak = FALSE, !.size = new.size, !.file = new.file]
    BY <1>3, <1>4, <1>5, <1>7 DEF L!RedefineSymbol
  <2>2. new.size \in Nat /\ new.file \in Ids
    BY <1>3 DEF Entries
  <2>3. /\ table'[n] \in Entries /\ table'[n].place = "undefined"
        /\ table'[n].weak = FALSE /\ table'[n].defined = old.defined
        /\ table'[n].dynamic = old.dynamic
    <3>1. PICK r : r = table'[n]
      OBVIOUS
    <3>2. old.place = "undefined"
      BY DEF ReferredTo
    <3> HIDE DEF old
    <3>3. r = [old EXCEPT !.weak = FALSE, !.size = new.size, !.file = new.file]
      BY <2>1, <3>1
    <3>4. QED BY <1>4, <2>2, <3>1, <3>2, <3>3 DEF Entries
  <2>4. ~ \A i \in L!ReferringFiles(n)' : L!Weak(linked'[i], n)
    BY <1>2, <1>3, <1>7
  <2>5. ~old.dynamic
    BY <1>4, <1>7
  <2>6. QED BY <1>4, <1>6, <2>3, <2>4, <2>5 DEF ReferredTo
<1>8. CASE ~(~old.defined /\ old.weak /\ ~new.weak)
  <2>1. table'[n] = old
    BY <1>3, <1>4, <1>5, <1>8 DEF L!RedefineSymbol
  <2>2. old.weak <=> \A i \in L!ReferringFiles(n)' : L!Weak(linked'[i], n)
    <3>1. old.weak <=> \A i \in L!ReferringFiles(n) : L!Weak(linked[i], n)
      BY DEF ReferredTo
    <3>2. old.defined => ~old.weak
      BY <1>4 DEF ReferredTo
    <3>3. QED BY <1>2, <1>3, <1>8, <3>1, <3>2
  <2>3. QED BY <1>6, <2>1, <2>2 DEF ReferredTo
<1>9. QED BY <1>7, <1>8

\* One definition more: the first strong one stays, the first weak one until then.
LEMMA ReadsDefinition ==
    ASSUME LinkTyped, NEW file \in L!Files(link), L!IsFile(file), linked' = Append(linked,
           file),
           NEW n \in Names, NEW w, BoundTo(n, w), L!Place(file, n) \in {"common", "section"},
           table'[n] = L!ReadSymbol(table[n], L!Symbol(file, n)), link' = link,
           \A i \in L!Positions : L!IsFile(linked[i])
    PROVE  \E v : BoundTo(n, v)'
<1>p. PICK p : p = Len(linked) + 1
  OBVIOUS
<1> DEFINE old == table[n]
           new == L!Symbol(file, n)
<1>1. /\ p \in Nat \ {0} /\ p \notin L!Positions /\ L!Positions \subseteq 1 .. p - 1
      /\ linked'[p] = file /\ \A i \in L!Positions : linked'[i] = linked[i]
      /\ L!DefiningFiles(n)' = L!DefiningFiles(n) \cup {p}
      /\ L!StrongFiles(n)' = L!StrongFiles(n) \cup {i \in {p} : ~L!Weak(file, n)}
      /\ L!Commons(n)' = L!Commons(n) \cup {i \in {p} : L!Place(file, n) = "common"}
  BY <1>p, OneFileMore
<1>2. /\ new \in Entries /\ new.place = L!Place(file, n) /\ new.weak = L!Weak(file, n)
      /\ new.size = file.size[n] /\ new.defined
  BY SymbolIsEntry
<1>3. /\ old \in Entries /\ old.defined /\ old # L!Absent /\ ~old.dynamic
      /\ old.place = L!Place(linked[w], n)
      /\ old.weak = L!Weak(linked[w], n) /\ old.file = linked[w].id
  BY EntryIsThere DEF BoundTo
<1>4. w \in L!DefiningFiles(n) /\ w \in L!Positions /\ linked'[w] = linked[w]
  BY <1>1, Subsets DEF BoundTo, Binding, First
<1>5. w < p /\ w \in Nat
  <2>1. w \in 1 .. p - 1
    BY <1>1, <1>4, Zenon
  <2>2. QED BY <1>1, <2>1
<1> HIDE DEF new
<1>6. table'[n] = L!RedefineSymbol(old, new) /\ Entries' = Entries
  BY <1>2, <1>3 DEF L!ReadSymbol, new, Entries, Ids
<1>7. /\ w \in L!Commons(n) <=> L!Place(linked[w], n) = "common"
      /\ w \in L!StrongFiles(n) <=> ~L!Weak(linked[w], n)
      /\ \A c \in L!Commons(n) : c \in L!Positions /\ linked'[c] = linked[c]
  BY <1>1, <1>4 DEF L!Commons, L!StrongFiles
<1>8. L!StrongFiles(n) = {} <=> L!Weak(linked[w], n)
  <2>1. L!StrongFiles(n) # {} => w \in L!StrongFiles(n)
    BY DEF BoundTo, Binding, First
  <2>2. QED BY <1>7, <2>1
<1>9. CASE L!BothCommon(old, new)
  <2>1. w \in L!Commons(n) /\ L!Place(file, n) = "common" /\ ~L!Weak(file, n)
    BY <1>2, <1>3, <1>7, <1>9, LinkKinds DEF L!BothCommon
  <2>2. w \in L!StrongFiles(n)
    BY <2>1, Subsets
  <2>3. PICK max : max = L!Max({old.size, new.size})
    OBVIOUS
  <2>4. table'[n] = [old EXCEPT !.size = max]
    BY <1>2, <1>3, <1>6, <1>9, <2>3 DEF L!RedefineSymbol
  <2>5. old.size \in Nat /\ new.size \in Nat /\ new.size = file.size[n]
    BY <1>2, <1>3 DEF Entries
  <2>6. max \in Nat /\ max = IF old.size >= new.size THEN old.size ELSE new.size
    BY <2>3, <2>5, MaxOfTwo
  <2>7. /\ table'[n] \in Entries /\ table'[n].size = max /\ table'[n].place = old.place
        /\ table'[n].weak = old.weak /\ table'[n].defined = old.defined
        /\ table'[n].file = old.file /\ table'[n].dynamic = old.dynamic
    <3>1. PICK r : r = table'[n]
      OBVIOUS
    <3> HIDE DEF old
    <3>2. r = [old EXCEPT !.size = max]
      BY <2>4, <3>1
    <3>3. /\ r.size = max /\ r.place = old.place /\ r.weak = old.weak
          /\ r.defined = old.defined /\ r.file = old.file /\ r.dynamic = old.dynamic
      BY <1>3, <3>2 DEF Entries
    <3>4. r \in Entries
      BY <1>3, <2>6, <3>2 DEF Entries
    <3>5. QED BY <3>1, <3>3, <3>4
  <2>8. L!Commons(n)' = L!Commons(n) \cup {p} /\ L!StrongFiles(n)' = L!StrongFiles(n) \cup {p}
    BY <1>1, <2>1
  <2>9. Binding(n, w)'
    <3>1. First(L!StrongFiles(n), w)
      BY <2>2 DEF BoundTo, Binding
    <3>2. First(L!StrongFiles(n) \cup {p}, w)
      BY <1>1, <1>5, <3>1, FirstStays
    <3>3. QED BY <2>8, <3>2 DEF Binding
  <2>10. \A i \in L!Commons(n)' : linked'[i].size[n] <= max
    <3>1. ASSUME NEW i \in L!Commons(n) PROVE linked'[i].size[n] <= max
      <4>1. linked[i].size[n] \in Nat /\ linked[i].size[n] <= old.size /\ linked'[i] = linked[i]
        BY <1>7, <2>1 DEF BoundTo, Sized, L!IsFile
      <4>2. QED BY <2>5, <2>6, <4>1
    <3>2. linked'[p].size[n] <= max
      BY <1>1, <2>5, <2>6
    <3>3. QED BY <2>8, <3>1, <3>2, Zenon
  <2>11. \E i \in L!Commons(n)' : linked'[i].size[n] = max
    <3>1. CASE old.size >= new.size
      <4>1. PICK c \in L!Commons(n) : linked[c].size[n] = old.size
        BY <2>1 DEF BoundTo, Sized
      <4>2. QED BY <1>7, <2>6, <2>8, <3>1, <4>1
    <3>2. CASE ~(old.size >= new.size)
      BY <1>1, <2>5, <2>6, <2>8, <3>2
    <3>3. QED BY <3>1, <3>2
  <2>12. Sized(n, w)'
    BY <2>1, <2>7, <2>8, <2>10, <2>11 DEF Sized
  <2>13. QED BY <1>3, <1>4, <1>6, <2>7, <2>9, <2>12 DEF BoundTo
<1>10. CASE ~L!BothCommon(old, new) /\ old.weak /\ ~new.weak
  <2>1. table'[n] = L!Symbol(file, n)
    BY <1>2, <1>3, <1>6, <1>10 DEF L!RedefineSymbol, new
  <2>2. L!StrongFiles(n) = {} /\ ~L!Weak(file, n)
    BY <1>2, <1>3, <1>8, <1>10
  <2>3. BoundTo(n, p)'
    BY <1>p, <2>1, <2>2, NewBinding
  <2>4. QED BY <2>3
<1>11. CASE ~L!BothCommon(old, new) /\ ~(old.weak /\ ~new.weak)
  <2>1. table'[n] = old
    BY <1>2, <1>3, <1>6, <1>11 DEF L!RedefineSymbol
  <2>2. Binding(n, w)'
    <3>1. CASE L!Weak(linked[w], n)
      <4>1. L!Weak(file, n) /\ L!StrongFiles(n) = {}
        BY <1>2, <1>3, <1>8, <1>11, <3>1
      <4>2. L!StrongFiles(n)' = {} /\ First(L!DefiningFiles(n), w)
        BY <1>1, <4>1 DEF BoundTo, Binding
      <4>3. First(L!DefiningFiles(n) \cup {p}, w)
        BY <1>1, <1>5, <4>2, FirstStays
      <4>4. QED BY <1>1, <4>2, <4>3 DEF Binding
    <3>2. CASE ~L!Weak(linked[w], n)
      <4>1. First(L!StrongFiles(n), w) /\ L!StrongFiles(n) # {}
        BY <1>8, <3>2 DEF BoundTo, Binding
      <4>2. L!StrongFiles(n)' = L!StrongFiles(n)
                \/ L!StrongFiles(n)' = L!StrongFiles(n) \cup {p}
        BY <1>1
      <4>3. First(L!StrongFiles(n) \cup {p}, w)
        BY <1>1, <1>5, <4>1, FirstStays
      <4>4. First(L!StrongFiles(n)', w)
        BY <4>1, <4>2, <4>3, Zenon
      <4>5. L!StrongFiles(n)' # {}
        BY <4>1, <4>2
      <4>6. QED BY <4>4, <4>5 DEF Binding
    <3>3. QED BY <3>1, <3>2
  <2>3. Sized(n, w)'
    <3>1. CASE w \in L!Commons(n)
      <4>1. L!Commons(n)' = L!Commons(n)
        BY <1>1, <1>2, <1>3, <1>7, <1>11, <3>1 DEF L!BothCommon
      <4>2. QED BY <1>7, <2>1, <3>1, <4>1 DEF BoundTo, Sized
    <3>2. CASE w \notin L!Commons(n)
      <4>1. w \notin L!Commons(n)'
        BY <1>1, <1>4, <3>2
      <4>2. QED BY <1>4, <2>1, <3>2, <4>1 DEF BoundTo, Sized
    <3>3. QED BY <3>1, <3>2
  <2>4. BoundTo(n, w)'
    BY <1>3, <1>4, <1>6, <2>1, <2>2, <2>3 DEF BoundTo
  <2>5. QED BY <2>4
<1>12. QED BY <1>9, <1>10, <1>11

\* What the table says of a name when a file is read.
LEMMA ReadsOne ==
    ASSUME LinkTyped, NEW file \in L!Files(link), L!IsFile(file), linked' = Append(linked,
           file),
           NEW n \in Names, table'[n] = L!ReadSymbol(table[n], L!Symbol(file, n)),
           Bound(n), link' = link,
           step \notin {"objects", "entry"} => step' \notin {"objects", "entry"},
           L!Place(file, n) \in {"common", "section"} /\ ReferredTo(n) => ~table[n].dynamic,
           \A i \in L!Positions : L!IsFile(linked[i])
    PROVE  Bound(n)'
<1>p. PICK p : p = Len(linked) + 1
  OBVIOUS
<1> DEFINE old == table[n]
           new == L!Symbol(file, n)
<1>1. /\ p \in Nat \ {0} /\ p \notin L!Positions /\ L!Positions \subseteq 1 .. p - 1
      /\ linked'[p] = file /\ \A i \in L!Positions : linked'[i] = linked[i]
      /\ L!Positions' = L!Positions \cup {p}
      /\ L!DefiningFiles(n)' = L!DefiningFiles(n) \cup
            {i \in {p} : L!Place(file, n) \in {"common", "section"}}
      /\ L!StrongFiles(n)' = L!StrongFiles(n) \cup
            {i \in {p} : L!Place(file, n) \in {"common", "section"} /\ ~L!Weak(file, n)}
      /\ L!ReferringFiles(n)' = L!ReferringFiles(n) \cup {i \in {p} : L!Place(file,
             n) = "undefined"}
      /\ L!Commons(n)' = L!Commons(n) \cup {i \in {p} : L!Place(file, n) = "common"}
  BY <1>p, OneFileMore
<1>2. CASE L!Place(file, n) = "absent"
  <2>1. table'[n] = table[n]
    BY <1>2 DEF L!ReadSymbol, L!Symbol
  <2>2. /\ L!DefiningFiles(n)' = L!DefiningFiles(n) /\ L!StrongFiles(n)' = L!StrongFiles(n)
        /\ L!ReferringFiles(n)' = L!ReferringFiles(n) /\ L!Commons(n)' = L!Commons(n)
    BY <1>1, <1>2
  <2>3. \A w : BoundTo(n, w) => BoundTo(n, w)'
    BY <1>1, <2>1, <2>2, BindingStays
  <2>4. ReferredTo(n) => ReferredTo(n)'
    BY <1>1, <2>1, <2>2, ReferenceStays
  <2>5. QED BY <2>1, <2>2, <2>3, <2>4 DEF Bound
<1>3. CASE L!Place(file, n) # "absent"
  <2>1. /\ new \in Entries /\ new.place = L!Place(file, n) /\ new.weak = L!Weak(file, n)
        /\ new.defined = (L!Place(file, n) # "undefined") /\ ~new.dynamic
    BY <1>3, SymbolIsEntry
  <2> HIDE DEF new
  <2>2. CASE L!Place(file, n) = "undefined"
    <3>1. /\ L!DefiningFiles(n)' = L!DefiningFiles(n) /\ L!StrongFiles(n)' = L!StrongFiles(n)
          /\ L!ReferringFiles(n)' = L!ReferringFiles(n) \cup {p} /\ L!Commons(n)' = L!Commons(n)
      BY <1>1, <2>2
    <3>2. CASE L!DefiningFiles(n) # {}
      <4>1. PICK w : BoundTo(n, w)
        BY <3>2 DEF Bound
      <4>2. old.defined /\ old # L!Absent
        BY <4>1, EntryIsThere DEF BoundTo
      <4>3. table'[n] = table[n]
        BY <2>1, <2>2, <4>2 DEF L!ReadSymbol, L!RedefineSymbol, new
      <4>4. BoundTo(n, w)'
        BY <1>1, <3>1, <4>1, <4>3, BindingStays
      <4>5. QED BY <3>1, <3>2, <4>4 DEF Bound
    <3>3. CASE L!DefiningFiles(n) = {} /\ L!ReferringFiles(n) # {}
      <4>1. ReferredTo(n)
        BY <3>3 DEF Bound
      <4>2. ReferredTo(n)'
        BY <2>2, <3>3, <4>1, ReadsReference
      <4>3. QED BY <3>1, <3>3, <4>2 DEF Bound
    <3>4. CASE L!DefiningFiles(n) = {} /\ L!ReferringFiles(n) = {}
      <4>1. table'[n] = new
        <5>1. old = L!Absent
          BY <3>4 DEF Bound
        <5>2. QED BY <2>1, <2>2, <5>1 DEF L!ReadSymbol, new
      <4>2. L!ReferringFiles(n)' = {p} /\ Entries' = Entries
        BY <3>1, <3>4 DEF Entries, Ids
      <4>3. (\A i \in L!ReferringFiles(n)' : L!Weak(linked'[i], n)) <=> L!Weak(file, n)
        BY <1>1, <4>2
      <4>4. /\ table'[n] \in Entries /\ table'[n].place = "undefined" /\ ~table'[n].defined
            /\ ~table'[n].dynamic /\ table'[n].weak = L!Weak(file, n)
        BY <2>1, <2>2, <4>1
      <4>5. table'[n].defined = table'[n].dynamic
        BY <4>4 DEF Entries
      <4>6. ReferredTo(n)'
        BY <4>2, <4>3, <4>4, <4>5 DEF ReferredTo
      <4>7. QED BY <3>1, <3>4, <4>2, <4>6 DEF Bound
    <3>5. QED BY <3>2, <3>3, <3>4
  <2>3. CASE L!Place(file, n) \in {"common", "section"}
    <3>1. L!DefiningFiles(n)' # {} /\ new.defined
      BY <1>1, <2>1, <2>3
    <3>2. CASE L!DefiningFiles(n) # {}
      <4>1. PICK w : BoundTo(n, w)
        BY <3>2 DEF Bound
      <4>2. \E v : BoundTo(n, v)'
        BY <2>3, <4>1, ReadsDefinition
      <4>3. QED BY <3>1, <4>2 DEF Bound
    <3>3. CASE L!DefiningFiles(n) = {}
      <4>1. table'[n] = L!Symbol(file, n)
        <5>1. CASE L!ReferringFiles(n) # {}
          <6>1. ReferredTo(n)
            BY <3>3, <5>1 DEF Bound
          <6>2. old # L!Absent /\ ~ old.defined
            BY <2>3, <6>1, EntryIsThere DEF ReferredTo
          <6>3. QED BY <1>3, <2>1, <3>1, <6>2 DEF L!ReadSymbol, L!RedefineSymbol, new
        <5>2. CASE L!ReferringFiles(n) = {}
          <6>1. old = L!Absent
            BY <3>3, <5>2 DEF Bound
          <6>2. QED BY <1>3, <2>1, <6>1 DEF L!ReadSymbol, new
        <5>3. QED BY <5>1, <5>2
      <4>2. BoundTo(n, p)'
        <5>1. L!StrongFiles(n) = {}
          BY <3>3, Subsets
        <5>2. QED BY <1>p, <2>3, <3>3, <4>1, <5>1, NewBinding
      <4>3. QED BY <3>1, <4>2 DEF Bound
    <3>4. QED BY <3>2, <3>3
  <2>4. QED BY <1>3, <2>2, <2>3, LinkKinds
<1>4. QED BY <1>2, <1>3

\* What always holds of a link.

FromObjects ==
    step \in {"objects", "entry"} =>
        /\ before = 0 /\ Len(linked) <= Len(link.objects)
        /\ Len(linked) = IF step = "objects" THEN position - 1 ELSE Len(link.objects)
        /\ \A i \in L!Positions : linked[i] = link.objects[i]

Settled(n) == L!LeftBehind(n) => \E i \in L!ReferringFiles(n) : L!Weak(linked[i], n)

\* A pass that has added no name so far has settled those it came to.
Passes ==
    /\ step = "begin" => before < L!SymbolCount
    /\ step = "pass" =>
          /\ before <= L!SymbolCount
          /\ L!SymbolCount = before =>
                \A k \in DOMAIN link.order : k < position => Settled(link.order[k])
    /\ L!Resolved => \A n \in Names : Settled(n)

Linked ==
    /\ LinkTyped /\ L!DuplicatesReported /\ L!MembersLinkedOnceWhenNeeded
    /\ FromObjects /\ Passes
    /\ \A n \in Names : Bound(n)

LEMMA FilesOfLink ==
    ASSUME L!LinkerConstants, LinkTyped
    PROVE  /\ L!IsLink(link)
           /\ \A f \in L!Files(link) : L!IsFile(f)
           /\ \A i \in L!Positions : linked[i] \in L!Files(link)
           /\ \A n : L!Defining(n) # {} =>
                 /\ L!FindInStaticLibraries(n) \in L!Files(link)
                 /\ L!FindInStaticLibraries(n) \in L!Range(link.members)
                 /\ L!FindInStaticLibraries(n) \notin L!Range(link.objects)
                 /\ L!Place(L!FindInStaticLibraries(n), n) \in {"common", "section"}
<1>1. L!IsLink(link)
  BY DEF L!LinkerConstants, LinkTyped
<1>2. \A i \in L!Positions : linked[i] \in L!Files(link)
  BY DEF LinkTyped, L!Positions
<1>3. ASSUME NEW n, L!Defining(n) # {}
      PROVE  /\ L!FindInStaticLibraries(n) \in L!Range(link.members)
             /\ L!Place(L!FindInStaticLibraries(n), n) \in {"common", "section"}
  <2>1. L!Defining(n) \subseteq DOMAIN link.members /\ DOMAIN link.members \subseteq Nat
    BY <1>1 DEF L!Defining, L!IsLink
  <2>2. L!Min(L!Defining(n)) \in L!Defining(n)
    BY <1>3, <2>1, MinOf
  <2>3. QED BY <2>1, <2>2 DEF L!FindInStaticLibraries, L!Defining, L!Range
<1>4. QED BY <1>1, <1>2, <1>3 DEF L!IsLink, L!Files

LEMMA Present ==
    ASSUME NEW n, Bound(n)
    PROVE  /\ table[n] # L!Absent <=> L!DefiningFiles(n) # {} \/ L!ReferringFiles(n) # {}
           /\ L!DefiningFiles(n) # {} => table[n].defined
BY EntryIsThere DEF Bound, BoundTo, ReferredTo

\* A name the passes look for has a strong reference and no definition.
LEMMA Wants ==
    ASSUME NEW n, Bound(n), L!Wanted(n)
    PROVE  /\ L!DefiningFiles(n) = {} /\ ReferredTo(n) /\ ~table[n].dynamic
           /\ \E j \in L!ReferringFiles(n) : ~L!Weak(linked[j], n)
<1>1. L!DefiningFiles(n) = {} /\ L!ReferringFiles(n) # {}
  BY Present DEF L!Wanted
<1>2. ReferredTo(n)
  BY <1>1 DEF Bound
<1>3. QED BY <1>1, <1>2 DEF L!Wanted, ReferredTo

\* The table only grows; where its size is the same it has the same names.
LEMMA Counting ==
    ASSUME L!LinkerConstants, \A n \in Names : table[n] # L!Absent => table'[n] # L!Absent
    PROVE  /\ L!SymbolCount \in Nat /\ L!SymbolCount' \in Nat /\ L!SymbolCount <= L!SymbolCount'
           /\ L!SymbolCount' = L!SymbolCount =>
                 \A n \in Names : table'[n] # L!Absent => table[n] # L!Absent
<1> DEFINE Old == {n \in Names : table[n] # L!Absent}
           New == {n \in Names : table'[n] # L!Absent}
<1>1. IsFiniteSet(Names) /\ Old \subseteq New /\ New \subseteq Names
  BY DEF L!LinkerConstants
<1>2. IsFiniteSet(New) /\ IsFiniteSet(Old)
  BY <1>1, FS_Subset
<1>3. /\ Cardinality(Old) \in Nat /\ Cardinality(New) \in Nat
      /\ Cardinality(Old) <= Cardinality(New)
      /\ Cardinality(New) = Cardinality(Old) => Old = New
  BY <1>1, <1>2, FS_Subset, FS_CardinalityType
<1>4. L!SymbolCount = Cardinality(Old) /\ L!SymbolCount' = Cardinality(New)
  BY DEF L!SymbolCount, L!Absent
<1>5. QED BY <1>3, <1>4

LEMMA CountOfSome ==
    ASSUME L!LinkerConstants, NEW n \in Names, table[n] # L!Absent
    PROVE  L!SymbolCount > 0
<1> DEFINE Old == {m \in Names : table[m] # L!Absent}
<1>1. IsFiniteSet(Old) /\ Old # {}
  BY FS_Subset DEF L!LinkerConstants
<1>2. Cardinality(Old) \in Nat /\ Cardinality(Old) # 0
  BY <1>1, FS_EmptySet, FS_CardinalityType
<1>3. QED BY <1>2 DEF L!SymbolCount

\* What reading a file does to the table and the errors.
LEMMA ReadsTable ==
    ASSUME L!LinkerConstants, Linked, NEW file \in L!Files(link), L!ReadFile(file),
           link' = link,
           step \notin {"objects", "entry"} => step' \notin {"objects", "entry"},
           \A n \in Names : L!Place(file, n) \in {"common", "section"} /\ ReferredTo(n)
                               => ~table[n].dynamic
    PROVE  /\ linked' \in Seq(L!Files(link)) /\ table' = [n \in Names |-> table'[n]]
           /\ \A n \in Names : Bound(n)'
           /\ \A n \in Names : table[n] # L!Absent => table'[n] # L!Absent
<1>1. /\ LinkTyped /\ linked' = Append(linked, file) /\ L!IsFile(file)
      /\ \A i \in L!Positions : L!IsFile(linked[i])
  BY FilesOfLink DEF Linked, L!ReadFile
<1>2. \A n \in Names : table'[n] = L!ReadSymbol(table[n], L!Symbol(file, n))
  BY DEF L!ReadFile
<1>3. ASSUME NEW n \in Names PROVE Bound(n)'
  <2>1. table'[n] = L!ReadSymbol(table[n], L!Symbol(file, n)) /\ Bound(n)
    BY <1>2 DEF Linked
  <2>2. L!Place(file, n) \in {"common", "section"} /\ ReferredTo(n) => ~table[n].dynamic
    OBVIOUS
  <2>3. QED BY <1>1, <2>1, <2>2, ReadsOne, Zenon
<1>4. ASSUME NEW n \in Names, table[n] # L!Absent PROVE table'[n] # L!Absent
  <2>1. L!DefiningFiles(n) # {} \/ L!ReferringFiles(n) # {}
    BY <1>4, Present DEF Linked
  <2>2. PICK p : p = Len(linked) + 1
    OBVIOUS
  <2>3. L!DefiningFiles(n) \subseteq L!DefiningFiles(n)'
            /\ L!ReferringFiles(n) \subseteq L!ReferringFiles(n)'
    BY <1>1, <2>2, OneFileMore
  <2>4. L!DefiningFiles(n)' # {} \/ L!ReferringFiles(n)' # {}
    BY <2>1, <2>3
  <2>5. CASE L!DefiningFiles(n)' # {}
    <3>1. PICK w : BoundTo(n, w)'
      BY <1>3, <2>5 DEF Bound
    <3>2. QED BY <3>1 DEF BoundTo, Entries, L!Absent
  <2>6. CASE L!DefiningFiles(n)' = {}
    <3>1. ReferredTo(n)'
      BY <1>3, <2>4, <2>6 DEF Bound
    <3>2. QED BY <3>1 DEF ReferredTo, Entries, L!Absent
  <2>7. QED BY <2>5, <2>6
<1>5. linked' \in Seq(L!Files(link))
  BY <1>1 DEF LinkTyped
<1>6. table' = [n \in Names |-> table'[n]]
  BY DEF L!ReadFile
<1>7. QED BY <1>3, <1>4, <1>5, <1>6

\* Two strong definitions that are not commons both.
Pair(n) ==
    \E i \in L!StrongFiles(n) : \E j \in L!StrongFiles(n) :
        i < j /\ ~(i \in L!Commons(n) /\ j \in L!Commons(n))

Collision(file, n) ==
    table[n] # L!Absent /\ L!Place(file, n) # "absent" /\ L!Duplicate(table[n],
        L!Symbol(file, n))

LEMMA PairsGrow ==
    ASSUME LinkTyped, NEW file, linked' = Append(linked, file), NEW n
    PROVE  Pair(n)' <=>
              \/ Pair(n)
              \/ /\ L!Place(file, n) \in {"common", "section"} /\ ~L!Weak(file, n)
                 /\ \E i \in L!StrongFiles(n) : ~(i \in L!Commons(n) /\ L!Place(file,
                        n) = "common")
<1>p. PICK p : p = Len(linked) + 1
  OBVIOUS
<1>1. /\ p \in Nat \ {0} /\ p \notin L!Positions /\ L!Positions \subseteq 1 .. p - 1
      /\ L!StrongFiles(n)' = L!StrongFiles(n) \cup
            {i \in {p} : L!Place(file, n) \in {"common", "section"} /\ ~L!Weak(file, n)}
      /\ L!Commons(n)' = L!Commons(n) \cup {i \in {p} : L!Place(file, n) = "common"}
  BY <1>p, OneFileMore
<1>2. \A i \in L!StrongFiles(n) : i \in Nat /\ i < p
  <2>1. \A i \in L!StrongFiles(n) : i \in 1 .. p - 1
    BY <1>1, Subsets
  <2>2. QED BY <1>1, <2>1
<1>3. p \notin L!StrongFiles(n) /\ p \notin L!Commons(n)
  BY <1>1, Subsets
<1>4. Pair(n) => Pair(n)'
  BY <1>1, <1>2, <1>3 DEF Pair
<1>5. ASSUME L!Place(file, n) \in {"common", "section"}, ~L!Weak(file, n),
             NEW i \in L!StrongFiles(n), ~(i \in L!Commons(n) /\ L!Place(file, n) = "common")
      PROVE  Pair(n)'
  <2>1. i \in L!StrongFiles(n)' /\ p \in L!StrongFiles(n)' /\ i < p
    BY <1>1, <1>2, <1>5
  <2>2. ~(i \in L!Commons(n)' /\ p \in L!Commons(n)')
    BY <1>1, <1>2, <1>3, <1>5
  <2>3. QED BY <2>1, <2>2 DEF Pair
<1>6. ASSUME Pair(n)', ~Pair(n)
      PROVE  /\ L!Place(file, n) \in {"common", "section"} /\ ~L!Weak(file, n)
             /\ \E i \in L!StrongFiles(n) : ~(i \in L!Commons(n) /\ L!Place(file, n) = "common")
  <2>1. PICK i \in L!StrongFiles(n)', j \in L!StrongFiles(n)' :
                i < j /\ ~(i \in L!Commons(n)' /\ j \in L!Commons(n)')
    BY <1>6 DEF Pair
  <2>2. ~(i \in L!StrongFiles(n) /\ j \in L!StrongFiles(n))
    BY <1>1, <1>6, <2>1 DEF Pair
  <2>3. i \in L!StrongFiles(n) /\ j = p
    BY <1>1, <1>2, <2>1, <2>2
  <2>4. L!Place(file, n) \in {"common", "section"} /\ ~L!Weak(file, n)
    BY <1>1, <1>3, <2>1, <2>3
  <2>5. ~(i \in L!Commons(n) /\ L!Place(file, n) = "common")
    BY <1>1, <2>1, <2>3
  <2>6. QED BY <2>3, <2>4, <2>5
<1>7. QED BY <1>4, <1>5, <1>6

\* A second strong definition is noticed unless an earlier one was.
LEMMA PairsAreNoticed ==
    ASSUME LinkTyped, NEW file \in L!Files(link), L!IsFile(file), NEW n \in Names, Bound(n),
           L!Place(file, n) \in {"common", "section"} /\ ReferredTo(n) => ~table[n].dynamic
    PROVE  Pair(n) \/ Collision(file, n) <=>
              \/ Pair(n)
              \/ /\ L!Place(file, n) \in {"common", "section"} /\ ~L!Weak(file, n)
                 /\ \E i \in L!StrongFiles(n) : ~(i \in L!Commons(n) /\ L!Place(file,
                        n) = "common")
<1> DEFINE new == L!Symbol(file, n)
<1>1. CASE L!Place(file, n) = "absent"
  BY <1>1 DEF Collision
<1>2. CASE L!Place(file, n) # "absent"
  <2>1. /\ new.place = L!Place(file, n) /\ new.weak = L!Weak(file, n)
        /\ new.defined = (L!Place(file, n) # "undefined")
        /\ L!Place(file, n) \in {"common", "section", "undefined"}
    BY <1>2, SymbolIsEntry, LinkKinds
  <2> HIDE DEF new
  <2>2. CASE L!DefiningFiles(n) = {}
    <3>1. L!StrongFiles(n) = {}
      BY <2>2, Subsets
    <3>2. ASSUME Collision(file, n) PROVE FALSE
      <4>1. table[n] # L!Absent /\ new.defined /\ table[n].defined
        BY <3>2 DEF Collision, L!Duplicate, new
      <4>2. ReferredTo(n)
        BY <2>2, <4>1 DEF Bound
      <4>3. ~table[n].dynamic
        BY <2>1, <4>1, <4>2
      <4>4. QED BY <4>1, <4>2, <4>3 DEF ReferredTo
    <3>3. QED BY <3>1, <3>2
  <2>3. CASE L!DefiningFiles(n) # {}
    <3>1. PICK w : BoundTo(n, w)
      BY <2>3 DEF Bound
    <3>2. /\ table[n] # L!Absent /\ table[n].defined
          /\ table[n].place = L!Place(linked[w], n) /\ table[n].weak = L!Weak(linked[w], n)
      BY <3>1, EntryIsThere DEF BoundTo
    <3>3. Collision(file, n) <=>
             /\ L!Place(file, n) # "undefined" /\ ~L!Weak(file, n) /\ ~L!Weak(linked[w], n)
             /\ ~(L!Place(linked[w], n) = "common" /\ L!Place(file, n) = "common")
      BY <1>2, <2>1, <3>2 DEF Collision, L!Duplicate, L!BothCommon, new
    <3>4. /\ w \in L!DefiningFiles(n) /\ w \in L!Positions
          /\ w \in L!StrongFiles(n) <=> ~L!Weak(linked[w], n)
          /\ w \in L!Commons(n) <=> L!Place(linked[w], n) = "common"
      BY <3>1, Subsets DEF BoundTo, Binding, First, L!StrongFiles, L!Commons
    <3>5. L!StrongFiles(n) # {} => w \in L!StrongFiles(n) /\ \A i \in L!StrongFiles(n) : w <= i
      BY <3>1 DEF BoundTo, Binding, First
    <3>6. ASSUME ~Pair(n), ~Collision(file, n), L!Place(file, n) \in {"common", "section"},
                 ~L!Weak(file, n), NEW i \in L!StrongFiles(n),
                 ~(i \in L!Commons(n) /\ L!Place(file, n) = "common")
          PROVE  FALSE
      <4>1. w \in L!StrongFiles(n) /\ w <= i /\ w \in L!Commons(n) /\ L!Place(file,
                n) = "common"
        BY <3>3, <3>4, <3>5, <3>6
      <4>2. i \notin L!Commons(n) /\ i # w
        BY <3>6, <4>1
      <4>3. w \in Nat /\ i \in Nat
        BY <3>6, <4>1, Subsets DEF L!Positions, LinkTyped
      <4>4. w < i
        BY <4>1, <4>2, <4>3
      <4>5. QED BY <3>6, <4>1, <4>2, <4>4 DEF Pair
    <3>7. QED BY <2>1, <3>3, <3>4, <3>6
  <2>4. QED BY <2>2, <2>3
<1>3. QED BY <1>1, <1>2

LEMMA ReadsErrors ==
    ASSUME L!LinkerConstants, Linked, NEW file \in L!Files(link), L!ReadFile(file),
           \A n \in Names : L!Place(file, n) \in {"common", "section"} /\ ReferredTo(n)
                               => ~table[n].dynamic
    PROVE  L!DuplicatesReported'
<1>1. LinkTyped /\ linked' = Append(linked, file) /\ L!IsFile(file)
  BY FilesOfLink DEF Linked, L!ReadFile
<1>2. ASSUME NEW n \in Names
      PROVE  <<"Multiple definition", n>> \in errors' <=> Pair(n)'
  <2>1. <<"Multiple definition", n>> \in errors <=> Pair(n)
    BY DEF Linked, L!DuplicatesReported, Pair
  <2>2. errors' = errors \cup {<<"Multiple definition",
            m>> : m \in {m \in Names : Collision(file, m)}}
    BY DEF L!ReadFile, Collision
  <2>3. <<"Multiple definition", n>> \in errors' <=>
           <<"Multiple definition", n>> \in errors \/ Collision(file, n)
    BY <2>2
  <2>4. Pair(n) \/ Collision(file, n) <=> Pair(n)'
    <3>1. Bound(n)
      BY DEF Linked
    <3>2. QED BY <1>1, <3>1, PairsGrow, PairsAreNoticed
  <2>5. QED BY <2>1, <2>3, <2>4
<1>3. QED BY <1>2 DEF L!DuplicatesReported, Pair

\* What a file read does to what was settled, while it brings no name.
LEMMA SettledStays ==
    ASSUME LinkTyped, NEW file, linked' = Append(linked, file), NEW n, Bound(n), Bound(n)',
           Settled(n), table'[n] # L!Absent => table[n] # L!Absent, link' = link,
           table'[n] = L!ReadSymbol(table[n], L!Symbol(file, n))
    PROVE  Settled(n)'
<1> SUFFICES ASSUME L!LeftBehind(n)' PROVE \E i \in L!ReferringFiles(n)' : L!Weak(linked'[i], n)
  BY DEF Settled
<1>1. L!Wanted(n)' /\ table[n] # L!Absent
  BY DEF L!LeftBehind, L!Wanted, L!Absent
<1>2. PICK p : p = Len(linked) + 1
  OBVIOUS
<1>3. /\ L!DefiningFiles(n) \subseteq L!DefiningFiles(n)'
      /\ L!ReferringFiles(n) \subseteq L!ReferringFiles(n)'
      /\ \A i \in L!ReferringFiles(n) : linked'[i] = linked[i]
      /\ L!DefiningFiles(n)' = L!DefiningFiles(n) \cup
            {i \in {p} : L!Place(file, n) \in {"common", "section"}}
  BY <1>2, OneFileMore, Subsets
<1>4. L!DefiningFiles(n)' = {}
  <2>1. CASE L!DefiningFiles(n)' # {}
    <3>1. PICK w : BoundTo(n, w)'
      BY <2>1 DEF Bound
    <3>2. QED BY <1>1, <3>1 DEF BoundTo, L!Wanted
  <2>2. QED BY <2>1
<1>5. L!DefiningFiles(n) = {} /\ L!ReferringFiles(n) # {} /\ ReferredTo(n)
  BY <1>1, <1>3, <1>4, Present DEF Bound
<1>6. SUFFICES \E i \in L!ReferringFiles(n) : L!Weak(linked[i], n)
  BY <1>3
<1>7. CASE table[n].weak
  BY <1>5, <1>7 DEF ReferredTo
<1>8. CASE ~table[n].weak /\ table[n].defined
  <2>1. L!Place(file, n) \in {"absent", "undefined"}
    BY <1>3, <1>4, LinkKinds
  <2>2. L!Symbol(file, n).place = L!Place(file, n)
        /\ L!Symbol(file, n).defined = (L!Place(file, n) # "undefined")
    BY DEF L!Symbol
  <2>3. table'[n] = table[n]
    BY <1>1, <1>8, <2>1, <2>2 DEF L!ReadSymbol, L!RedefineSymbol
  <2>4. QED BY <1>1, <1>8, <2>3 DEF L!Wanted
<1>9. CASE ~table[n].weak /\ ~table[n].defined
  <2>1. L!Defining(n)' = L!Defining(n)
    BY DEF L!Defining
  <2>2. L!LeftBehind(n)
    BY <1>1, <1>9, <2>1 DEF L!LeftBehind, L!Wanted
  <2>3. QED BY <2>2 DEF Settled
<1>10. QED BY <1>7, <1>8, <1>9

\* Reading a member that is wanted, and not one that was linked already.
LEMMA ReadsMember ==
    ASSUME L!LinkerConstants, Linked, NEW n \in Names, L!Defining(n) # {}, NEW file,
           file = L!FindInStaticLibraries(n), linked' = Append(linked, file), link' = link,
           n = Entry \/ \E j \in L!ReferringFiles(n) : ~L!Weak(linked[j], n),
           L!DefiningFiles(n) = {} \/ step = "entry"
    PROVE  L!MembersLinkedOnceWhenNeeded'
<1>1. LinkTyped /\ L!MembersLinkedOnceWhenNeeded
  BY DEF Linked
<1>2. PICK p : p = Len(linked) + 1
  OBVIOUS
<1>3. /\ p \notin L!Positions /\ linked'[p] = file /\ L!Positions' = L!Positions \cup {p}
      /\ \A i \in L!Positions : linked'[i] = linked[i]
  BY <1>1, <1>2, OneFileMore
<1>4. \A m : /\ L!ReferringFiles(m) \subseteq L!Positions
             /\ L!ReferringFiles(m) \subseteq L!ReferringFiles(m)'
  BY <1>1, <1>2, OneFileMore, Subsets
<1>5. /\ file \in L!Files(link) /\ file \in L!Range(link.members)
      /\ file \notin L!Range(link.objects) /\ L!Place(file, n) \in {"common", "section"}
      /\ \A i \in L!Positions : linked[i] \in L!Files(link)
      /\ \A f, g \in L!Files(link) : f.id = g.id => f = g
  BY <1>1, FilesOfLink DEF L!IsLink
<1>6. \A i \in L!Positions : linked[i] # file
  <2>1. CASE L!DefiningFiles(n) = {}
    BY <1>5, <2>1 DEF L!DefiningFiles
  <2>2. CASE step = "entry"
    <3>1. \A i \in L!Positions : linked[i] = link.objects[i] /\ i \in DOMAIN link.objects
      <4>1. L!Positions = 1 .. Len(linked) /\ Len(linked) = Len(link.objects)
            /\ \A i \in L!Positions : linked[i] = link.objects[i]
        BY <2>2 DEF Linked, FromObjects, LinkTyped, L!Positions
      <4>2. link.objects \in Seq(L!Files(link))
        BY <1>1, FilesOfLink DEF L!IsLink
      <4>3. QED BY <4>1, <4>2
    <3>2. QED BY <1>5, <3>1 DEF L!Range
  <2>3. QED BY <2>1, <2>2
<1>7. \A i, j \in L!Positions' : i # j => linked'[i].id # linked'[j].id
  <2>1. \A i \in L!Positions : linked[i].id # file.id
    BY <1>5, <1>6
  <2>2. \A i, j \in L!Positions : i # j => linked[i].id # linked[j].id
    BY <1>1 DEF L!MembersLinkedOnceWhenNeeded
  <2>3. ASSUME NEW i \in L!Positions', NEW j \in L!Positions', i # j
        PROVE  linked'[i].id # linked'[j].id
    <3>1. CASE i \in L!Positions /\ j \in L!Positions
      BY <1>3, <2>2, <2>3, <3>1
    <3>2. CASE i = p \/ j = p
      BY <1>3, <2>1, <2>3, <3>2
    <3>3. QED BY <1>3, <3>1, <3>2
  <2>4. QED BY <2>3
<1>8. \A m : /\ L!Defining(m)' = L!Defining(m)
             /\ L!FindInStaticLibraries(m)' = L!FindInStaticLibraries(m)
  BY DEF L!Defining, L!FindInStaticLibraries
<1>9. ASSUME NEW i \in L!Positions', linked'[i] \in L!Range(link.members)
      PROVE  \E m \in Names :
                /\ L!Defining(m) # {} /\ L!FindInStaticLibraries(m) = linked'[i]
                /\ \/ m = Entry
                   \/ \E j \in L!ReferringFiles(m)' : j # i /\ ~L!Weak(linked'[j], m)
  <2>1. CASE i \in L!Positions
    <3>1. linked'[i] = linked[i]
      BY <1>3, <2>1
    <3>2. PICK m \in Names : /\ L!Defining(m) # {} /\ L!FindInStaticLibraries(m) = linked[i]
                             /\ \/ m = Entry
                                \/ \E j \in L!ReferringFiles(m) : j # i /\ ~L!Weak(linked[j], m)
      BY <1>1, <1>9, <2>1, <3>1 DEF L!MembersLinkedOnceWhenNeeded
    <3>3. \A j \in L!ReferringFiles(m) : linked'[j] = linked[j] /\ j \in L!ReferringFiles(m)'
      BY <1>3, <1>4
    <3>4. QED BY <3>1, <3>2, <3>3
  <2>2. CASE i = p
    <3>1. \A j \in L!ReferringFiles(n) : linked'[j] = linked[j]
              /\ j \in L!ReferringFiles(n)' /\ j # p
      BY <1>3, <1>4
    <3>2. QED BY <1>3, <2>2, <3>1
  <2>3. QED BY <1>3, <2>1, <2>2
<1>10. QED BY <1>7, <1>8, <1>9 DEF L!MembersLinkedOnceWhenNeeded

\* While only objects were read, no member is linked and none twice.
LEMMA ReadsObject ==
    ASSUME L!LinkerConstants, Linked, step = "objects", position <= Len(link.objects),
           NEW file, file = link.objects[position], linked' = Append(linked, file),
           link' = link, step' = "objects", position' = position + 1, before' = before
    PROVE  FromObjects' /\ L!MembersLinkedOnceWhenNeeded' /\ file \in L!Files(link)
<1>1. /\ LinkTyped /\ before = 0 /\ Len(linked) = position - 1
      /\ \A i \in L!Positions : linked[i] = link.objects[i]
  BY DEF Linked, FromObjects
<1>2. /\ link.objects \in Seq(L!Files(link)) /\ position \in 1 .. Len(link.objects)
      /\ DOMAIN link.objects = 1 .. Len(link.objects)
      /\ \A f, g \in L!Files(link) : f.id = g.id => f = g
      /\ \A i, j \in DOMAIN link.objects : link.objects[i] = link.objects[j] => i = j
      /\ L!Range(link.objects) \cap L!Range(link.members) = {}
  BY <1>1, FilesOfLink DEF L!IsLink, LinkTyped
<1>3. /\ L!Positions' = L!Positions \cup {position} /\ L!Positions = 1 .. position - 1
      /\ linked'[position] = file /\ \A i \in L!Positions : linked'[i] = linked[i]
      /\ Len(linked') = position
  <2>1. position = Len(linked) + 1
    BY <1>1, <1>2 DEF LinkTyped
  <2>2. /\ L!Positions' = L!Positions \cup {position}
        /\ linked'[position] = file /\ \A i \in L!Positions : linked'[i] = linked[i]
    BY <1>1, <2>1, OneFileMore
  <2>3. L!Positions = 1 .. position - 1 /\ Len(linked') = position
    BY <1>1, <1>2, <2>1 DEF LinkTyped, L!Positions
  <2>4. QED BY <2>2, <2>3
<1>4. \A i \in L!Positions' : linked'[i] = link.objects[i] /\ i \in DOMAIN link.objects
  BY <1>1, <1>2, <1>3
<1>5. FromObjects'
  BY <1>1, <1>2, <1>3, <1>4 DEF FromObjects
<1>6. ASSUME NEW i \in L!Positions', NEW j \in L!Positions', i # j
      PROVE  linked'[i].id # linked'[j].id
  <2>1. link.objects[i] # link.objects[j]
    BY <1>2, <1>4, <1>6
  <2>2. link.objects[i] \in L!Files(link) /\ link.objects[j] \in L!Files(link)
    BY <1>2, <1>4
  <2>3. QED BY <1>2, <1>4, <2>1, <2>2
<1>7. \A i \in L!Positions' : linked'[i] \notin L!Range(link.members)
  BY <1>2, <1>4 DEF L!Range
<1>8. L!MembersLinkedOnceWhenNeeded'
  BY <1>6, <1>7 DEF L!MembersLinkedOnceWhenNeeded
<1>9. file \in L!Files(link)
  BY <1>2
<1>10. QED BY <1>5, <1>8, <1>9

\* Where no file is read, what is said of the files and the table stays.
LEMMA NotRead ==
    ASSUME UNCHANGED <<link, linked, table>>
    PROVE  /\ L!MembersLinkedOnceWhenNeeded' <=> L!MembersLinkedOnceWhenNeeded
           /\ L!SymbolCount' = L!SymbolCount
           /\ \A n : Settled(n)' <=> Settled(n)
           /\ \A n : Pair(n)' <=> Pair(n)
<1>1. \A n : /\ L!DefiningFiles(n)' = L!DefiningFiles(n) /\ L!StrongFiles(n)' = L!StrongFiles(n)
             /\ L!ReferringFiles(n)' = L!ReferringFiles(n) /\ L!Commons(n)' = L!Commons(n)
             /\ L!Defining(n)' = L!Defining(n)
  BY DEF L!DefiningFiles, L!StrongFiles, L!ReferringFiles, L!Commons, L!Positions, L!Defining
<1>2. \A n : Pair(n)' <=> Pair(n)
  BY <1>1 DEF Pair
<1>3. \A n : Settled(n)' <=> Settled(n)
  BY <1>1 DEF Settled, L!LeftBehind, L!Wanted, L!Absent
<1>4. L!SymbolCount' = L!SymbolCount
  BY DEF L!SymbolCount, L!Absent
<1>5. \A n : L!FindInStaticLibraries(n)' = L!FindInStaticLibraries(n)
  BY DEF L!FindInStaticLibraries, L!Defining
<1>6. L!MembersLinkedOnceWhenNeeded' <=> L!MembersLinkedOnceWhenNeeded
  BY <1>1, <1>5 DEF L!MembersLinkedOnceWhenNeeded, L!Positions
<1>7. QED BY <1>2, <1>3, <1>4, <1>6

LEMMA NotReadBound ==
    ASSUME UNCHANGED <<link, linked, table>>, NEW n, Bound(n),
           step \notin {"objects", "entry"} => step' \notin {"objects", "entry"}
    PROVE  Bound(n)'
<1>1. /\ L!DefiningFiles(n)' = L!DefiningFiles(n) /\ L!StrongFiles(n)' = L!StrongFiles(n)
      /\ L!ReferringFiles(n)' = L!ReferringFiles(n) /\ L!Commons(n)' = L!Commons(n)
      /\ \A i \in L!Positions : linked'[i] = linked[i]
  BY DEF L!DefiningFiles, L!StrongFiles, L!ReferringFiles, L!Commons, L!Positions
<1>2. \A w : BoundTo(n, w) => BoundTo(n, w)'
  BY <1>1, BindingStays
<1>3. ReferredTo(n) => ReferredTo(n)'
  BY <1>1, ReferenceStays
<1>4. QED BY <1>1, <1>2, <1>3 DEF Bound, L!Absent

LEMMA NotReadErrors ==
    ASSUME L!DuplicatesReported, UNCHANGED <<link, linked, table>>,
           \A n : <<"Multiple definition", n>> \in errors' <=>
               <<"Multiple definition", n>> \in errors
    PROVE  L!DuplicatesReported'
<1>1. \A n : Pair(n)' <=> Pair(n)
  BY NotRead
<1>2. QED BY <1>1 DEF L!DuplicatesReported, Pair

LEMMA LinkedInit == ASSUME L!LinkerConstants, L!Init PROVE Linked
<1>1. /\ link \in Links /\ step = "objects" /\ linked = << >> /\ errors = {}
      /\ table = [n \in Names |-> L!Absent] /\ position = 1 /\ before = 0
  BY DEF L!Init
<1>2. L!Positions = {}
  BY <1>1 DEF L!Positions
<1>3. \A n : /\ L!DefiningFiles(n) = {} /\ L!ReferringFiles(n) = {} /\ L!StrongFiles(n) = {}
  BY <1>2 DEF L!DefiningFiles, L!ReferringFiles, L!StrongFiles
<1>4. LinkTyped
  BY <1>1 DEF LinkTyped
<1>5. link.objects \in Seq(L!Files(link))
  BY <1>4, FilesOfLink DEF L!IsLink
<1>6. FromObjects
  <2>1. Len(linked) = 0 /\ Len(link.objects) \in Nat
    BY <1>1, <1>5
  <2>2. QED BY <1>1, <1>2, <2>1 DEF FromObjects
<1>7. L!DuplicatesReported /\ L!MembersLinkedOnceWhenNeeded
  BY <1>1, <1>2, <1>3 DEF L!DuplicatesReported, L!MembersLinkedOnceWhenNeeded
<1>8. \A n \in Names : Bound(n)
  BY <1>1, <1>3 DEF Bound
<1>9. QED BY <1>1, <1>4, <1>6, <1>7, <1>8 DEF Linked, Passes, L!Resolved

LEMMA ReadObjectStep == ASSUME L!LinkerConstants, Linked, L!ReadObject PROVE Linked'
<1>1. /\ LinkTyped /\ step = "objects" /\ UNCHANGED <<link, before>>
      /\ link.objects \in Seq(L!Files(link))
  BY FilesOfLink DEF L!ReadObject, Linked, L!IsLink
<1>2. CASE position <= Len(link.objects)
  <2>1. PICK file : file = link.objects[position]
    OBVIOUS
  <2>2. L!ReadFile(file) /\ position' = position + 1 /\ step' = "objects"
    BY <1>1, <1>2, <2>1 DEF L!ReadObject
  <2>3. FromObjects' /\ L!MembersLinkedOnceWhenNeeded' /\ file \in L!Files(link)
    BY <1>1, <1>2, <2>1, <2>2, ReadsObject DEF L!ReadFile
  <2>4. \A n \in Names : ReferredTo(n) => ~table[n].dynamic
    BY <1>1 DEF ReferredTo
  <2>5. /\ linked' \in Seq(L!Files(link)) /\ table' = [n \in Names |-> table'[n]]
        /\ \A n \in Names : Bound(n)'
    BY <1>1, <2>2, <2>3, <2>4, ReadsTable
  <2>6. L!DuplicatesReported'
    BY <2>2, <2>3, <2>4, ReadsErrors
  <2>7. LinkTyped'
    BY <1>1, <2>2, <2>5 DEF LinkTyped, L!Files
  <2>8. QED BY <2>2, <2>3, <2>5, <2>6, <2>7 DEF Linked, Passes, L!Resolved
<1>3. CASE ~(position <= Len(link.objects))
  <2>1. step' = "entry" /\ position' = 1 /\ UNCHANGED <<link, linked, table, errors, before>>
    BY <1>1, <1>3 DEF L!ReadObject
  <2>2. LinkTyped'
    BY <1>1, <2>1 DEF LinkTyped, L!Files
  <2>3. FromObjects'
    <3>1. Len(linked) = Len(link.objects)
      BY <1>1, <1>3 DEF Linked, FromObjects, LinkTyped
    <3>2. QED BY <1>1, <2>1, <3>1 DEF Linked, FromObjects, L!Positions
  <2>4. \A n \in Names : Bound(n)'
    BY <1>1, <2>1, NotReadBound DEF Linked
  <2>5. L!DuplicatesReported' /\ L!MembersLinkedOnceWhenNeeded'
    BY <2>1, NotRead, NotReadErrors DEF Linked
  <2>6. QED BY <2>1, <2>2, <2>3, <2>4, <2>5 DEF Linked, Passes, L!Resolved
<1>4. QED BY <1>2, <1>3

\* After the objects there is a name.
LEMMA SomeName ==
    ASSUME L!LinkerConstants, Linked, step = "entry"
    PROVE  \E n \in Names : table[n] # L!Absent
<1>1. LinkTyped /\ L!IsLink(link)
  BY FilesOfLink DEF Linked
<1>2. PICK f \in L!Range(link.objects), n \in Names : L!Place(f, n) # "absent"
  BY <1>1 DEF L!IsLink
<1>3. PICK i \in DOMAIN link.objects : f = link.objects[i]
  BY DEF L!Range
<1>4. i \in L!Positions /\ linked[i] = f
  <2>1. /\ Len(linked) = Len(link.objects) /\ linked \in Seq(L!Files(link))
        /\ link.objects \in Seq(L!Files(link))
        /\ \A k \in L!Positions : linked[k] = link.objects[k]
    BY <1>1 DEF Linked, FromObjects, L!IsLink, LinkTyped
  <2>2. i \in L!Positions
    BY <2>1 DEF L!Positions
  <2>3. QED BY <1>3, <2>1, <2>2
<1>5. L!DefiningFiles(n) # {} \/ L!ReferringFiles(n) # {}
  BY <1>2, <1>4, LinkKinds DEF L!DefiningFiles, L!ReferringFiles
<1>6. QED BY <1>5, Present DEF Linked

LEMMA EntryStep == ASSUME L!LinkerConstants, Linked, L!ResolveEntrySymbol PROVE Linked'
<1>1. /\ LinkTyped /\ step = "entry" /\ step' = "begin" /\ before = 0
      /\ UNCHANGED <<link, position, before>>
  BY DEF L!ResolveEntrySymbol, Linked, FromObjects
<1>2. PICK n \in Names : table[n] # L!Absent
  BY <1>1, SomeName
<1>3. CASE L!Defining(Entry) # {}
  <2>1. PICK file : file = L!FindInStaticLibraries(Entry)
    OBVIOUS
  <2>2. L!ReadFile(file) /\ linked' = Append(linked, file)
    BY <1>3, <2>1 DEF L!ResolveEntrySymbol, L!ReadFile
  <2>3. file \in L!Files(link) /\ Entry \in Names
    BY <1>1, <1>3, <2>1, FilesOfLink DEF L!LinkerConstants
  <2>4. \A m \in Names : ReferredTo(m) => ~table[m].dynamic
    BY <1>1 DEF ReferredTo
  <2>5. /\ linked' \in Seq(L!Files(link)) /\ table' = [m \in Names |-> table'[m]]
        /\ \A m \in Names : Bound(m)'
        /\ \A m \in Names : table[m] # L!Absent => table'[m] # L!Absent
    BY <1>1, <2>2, <2>3, <2>4, ReadsTable
  <2>6. L!DuplicatesReported'
    BY <2>2, <2>3, <2>4, ReadsErrors
  <2>7. L!MembersLinkedOnceWhenNeeded'
    BY <1>1, <1>3, <2>1, <2>2, <2>3, ReadsMember
  <2>8. LinkTyped'
    BY <1>1, <2>5 DEF LinkTyped, L!Files
  <2>9. L!SymbolCount' > before'
    <3>1. L!SymbolCount > 0 /\ L!SymbolCount \in Nat /\ L!SymbolCount' \in Nat
              /\ L!SymbolCount <= L!SymbolCount'
      BY <1>2, <2>5, CountOfSome, Counting
    <3>2. QED BY <1>1, <3>1
  <2>10. QED BY <1>1, <2>5, <2>6, <2>7, <2>8, <2>9 DEF Linked, FromObjects, Passes, L!Resolved
<1>4. CASE L!Defining(Entry) = {}
  <2>1. UNCHANGED <<link, linked, table, errors>>
    BY <1>1, <1>4 DEF L!ResolveEntrySymbol
  <2>2. LinkTyped'
    BY <1>1, <2>1 DEF LinkTyped, L!Files
  <2>3. \A m \in Names : Bound(m)'
    BY <1>1, <2>1, NotReadBound DEF Linked
  <2>4. L!DuplicatesReported' /\ L!MembersLinkedOnceWhenNeeded'
    BY <2>1, NotRead, NotReadErrors DEF Linked
  <2>5. L!SymbolCount' > before'
    <3>1. L!SymbolCount > 0
      BY <1>2, CountOfSome
    <3>2. L!SymbolCount' = L!SymbolCount
      BY <2>1, NotRead
    <3>3. QED BY <1>1, <3>1, <3>2
  <2>6. QED BY <1>1, <2>2, <2>3, <2>4, <2>5 DEF Linked, FromObjects, Passes, L!Resolved
<1>5. QED BY <1>3, <1>4

LEMMA BeginPassStep == ASSUME L!LinkerConstants, Linked, L!BeginPass PROVE Linked'
<1>1. /\ LinkTyped /\ step = "begin" /\ step' = "pass" /\ before' = L!SymbolCount
      /\ position' = 1
      /\ UNCHANGED <<link, linked, table, errors>>
  BY DEF L!BeginPass, Linked
<1>2. L!SymbolCount \in Nat /\ L!SymbolCount' = L!SymbolCount
  BY <1>1, Counting, NotRead
<1>3. LinkTyped'
  BY <1>1, <1>2 DEF LinkTyped, L!Files
<1>4. \A n \in Names : Bound(n)'
  BY <1>1, NotReadBound DEF Linked
<1>5. L!DuplicatesReported' /\ L!MembersLinkedOnceWhenNeeded'
  BY <1>1, NotRead, NotReadErrors DEF Linked
<1>6. Passes'
  <2>1. \A k \in DOMAIN link.order : ~(k < 1)
    <3>1. link.order \in Seq(Names)
      BY <1>1, FilesOfLink DEF L!IsLink
    <3>2. QED BY <3>1
  <2>2. QED BY <1>1, <1>2, <2>1 DEF Passes, L!Resolved
<1>7. QED BY <1>1, <1>3, <1>4, <1>5, <1>6 DEF Linked, FromObjects

\* Only what no archive defines is left to the shared libraries.
LEMMA NotDynamic ==
    ASSUME L!LinkerConstants, Linked, NEW file \in L!Range(link.members), NEW m,
           L!Place(file, m) \in {"common", "section"}, ReferredTo(m)
    PROVE  ~table[m].dynamic
<1>1. PICK i \in DOMAIN link.members : file = link.members[i]
  BY DEF L!Range
<1>2. i \in L!Defining(m)
  BY <1>1 DEF L!Defining
<1>3. QED BY <1>2 DEF ReferredTo

LEMMA ResolveByMember ==
    ASSUME L!LinkerConstants, Linked, L!ResolveUndefined, NEW n \in Names,
           n = link.order[position], L!Wanted(n), L!Defining(n) # {}
    PROVE  Linked'
<1>1. /\ LinkTyped /\ step = "pass" /\ step' = "pass" /\ position' = position + 1
      /\ UNCHANGED <<link, before>>
  BY DEF L!ResolveUndefined, Linked
<1>2. PICK file : file = L!FindInStaticLibraries(n)
  OBVIOUS
<1>3. L!ReadFile(file) /\ linked' = Append(linked, file)
  BY <1>2 DEF L!ResolveUndefined, L!ReadFile
<1>4. /\ file \in L!Files(link) /\ file \in L!Range(link.members)
      /\ L!Place(file, n) \in {"common", "section"}
      /\ \A i \in L!Positions : linked[i] \in L!Files(link)
  BY <1>1, <1>2, FilesOfLink
<1>5. /\ L!DefiningFiles(n) = {} /\ \E j \in L!ReferringFiles(n) : ~L!Weak(linked[j], n)
  BY Wants DEF Linked
<1>6. \A m \in Names : L!Place(file, m) \in {"common", "section"} /\ ReferredTo(m) =>
          ~table[m].dynamic
  BY <1>4, NotDynamic
<1>7. /\ linked' \in Seq(L!Files(link)) /\ table' = [m \in Names |-> table'[m]]
      /\ \A m \in Names : Bound(m)'
      /\ \A m \in Names : table[m] # L!Absent => table'[m] # L!Absent
  BY <1>1, <1>3, <1>4, <1>6, ReadsTable
<1>8. L!DuplicatesReported'
  BY <1>3, <1>4, <1>6, ReadsErrors
<1>9. L!MembersLinkedOnceWhenNeeded'
  BY <1>1, <1>2, <1>3, <1>5, ReadsMember
<1>10. LinkTyped'
  BY <1>1, <1>7 DEF LinkTyped, L!Files
<1>11. ~L!Wanted(n)'
  <2>1. PICK p : p = Len(linked) + 1
    OBVIOUS
  <2>2. L!DefiningFiles(n)' # {}
    <3>1. L!DefiningFiles(n)' = L!DefiningFiles(n) \cup
             {i \in {p} : L!Place(file, n) \in {"common", "section"}}
      BY <1>1, <1>3, <2>1, OneFileMore
    <3>2. QED BY <1>4, <3>1
  <2>3. PICK w : BoundTo(n, w)'
    BY <1>7, <2>2 DEF Bound
  <2>4. QED BY <2>3 DEF BoundTo, L!Wanted
<1>12. Passes'
  <2>1. /\ L!SymbolCount \in Nat /\ L!SymbolCount' \in Nat /\ L!SymbolCount <= L!SymbolCount'
        /\ L!SymbolCount' = L!SymbolCount => \A m \in Names : table'[m] # L!Absent =>
               table[m] # L!Absent
    BY <1>7, Counting
  <2>2. before \in Nat /\ before <= L!SymbolCount
    BY <1>1 DEF Linked, Passes, LinkTyped
  <2>3. ASSUME L!SymbolCount' = before', NEW k \in DOMAIN link.order, k < position'
        PROVE  Settled(link.order[k])'
    <3>1. L!SymbolCount = before /\ \A m \in Names : table'[m] # L!Absent => table[m] # L!Absent
      BY <1>1, <2>1, <2>2, <2>3
    <3>2. link.order[k] \in Names /\ k \in Nat
      <4>1. link.order \in Seq(Names)
        BY <1>1, FilesOfLink DEF L!IsLink
      <4>2. QED BY <2>3, <4>1
    <3>3. PICK m \in Names : m = link.order[k]
      BY <3>2
    <3>4. CASE k = position
      BY <1>1, <1>11, <3>4 DEF Settled, L!LeftBehind
    <3>5. CASE k < position
      <4>1. Settled(m)
        BY <1>1, <3>1, <3>3, <3>5 DEF Linked, Passes
      <4>2. Bound(m) /\ Bound(m)' /\ (table'[m] # L!Absent => table[m] # L!Absent)
        BY <1>7, <3>1 DEF Linked
      <4>3. table'[m] = L!ReadSymbol(table[m], L!Symbol(file, m))
        BY <1>3 DEF L!ReadFile
      <4>4. Settled(m)'
        BY <1>1, <1>3, <4>1, <4>2, <4>3, SettledStays
      <4>5. QED BY <1>1, <3>3, <4>4
    <3>6. QED BY <1>1, <2>3, <3>2, <3>4, <3>5 DEF LinkTyped
  <2>4. QED BY <1>1, <2>1, <2>2, <2>3 DEF Passes, L!Resolved
<1>13. QED BY <1>1, <1>7, <1>8, <1>9, <1>10, <1>12 DEF Linked, FromObjects

\* No archive defines it: a shared library may.
LEMMA ResolveByLibrary ==
    ASSUME L!LinkerConstants, Linked, L!ResolveUndefined, NEW n \in Names,
           n = link.order[position], ~(L!Wanted(n) /\ L!Defining(n) # {})
    PROVE  Linked'
<1>1. /\ LinkTyped /\ step = "pass" /\ step' = "pass" /\ position' = position + 1
      /\ UNCHANGED <<link, before, linked, errors>>
      /\ table' = IF L!Wanted(n) /\ n \in link.dynamic
                  THEN [table EXCEPT ![n].defined = TRUE, ![n].dynamic = TRUE]
                  ELSE table
  BY DEF L!ResolveUndefined, Linked
<1>2. \A m : /\ L!DefiningFiles(m)' = L!DefiningFiles(m) /\ L!StrongFiles(m)' = L!StrongFiles(m)
             /\ L!ReferringFiles(m)' = L!ReferringFiles(m) /\ L!Commons(m)' = L!Commons(m)
             /\ L!Defining(m)' = L!Defining(m)
  BY <1>1 DEF L!DefiningFiles, L!StrongFiles, L!ReferringFiles, L!Commons, L!Positions,
         L!Defining
<1>3. /\ table' = [m \in Names |-> table'[m]]
      /\ \A m \in Names : m # n => table'[m] = table[m]
      /\ ~(L!Wanted(n) /\ n \in link.dynamic) => table'[n] = table[n]
  BY <1>1 DEF LinkTyped
<1>4. ASSUME L!Wanted(n), n \in link.dynamic
      PROVE  Bound(n)' /\ table'[n].defined /\ table'[n] # L!Absent
  <2>1. L!DefiningFiles(n) = {} /\ ReferredTo(n) /\ L!ReferringFiles(n) # {}
            /\ L!Defining(n) = {}
    BY <1>4, Wants DEF Linked
  <2>2. ~table[n].weak /\ table[n] \in Entries
    BY <1>4, <2>1 DEF L!Wanted, ReferredTo
  <2>3. table'[n] = [table[n] EXCEPT !.defined = TRUE, !.dynamic = TRUE]
    BY <1>1, <1>4 DEF LinkTyped
  <2>4. /\ table'[n] \in Entries /\ table'[n].place = table[n].place
        /\ table'[n].weak = table[n].weak
        /\ table'[n].defined = TRUE /\ table'[n].dynamic = TRUE
    BY <2>2, <2>3 DEF Entries
  <2>5. (\A i \in L!ReferringFiles(n)' : L!Weak(linked'[i], n))
          <=> \A i \in L!ReferringFiles(n) : L!Weak(linked[i], n)
    BY <1>1, <1>2
  <2>6. Entries' = Entries
    BY <1>1 DEF Entries, Ids
  <2>7. ReferredTo(n)'
    BY <1>1, <1>2, <2>1, <2>2, <2>4, <2>5, <2>6 DEF ReferredTo
  <2>8. QED BY <1>2, <2>1, <2>4, <2>7, EntryIsThere DEF Bound
<1>5. ASSUME NEW m \in Names, table'[m] = table[m]
      PROVE Bound(m)' /\ (Settled(m)' <=> Settled(m))
  <2>1. \A w : BoundTo(m, w) => BoundTo(m, w)'
    BY <1>1, <1>2, <1>5, BindingStays
  <2>2. ReferredTo(m) => ReferredTo(m)'
    BY <1>1, <1>2, <1>5, ReferenceStays
  <2>3. Bound(m)'
    BY <1>2, <1>5, <2>1, <2>2 DEF Linked, Bound, L!Absent
  <2>4. QED BY <1>1, <1>2, <1>5, <2>3 DEF Settled, L!LeftBehind, L!Wanted, L!Absent
<1>6. \A m \in Names : Bound(m)'
  BY <1>3, <1>4, <1>5
<1>7. Settled(n)'
  <2>1. CASE L!Wanted(n) /\ n \in link.dynamic
    BY <1>4, <2>1 DEF Settled, L!LeftBehind, L!Wanted
  <2>2. CASE ~(L!Wanted(n) /\ n \in link.dynamic)
    BY <1>3, <1>5, <2>2 DEF Settled, L!LeftBehind
  <2>3. QED BY <2>1, <2>2
<1>8. ASSUME NEW m \in Names, Settled(m) PROVE Settled(m)'
  BY <1>3, <1>5, <1>7, <1>8
<1>9. L!SymbolCount' = L!SymbolCount
  <2>1. \A m \in Names : table'[m] # L!Absent <=> table[m] # L!Absent
    BY <1>3, <1>4 DEF L!Wanted
  <2>2. {m \in Names : table'[m] # L!Absent} = {m \in Names : table[m] # L!Absent}
    BY <2>1
  <2>3. L!SymbolCount' = Cardinality({m \in Names : table'[m] # L!Absent})
    BY DEF L!SymbolCount, L!Absent
  <2>4. QED BY <2>2, <2>3 DEF L!SymbolCount
<1>10. LinkTyped'
  <2>1. UNCHANGED <<link, linked, before>> /\ step' = "pass" /\ position' = position + 1
    BY <1>1
  <2>2. /\ link' \in Links /\ linked' \in Seq(L!Files(link')) /\ before' \in Nat
        /\ position' \in Nat \ {0}
    BY <1>1, <2>1 DEF LinkTyped, L!Files
  <2>3. table' = [m \in Names |-> table'[m]]
    BY <1>3
  <2>4. QED BY <2>1, <2>2, <2>3 DEF LinkTyped, L!Files
<1>11. L!MembersLinkedOnceWhenNeeded'
  <2>1. \A m : L!FindInStaticLibraries(m)' = L!FindInStaticLibraries(m)
    BY <1>1 DEF L!FindInStaticLibraries, L!Defining
  <2>2. QED BY <1>1, <1>2, <2>1 DEF Linked, L!MembersLinkedOnceWhenNeeded, L!Positions
<1>12. L!DuplicatesReported'
  BY <1>1, <1>2 DEF Linked, L!DuplicatesReported
<1>13. Passes'
  <2>1. ASSUME L!SymbolCount' = before', NEW k \in DOMAIN link.order, k < position'
        PROVE  Settled(link.order[k])'
    <3>1. link.order[k] \in Names /\ k \in Nat
      <4>1. link.order \in Seq(Names)
        BY <1>1, FilesOfLink DEF L!IsLink
      <4>2. QED BY <2>1, <4>1
    <3>2. PICK m \in Names : m = link.order[k]
      BY <3>1
    <3>3. CASE k = position
      BY <1>1, <1>7, <3>3
    <3>4. CASE k < position
      <4>1. Settled(m)
        BY <1>1, <1>9, <2>1, <3>2, <3>4 DEF Linked, Passes
      <4>2. Settled(m)'
        BY <1>8, <4>1
      <4>3. QED BY <1>1, <3>2, <4>2
    <3>5. QED BY <1>1, <2>1, <3>1, <3>3, <3>4 DEF LinkTyped
  <2>2. before <= L!SymbolCount
    BY <1>1 DEF Linked, Passes
  <2>3. QED BY <1>1, <1>9, <2>1, <2>2 DEF Passes, L!Resolved
<1>14. QED BY <1>1, <1>6, <1>10, <1>11, <1>12, <1>13 DEF Linked, FromObjects

LEMMA ResolveStep == ASSUME L!LinkerConstants, Linked, L!ResolveUndefined PROVE Linked'
<1>1. link.order[position] \in Names
  <2>1. LinkTyped /\ position <= Len(link.order)
    BY DEF L!ResolveUndefined, Linked
  <2>2. link.order \in Seq(Names)
    BY <2>1, FilesOfLink DEF L!IsLink
  <2>3. QED BY <2>1, <2>2 DEF LinkTyped
<1>2. QED BY <1>1, ResolveByMember, ResolveByLibrary

LEMMA EndPassStep == ASSUME L!LinkerConstants, Linked, L!EndPass PROVE Linked'
<1>1. /\ LinkTyped /\ step = "pass" /\ position > Len(link.order)
      /\ step' = IF L!SymbolCount = before THEN "collect" ELSE "begin"
      /\ UNCHANGED <<link, linked, table, position, before, errors>>
  BY DEF L!EndPass, L!PassesAreOver, Linked
<1>2. LinkTyped'
  BY <1>1 DEF LinkTyped, L!Files
<1>3. \A n \in Names : Bound(n)'
  BY <1>1, NotReadBound DEF Linked
<1>4. L!DuplicatesReported' /\ L!MembersLinkedOnceWhenNeeded'
  BY <1>1, NotRead, NotReadErrors DEF Linked
<1>5. Passes'
  <2>1. /\ before \in Nat /\ L!SymbolCount \in Nat /\ before <= L!SymbolCount
        /\ L!SymbolCount' = L!SymbolCount
    BY <1>1, Counting, NotRead DEF Linked, Passes, LinkTyped
  <2>2. CASE L!SymbolCount = before
    <3>1. link.order \in Seq(Names) /\ L!Range(link.order) = Names
      BY <1>1, FilesOfLink DEF L!IsLink
    <3>2. \A k \in DOMAIN link.order : k < position
      BY <1>1, <3>1 DEF LinkTyped
    <3>3. \A n \in Names : \E k \in DOMAIN link.order : link.order[k] = n
      BY <3>1 DEF L!Range
    <3>4. \A n \in Names : Settled(n)
      BY <1>1, <2>2, <3>2, <3>3 DEF Linked, Passes
    <3>5. \A n \in Names : Settled(n)'
      BY <1>1, <3>4, NotRead
    <3>6. QED BY <1>1, <2>2, <3>5 DEF Passes, L!Resolved
  <2>3. CASE L!SymbolCount # before
    BY <1>1, <2>1, <2>3 DEF Passes, L!Resolved
  <2>4. QED BY <2>2, <2>3
<1>6. QED BY <1>1, <1>2, <1>3, <1>4, <1>5 DEF Linked, FromObjects

\* The collection and the check for undefined symbols.
LEMMA AfterPassesStep ==
    ASSUME Linked,
           L!MarkRoots \/ L!MarkReferences \/ L!EndCollection \/ L!CheckUndefined \/ L!Done
                     \/ UNCHANGED L!vars
    PROVE  Linked'
<1>1. CASE UNCHANGED <<link, step, linked, table, position, before, errors>>
  <2>1. LinkTyped'
    BY <1>1 DEF Linked, LinkTyped, L!Files
  <2>2. \A n \in Names : Bound(n)'
    BY <1>1, NotReadBound DEF Linked
  <2>3. L!DuplicatesReported' /\ L!MembersLinkedOnceWhenNeeded'
    BY <1>1, NotRead, NotReadErrors DEF Linked
  <2>4. Passes'
    <3>1. L!SymbolCount' = L!SymbolCount /\ \A n : Settled(n)' <=> Settled(n)
      BY <1>1, NotRead
    <3>2. QED BY <1>1, <3>1 DEF Linked, Passes, L!Resolved
  <2>5. FromObjects'
    BY <1>1 DEF Linked, FromObjects, L!Positions
  <2>6. QED BY <2>1, <2>2, <2>3, <2>4, <2>5 DEF Linked
<1>2. CASE L!MarkRoots \/ L!MarkReferences \/ L!EndCollection \/ L!CheckUndefined
  <2>1. /\ UNCHANGED <<link, linked, table, position, before>>
        /\ step \in {"collect", "mark", "check"} /\ step' \in {"mark", "check", "done"}
    BY <1>2 DEF L!MarkRoots, L!MarkReferences, L!EndCollection, L!CheckUndefined
  <2>2. \A n : <<"Multiple definition", n>> \in errors' <=>
            <<"Multiple definition", n>> \in errors
    <3>1. errors' = errors \/ L!CheckUndefined
      BY <1>2 DEF L!MarkRoots, L!MarkReferences, L!EndCollection
    <3>2. CASE L!CheckUndefined
      BY <3>2 DEF L!CheckUndefined
    <3>3. QED BY <3>1, <3>2
  <2>3. LinkTyped'
    BY <2>1 DEF Linked, LinkTyped, L!Files
  <2>4. \A n \in Names : Bound(n)'
    BY <2>1, NotReadBound DEF Linked
  <2>5. L!DuplicatesReported' /\ L!MembersLinkedOnceWhenNeeded'
    BY <2>1, <2>2, NotRead, NotReadErrors DEF Linked
  <2>6. Passes'
    <3>1. \A n \in Names : Settled(n)'
      BY <2>1, NotRead DEF Linked, Passes, L!Resolved
    <3>2. QED BY <2>1, <3>1 DEF Passes
  <2>7. QED BY <2>1, <2>3, <2>4, <2>5, <2>6 DEF Linked, FromObjects
<1>3. QED BY <1>1, <1>2 DEF L!Done, L!vars

LEMMA LinkedNext == ASSUME L!LinkerConstants PROVE Linked /\ [L!Next]_(L!vars) => Linked'
BY ReadObjectStep, EntryStep, BeginPassStep, ResolveStep, EndPassStep,
       AfterPassesStep DEF L!Next

\* What follows for what is checked.
LEMMA LinkedSafe ==
    ASSUME L!LinkerConstants, Linked
    PROVE  /\ L!BoundAsLinked /\ L!DuplicatesReported
           /\ L!MembersLinkedOnceWhenNeeded /\ L!NothingStrongLeftToLoad
<1>1. LinkTyped /\ L!DuplicatesReported /\ L!MembersLinkedOnceWhenNeeded
  BY DEF Linked
<1>2. L!NothingStrongLeftToLoad
  BY DEF Linked, Passes, Settled, L!NothingStrongLeftToLoad
<1>3. L!Positions \subseteq Nat
  BY <1>1 DEF LinkTyped, L!Positions
<1>4. ASSUME NEW n \in Names, NEW w, BoundTo(n, w)
      PROVE  /\ L!Winner(n) = w /\ table[n].size = L!SizeOf(n)
  <2>1. L!DefiningFiles(n) \subseteq Nat /\ L!StrongFiles(n) \subseteq Nat
    BY <1>3, Subsets
  <2>2. L!Winner(n) = w
    <3>1. PICK S : S = IF L!StrongFiles(n) # {} THEN L!StrongFiles(n) ELSE L!DefiningFiles(n)
      OBVIOUS
    <3>2. S \subseteq Nat /\ w \in S /\ \A i \in S : w <= i
      BY <1>4, <2>1, <3>1 DEF BoundTo, Binding, First
    <3>3. L!Min(S) = w
      BY <3>2, MinIs
    <3>4. QED BY <3>1, <3>3 DEF L!Winner
  <2>3. CASE w \in L!Commons(n)
    <3>1. PICK S : S = {linked[i].size[n] : i \in L!Commons(n)}
      OBVIOUS
    <3>2. \A i \in L!Commons(n) : linked[i].size[n] \in Nat
      <4>1. \A i \in L!Positions : L!IsFile(linked[i])
        BY <1>1, FilesOfLink
      <4>2. QED BY <4>1, Subsets DEF L!IsFile
    <3>3. S \subseteq Nat /\ table[n].size \in S /\ \A s \in S : s <= table[n].size
      BY <1>4, <2>3, <3>1, <3>2 DEF BoundTo, Sized
    <3>4. L!Max(S) = table[n].size
      BY <3>3, MaxIs
    <3>5. QED BY <2>2, <2>3, <3>1, <3>4 DEF L!SizeOf
  <2>4. CASE w \notin L!Commons(n)
    BY <1>4, <2>2, <2>4 DEF BoundTo, Sized, L!SizeOf
  <2>5. QED BY <2>2, <2>3, <2>4
<1>5. L!BoundAsLinked
  <2>1. ASSUME NEW n \in Names, L!DefiningFiles(n) # {}
        PROVE  /\ table[n].defined /\ ~table[n].dynamic
               /\ table[n].file = linked[L!Winner(n)].id
               /\ table[n].place = L!Place(linked[L!Winner(n)], n)
               /\ table[n].size = L!SizeOf(n)
    <3>1. PICK w : BoundTo(n, w)
      BY <2>1 DEF Linked, Bound
    <3>2. L!Winner(n) = w /\ table[n].size = L!SizeOf(n)
      BY <1>4, <3>1
    <3>3. QED BY <3>1, <3>2 DEF BoundTo
  <2>2. ASSUME NEW n \in Names, L!DefiningFiles(n) = {}, L!ReferringFiles(n) # {}
        PROVE  ReferredTo(n)
    BY <2>2 DEF Linked, Bound
  <2>3. ASSUME NEW n \in Names, L!DefiningFiles(n) = {}, L!ReferringFiles(n) = {}
        PROVE  table[n] = L!Absent
    BY <2>3 DEF Linked, Bound
  <2>4. QED BY <2>1, <2>2, <2>3 DEF L!BoundAsLinked, ReferredTo
<1>6. QED BY <1>1, <1>2, <1>5

LEMMA LinkedPasses ==
    ASSUME L!LinkerConstants, Linked, [L!Next]_(L!vars)
    PROVE  L!BeginsWithMore
<1>1. ASSUME step = "begin", step' = "pass" PROVE L!BeginPass
  BY <1>1 DEF L!Next, L!ReadObject, L!ResolveEntrySymbol, L!ResolveUndefined, L!EndPass,
         L!MarkRoots,
       L!MarkReferences, L!EndCollection, L!CheckUndefined, L!Done, L!vars
<1>2. ASSUME L!BeginPass PROVE before' > before
  BY <1>2, Counting DEF L!BeginPass, Linked, Passes, LinkTyped
<1>3. QED BY <1>1, <1>2 DEF L!BeginsWithMore

HIDE LSets
=============================================================================
