----------------------------- MODULE MCProgress ----------------------------
(***************************************************************************)
(* Synchronization with fairness, in one run.                              *)
(***************************************************************************)
EXTENDS Synchronization

MCCountsDown == [t1 |-> 1, t2 |-> 2, t3 |-> 1, t4 |-> 0]
MCWeight == [t1 |-> 1, t2 |-> 2, t3 |-> 1]

\* Nobody stays behind: every call_once returns; each consumer that keeps
\* waiting on a condition is served if there are items enough; so is who waits
\* at a semaphore with permits for all; nobody stays in a barrier's phase that
\* is over or at a latch; request_stop and the destructors that wait for it
\* return.  Where one thread stands for others they are interchangeable.
NobodyStaysBehind ==
    /\ component = "once" => EveryoneReturns
    /\ component = "condition" => <>(component = "condition" /\ Cond!Served("t1"))
    /\ (component = "semaphore" /\ Sem!Asleep("t1") /\ Sem!EnoughForAll)
           ~> (component = "semaphore" /\ ~Sem!Asleep("t1"))
    /\ component = "latch" => <>(component = "latch" /\ Lat!AllOut)
    /\ \A t \in {"t1", "t2"} :
          (component = "barrier" /\ Bar!Asleep(t)) ~> (component = "barrier" /\ ~Bar!Asleep(t))
    /\ (component = "stop token" /\ Tok!Waits("t1")) ~> (component = "stop token" /\ Tok!Idle("t1"))
=============================================================================
