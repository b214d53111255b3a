------------------------------ MODULE AddrWait ------------------------------
(***************************************************************************)
(* What the runtime asks of address wait and wake, with no table, bucket   *)
(* or lock in sight: a caller whose word still holds the expected value is *)
(* blocked in the same step as the comparison; a wake releases all blocked *)
(* callers of the address, or any one of them; a released caller compares  *)
(* again; closing releases everyone.  GuestAddrWait implements it.         *)
(***************************************************************************)
CONSTANTS Threads, Addrs, Values, Unreadable, WaitModes, WakeModes

VARIABLES
    value,      \* the words
    st,         \* "idle", "calling", "comparing", "blocked", "expired", "waking"
    call,       \* arguments of the call in progress
    result,     \* result of the last wait
    closed      \* no caller may block any more

avars == <<value, st, call, result, closed>>

NoCall == [addr |-> "none"]
Wait(a, e, m) == [addr |-> a, expected |-> e, mode |-> m]
Wake(a, all) == [addr |-> a, wake_all |-> all]
BlockedAt(a) == {t \in Threads : st[t] = "blocked" /\ call[t].addr = a}

Init ==
    /\ value \in [Addrs -> Values]
    /\ st = [t \in Threads |-> "idle"]
    /\ call = [t \in Threads |-> NoCall]
    /\ result = [t \in Threads |-> "none"]
    /\ closed = FALSE

To(t, s) == st' = [st EXCEPT ![t] = s]

Finish(t, r) ==
    /\ To(t, "idle")
    /\ call' = [call EXCEPT ![t] = NoCall]
    /\ result' = [result EXCEPT ![t] = r]

CallWait(t) ==
    \E a \in Addrs, e \in Values, m \in WaitModes :
        /\ st[t] = "idle"
        /\ To(t, "calling")
        /\ call' = [call EXCEPT ![t] = Wait(a, e, m)]
        /\ result' = [result EXCEPT ![t] = "none"]
        /\ UNCHANGED <<value, closed>>

\* A call that has not blocked yet may be refused.
Admit(t) ==
    /\ st[t] = "calling"
    /\ \/ To(t, "comparing") /\ UNCHANGED <<call, result>>
       \/ Finish(t, "error")
    /\ UNCHANGED <<value, closed>>

\* Compare and block in one step.
Compare(t) ==
    LET w == value[call[t].addr]
    IN /\ st[t] = "comparing"
       /\ \/ w = Unreadable /\ Finish(t, "error")
          \/ w \notin {Unreadable, call[t].expected} /\ Finish(t, "success")
          \/ /\ w = call[t].expected /\ call[t].mode = "poll"
             /\ Finish(t, "timedout")
          \/ /\ w = call[t].expected /\ call[t].mode # "poll"
             /\ To(t, "blocked")
             /\ UNCHANGED <<call, result>>
       /\ UNCHANGED <<value, closed>>

Expire(t) ==
    /\ st[t] = "blocked" /\ call[t].mode = "timed"
    /\ To(t, "expired")
    /\ UNCHANGED <<value, call, result, closed>>

ReturnExpired(t) ==
    /\ st[t] = "expired"
    /\ Finish(t, "timedout")
    /\ UNCHANGED <<value, closed>>

Spurious(t) ==
    /\ st[t] = "blocked"
    /\ To(t, "comparing")
    /\ UNCHANGED <<value, call, result, closed>>

Store(t) ==
    \E a \in Addrs, v \in Values \cup {Unreadable}, all \in WakeModes :
        /\ st[t] = "idle"
        /\ To(t, "waking")
        /\ value' = [value EXCEPT ![a] = v]
        /\ call' = [call EXCEPT ![t] = Wake(a, all)]
        /\ UNCHANGED <<result, closed>>

\* Release every blocked caller of the address, or one if there is one.
Notify(t) ==
    LET blocked == BlockedAt(call[t].addr)
    IN /\ st[t] = "waking"
       /\ \E W \in SUBSET blocked :
             /\ IF call[t].wake_all THEN W = blocked
                ELSE W = {} <=> blocked = {}
             /\ call[t].wake_all \/ \A u, w \in W : u = w
             /\ st' = [u \in Threads |-> IF u \in W THEN "comparing"
                                         ELSE IF u = t THEN "idle" ELSE st[u]]
       /\ call' = [call EXCEPT ![t] = NoCall]
       /\ UNCHANGED <<value, result, closed>>

Close ==
    /\ ~closed /\ closed' = TRUE
    /\ UNCHANGED <<value, st, call, result>>

\* Once closed, blocked callers are released.
ReleaseClosed ==
    /\ closed
    /\ \E W \in SUBSET {t \in Threads : st[t] = "blocked"} :
          st' = [u \in Threads |-> IF u \in W THEN "comparing" ELSE st[u]]
    /\ UNCHANGED <<value, call, result, closed>>

\* A wait may fail; once closed, blocked callers are sent away like this too.
Abort(t) ==
    /\ st[t] = "blocked"
    /\ Finish(t, "error")
    /\ UNCHANGED <<value, closed>>

Next ==
    \/ \E t \in Threads :
          \/ CallWait(t) \/ Admit(t) \/ Compare(t) \/ Expire(t)
          \/ ReturnExpired(t) \/ Spurious(t) \/ Store(t) \/ Notify(t) \/ Abort(t)
    \/ Close \/ ReleaseClosed

\* A caller that is not blocked gets on; a wake that was called is made;
\* nobody stays blocked once closed.
Fairness ==
    \A t \in Threads :
        /\ WF_avars(Admit(t)) /\ WF_avars(Compare(t)) /\ WF_avars(ReturnExpired(t))
        /\ WF_avars(Notify(t))
        /\ WF_avars(closed /\ st[t] = "blocked" /\ Next /\ st'[t] # "blocked")

Spec == Init /\ [][Next]_avars /\ Fairness
=============================================================================
