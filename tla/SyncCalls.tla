----------------------------- MODULE SyncCalls -----------------------------
(***************************************************************************)
(* What a caller of the blocking part of the OpenMAX IL API relies on: its *)
(* call returns only after the component has processed that very call, and *)
(* every call is processed once.                                           *)
(***************************************************************************)
CONSTANT Threads

VARIABLE status  \* of the call each thread makes, if any

Init == status = [t \in Threads |-> "idle"]

Move(t, from, to) ==
    /\ status[t] = from
    /\ status' = [status EXCEPT ![t] = to]

Call(t) == Move(t, "idle", "called")
Serve(t) == Move(t, "called", "served")
Return(t) == Move(t, "served", "idle")

Next == \E t \in Threads : Call(t) \/ Serve(t) \/ Return(t)

Spec == Init /\ [][Next]_status
=============================================================================
