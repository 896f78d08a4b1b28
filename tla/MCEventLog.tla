----------------------------- MODULE MCEventLog -----------------------------
(***************************************************************************)
(* A small instance of EventLog: two tasks that use one subscription, of    *)
(* the async adapter or, behind a mutex of their own, of a Runtime.  The     *)
(* limits include a zero event count, a byte budget smaller than one event   *)
(* and pairs in which both limits bind at once.                              *)
(***************************************************************************)
EXTENDS EventLog, TLC

CONSTANTS t1, t2, s1

MCSubOf == (t1 :> s1) @@ (t2 :> s1)

MCLimits == {
    [events |-> 3, bytes |-> Unlimited],
    [events |-> 2, bytes |-> 3],
    [events |-> 1, bytes |-> 1],
    [events |-> 0, bytes |-> 4] }

\* Bounds
MCMaxTail == 4
MCMaxVersion == 6
=============================================================================
