----------------------------- MODULE BusSession -----------------------------
(***************************************************************************)
(* What lemnos-bus promises of its sessions, whatever the transport: a     *)
(* session is opened with an access right, runs one call at a time, is      *)
(* faulted by a call that fails and usable again after one that succeeds,   *)
(* and stays closed.  The hardware is touched by a session that may write   *)
(* and is in a call, and by nobody else among the sessions.                 *)
(*                                                                         *)
(* The abstract specification of SysfsSessions and DeviceStack.            *)
(***************************************************************************)
CONSTANTS Sessions, Hardware

VARIABLES
    state,      \* SessionMetadata.state, or "none" before open and after drop
    access,     \* SessionMetadata.access
    hardware    \* what the calls change

busVars == <<state, access, hardware>>

SessionStates == {"none", "idle", "busy", "faulted", "closed"}
SessionAccess == {"SharedReadOnly", "Shared", "Exclusive", "ExclusiveController"}

\* ensure_open rejects a closed session; a faulted one accepts the next call.
Callable(s) == state[s] \in {"idle", "faulted"}
CanWrite(a) == a # "SharedReadOnly"

TypeOK ==
    /\ state \in [Sessions -> SessionStates]
    /\ access \in [Sessions -> SessionAccess]
    /\ hardware \in Hardware

Init ==
    /\ state = [s \in Sessions |-> "none"]
    /\ access \in [Sessions -> SessionAccess]
    /\ hardware \in Hardware

\* Opening may set the hardware up, whatever the access: a serial port is
\* reset, a requested line is driven.
Open(s) ==
    /\ state[s] = "none"
    /\ state' = [state EXCEPT ![s] = "idle"]
    /\ \E a \in SessionAccess : access' = [access EXCEPT ![s] = a]
    /\ hardware' \in Hardware

\* An open that fails may have done so, to hardware that no session has open.
OpenFails(s) ==
    /\ \A t \in Sessions : state[t] = "none"
    /\ hardware' \in Hardware
    /\ UNCHANGED <<state, access>>

BeginCall(s) ==
    /\ Callable(s)
    /\ state' = [state EXCEPT ![s] = "busy"]
    /\ UNCHANGED <<access, hardware>>

\* A step of a call that reaches the hardware.
Touch(s) ==
    /\ state[s] = "busy"
    /\ CanWrite(access[s])
    /\ hardware' \in Hardware
    /\ UNCHANGED <<state, access>>

FinishCall(s) ==
    /\ state[s] = "busy"
    /\ \E outcome \in {"idle", "faulted"} : state' = [state EXCEPT ![s] = outcome]
    /\ UNCHANGED <<access, hardware>>

Close(s) ==
    /\ Callable(s)
    /\ state' = [state EXCEPT ![s] = "closed"]
    /\ UNCHANGED <<access, hardware>>

\* The session value is dropped, closed or not.
Drop(s) ==
    /\ state[s] \in {"idle", "faulted", "closed"}
    /\ state' = [state EXCEPT ![s] = "none"]
    /\ UNCHANGED <<access, hardware>>

Next == \E s \in Sessions :
            \/ Open(s) \/ OpenFails(s) \/ BeginCall(s) \/ Touch(s)
            \/ FinishCall(s) \/ Close(s) \/ Drop(s)

Spec == Init /\ [][Next]_busVars
=============================================================================
