--------------------------- MODULE DeviceSessions ---------------------------
(***************************************************************************)
(* Devices bound by the generic drivers: each bound device owns a session,  *)
(* and the sessions share one device.  The session is one of lemnos-linux   *)
(* or of the mock; which, and the interface, a behaviour fixes.             *)
(*                                                                         *)
(* A call of a session is a sequence of steps, each a system call or a      *)
(* section under the mock's lock: sessions run in threads of their own, and *)
(* every step may fail.  The transports say what the steps of a request are *)
(* and what each does to the device.                                        *)
(***************************************************************************)
EXTENDS GenericDrivers

CONSTANTS
    Sessions,
    CustomAccess,   \* what other drivers than the generic one open a session with
    Requests,   \* what the owner of a session asks for, by session and interface
    Addresses,  \* the addresses of an i2c bus
    Controllers,    \* the i2c sessions that address any device of the bus
    OwnAddress,     \* the address of the other sessions
    Numbers,    \* the interfaces of the usb device
    ByteLimit,  \* bound: bytes a session sends between two binds
    NoHolder,   \* what is held by no session
    NoCall,
    NoBook      \* the memory of a session that has none

VARIABLES
    interface,
    backend,    \* "linux" or "mock"
    device,     \* what the shared device holds, a record of its interface
    state,      \* SessionMetadata.state, or "none" while nothing is bound
    access,     \* SessionMetadata.access, the same whenever a session is opened
    book,       \* what a session remembers of the device
    call,       \* the call in progress of a busy session
    stats,      \* the driver's counters: bytes written, interfaces claimed
    delivered,  \* history: bytes of a session that reached the device
    unsure,     \* history: what of a session's memory may not be so, after a
                \* call that failed or another session's call
    faults      \* the mock's queues of injected errors, by operation

fixedVars == <<interface, backend, access>>
driverVars == <<stats, delivered, unsure>>
deviceVars == <<fixedVars, device, state, book, call, driverVars, faults>>

SessionAccess == {"SharedReadOnly", "Shared", "Exclusive", "ExclusiveController"}
SessionStates == {"none", "idle", "busy", "faulted", "closed"}

ASSUME DeviceAssumption ==
    /\ CustomAccess \in [Sessions -> SUBSET SessionAccess]
    /\ Controllers \subseteq Sessions
    /\ OwnAddress \in Addresses
    /\ Numbers \subseteq Nat
    /\ ByteLimit \in Nat
    /\ NoHolder \notin Sessions

Holders == Sessions \cup {NoHolder}

CanWrite(s) == access[s] # "SharedReadOnly"

-----------------------------------------------------------------------------
(* Life cycle                                                               *)

\* The driver binds: a session is opened, the counters start from nothing.
Bind(s, d, b) ==
    /\ state[s] = "none"
    /\ state' = [state EXCEPT ![s] = "idle"]
    /\ device' = d
    /\ book' = [book EXCEPT ![s] = b]
    /\ stats' = [stats EXCEPT ![s] = Fresh]
    /\ delivered' = [delivered EXCEPT ![s] = 0]
    /\ call' = [call EXCEPT ![s] = NoCall]
    /\ UNCHANGED <<fixedVars, faults>>

\* close of the sessions that only mark themselves closed
MarkClosed(s) ==
    /\ state[s] \in {"idle", "faulted", "closed"}
    /\ state' = [state EXCEPT ![s] = "closed"]
    /\ UNCHANGED <<fixedVars, device, book, call, driverVars, faults>>

\* The bound device goes, and with it what the session holds of the device.
Drop(s, d) ==
    /\ state[s] \in {"idle", "faulted", "closed"}
    /\ state' = [state EXCEPT ![s] = "none"]
    /\ device' = d
    /\ book' = [book EXCEPT ![s] = NoBook]
    /\ unsure' = [unsure EXCEPT ![s] = {}]
    /\ UNCHANGED <<fixedVars, call, stats, delivered, faults>>

-----------------------------------------------------------------------------
(* Calls                                                                    *)

\* Faulty variant: a session that was closed still accepts calls.
EnsureBound(s) == state[s] \in {"idle", "faulted", "closed"}

\* ensure_open.  The sessions of the mock have no such test.
EnsureOpen(s) ==
    state[s] \in {"idle", "faulted"} \cup IF backend = "mock" THEN {"closed"} ELSE {}

\* before and sole are history, of the device at the beginning of the call and
\* of whether another session reached it since; only i2c's is needed.  So is
\* sure: the settings that were read and not set again since.
Calling(r, steps) ==
    [request |-> r, steps |-> steps, read |-> <<>>, failed |-> FALSE,
     before |-> IF interface = "i2c" /\ backend = "linux" THEN device ELSE NoBook, sole |-> TRUE,
     sure |-> {}]

\* execute: a request the driver or the session refuses leaves everything as
\* it was.
BeginCall(s, r, steps) ==
    /\ Supported(interface, r)
    /\ EnsureOpen(s)
    /\ delivered[s] + Payload(r) <= ByteLimit
    /\ state' = [state EXCEPT ![s] = "busy"]
    /\ call' = [call EXCEPT ![s] = Calling(r, steps)]
    /\ UNCHANGED <<fixedVars, device, book, driverVars, faults>>

NextStep(s) == Head(call[s].steps)
AtStep(s, kind) ==
    /\ state[s] = "busy"
    /\ call[s].steps # <<>>
    /\ NextStep(s).kind = kind

Rest(s) == [call[s] EXCEPT !.steps = Tail(@)]

\* A step that reaches the device disturbs the calls of the other sessions.
Touch(s, d, carried, c) ==
    /\ device' = d
    /\ delivered' = [delivered EXCEPT ![s] = @ + carried]
    /\ call' = [t \in Sessions |->
                    IF t = s THEN c
                    ELSE IF state[t] = "busy" THEN [call[t] EXCEPT !.sole = call[t].before = NoBook]
                    ELSE call[t]]
    /\ UNCHANGED <<fixedVars, state, stats, faults>>

\* finish_call
Return(s, outcome) ==
    /\ state' = [state EXCEPT ![s] = outcome]
    /\ call' = [call EXCEPT ![s] = NoCall]
    /\ UNCHANGED <<fixedVars, device, faults>>

Done(s) == state[s] = "busy" /\ call[s].steps = <<>>

\* A call whose steps are done succeeds, with what the session remembers then.
Succeed(s, b) ==
    /\ Done(s)
    /\ ~ call[s].failed
    /\ Return(s, "idle")
    /\ book' = [book EXCEPT ![s] = b]
    /\ stats' = [stats EXCEPT ![s] = Recorded(interface, @, call[s].request)]
    /\ UNCHANGED delivered

\* A step fails, or the last one of a call that had to undo something is made.
Fail(s) ==
    /\ state[s] = "busy"
    /\ IF call[s].steps = <<>> THEN call[s].failed
       ELSE NextStep(s).kind # "alternate"
    /\ Return(s, "faulted")
    /\ UNCHANGED <<book, driverVars>>
=============================================================================
