---------------------------- MODULE DeviceStack ----------------------------
(***************************************************************************)
(* The generic drivers over every transport with sessions of its own: i2c,  *)
(* spi, uart, usb and the lines of the gpio character device on Linux, and  *)
(* all six interfaces of the mock.                                          *)
(***************************************************************************)
EXTENDS I2cSessions, SerialSessions, UsbSessions, MockSessions

\* A step of a session of Linux fails whenever the kernel wants it to.
LinuxFails(s) == backend = "linux" /\ Fail(s)

SessionStep(s) ==
    \/ I2cStep(s) \/ SerialStep(s) \/ CdevStep(s) \/ UsbStep(s) \/ MockStep(s)
    \/ LinuxFails(s)

Init ==
    /\ I2cInit \/ SerialInit \/ UsbInit \/ MockInit
    /\ access \in [Sessions -> SessionAccess]
    /\ \A s \in Sessions : access[s] \in {GenericAccess(interface)} \cup CustomAccess[s]
    /\ state = [s \in Sessions |-> "none"]
    /\ book = [s \in Sessions |-> NoBook]
    /\ call = [s \in Sessions |-> NoCall]
    /\ stats = [s \in Sessions |-> Fresh]
    /\ delivered = [s \in Sessions |-> 0]
    /\ unsure = [s \in Sessions |-> {}]
    /\ faults = NoFaults

Next == (\E s \in Sessions : SessionStep(s)) \/ LineChanges \/ MockTest

Spec == Init /\ [][Next]_deviceVars

-----------------------------------------------------------------------------
(* Properties                                                               *)

\* What the calls of a session may change: not the direction of a line, which is
\* anybody's, nor which address or claim a handle has, nor what the mock does.
StackHardware ==
    [memory |-> IF OnI2c THEN device.memory
                ELSE [a \in Addresses |-> [i \in Registers |-> 0]],
     settings |-> IF OnSerial \/ OnCdev
                  THEN {<<f, device.settings[f]>> : f \in DOMAIN device.settings \ {"output"}}
                  ELSE {},
     delivered |-> IF OnMock THEN [s \in Sessions |-> 0] ELSE delivered]

StackFields == UNION {ToSet(Fields[i]) : i \in {"spi", "uart", "gpio"}}

Bus == INSTANCE BusSession WITH
    state <- IF OnMock THEN [s \in Sessions |-> "none"] ELSE state,
    hardware <- StackHardware,
    Hardware <- [memory : [Addresses -> [Registers -> Registers]],
                 settings : SUBSET (StackFields \X Values),
                 delivered : [Sessions -> 0 .. ByteLimit]]

(* The kernel transports implement the session lemnos-bus promises: one call *)
(* at a time, closed for good until dropped, the device reached from within  *)
(* a call and by a session that may write, whatever another session does at  *)
(* the same time (session.rs, run_call of every transport).                  *)
ImplementsBusSession == Bus!Spec

\* BoundDevice::state, which a driver answers from its session and counters.
Reported(s) == StateOf(interface, book[s], stats[s])

(* Between its calls a session knows its device: the settings its driver     *)
(* reports are those of the kernel, the interfaces it will release are those *)
(* it holds, the address it thinks selected is.  Excepted are what a call    *)
(* that failed half way or another session's call touched since (uart        *)
(* configure, spi configure, claim_interface, close).                        *)
SessionsKnowTheirDevice ==
    \A s \in Sessions :
        backend = "linux" /\ state[s] \notin {"none", "busy"} =>
            CASE interface = "i2c" -> book[s] = device.selected[s]
              [] interface \in {"spi", "uart"} ->
                    \A f \in DOMAIN device.settings \ unsure[s] :
                        Reported(s).settings[f] = device.settings[f]
              [] interface = "gpio" ->
                    device.holder = s /\ Reported(s).settings["output"] = device.settings["output"]
              [] interface = "usb" ->
                    \A n \in Numbers \ unsure[s] : n \in book[s] <=> n \in Claimed(s)

(* A driver reports what happened: no more bytes than reached the device,    *)
(* where a transport does not take a part of them for all (libusb's does),   *)
(* and as claimed the interfaces its open session holds.                     *)
CountersAreEarned ==
    \A s \in Sessions :
        /\ interface # "usb" \/ OnMock => stats[s].written <= delivered[s]
        /\ OnUsb /\ state[s] \in {"idle", "faulted"} =>
                \A n \in Numbers \ unsure[s] : n \in Reported(s).claimed <=> n \in Claimed(s)
=============================================================================
