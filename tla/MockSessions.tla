---------------------------- MODULE MockSessions ----------------------------
(***************************************************************************)
(* The sessions of lemnos-mock: devices in one structure behind a lock, and *)
(* queues of errors a test injects into operations.                         *)
(*                                                                         *)
(* A call takes the lock twice, once to take an injected error and once for *)
(* its effect, which needs the device to be there still.                    *)
(***************************************************************************)
EXTENDS DeviceSessions, FiniteSetsExt, Functions

CONSTANTS
    MockFields,     \* the settings of a device, by interface
    MockLimit,      \* bound: where reading and growing a memory is followed to
    FaultOperations,
    FaultLimit      \* bound: errors queued at a time

ASSUME MockAssumption ==
    /\ MockLimit \in Nat
    /\ FaultLimit \in Nat

OnMock == backend = "mock"

MockRegisters == 0 .. MockLimit - 1

\* MockI2cDevice: a byte beyond the end of a memory reads as 0, and a memory
\* that grows is filled with 0.
I2cContent == [memory |-> [a \in Addresses |-> [k \in MockRegisters |-> 0]],
               pointer |-> [a \in Addresses |-> 0]]

\* MockUsbDevice
UsbContent == [claimed |-> {}]

\* MockPwmChannel
PwmContent == [settings |-> [f \in MockFields.pwm |-> IF f = "period" THEN 1 ELSE 0]]

\* MockGpioLine, MockSpiDevice, MockUartPort
GpioContent == [settings |-> [f \in MockFields.gpio |-> 0]]
SpiContent == [settings |-> [f \in MockFields.spi |-> 0]]
UartContent == [settings |-> [f \in MockFields.uart |-> 0]]

Content == [i2c |-> I2cContent, usb |-> UsbContent, pwm |-> PwmContent, gpio |-> GpioContent,
            spi |-> SpiContent, uart |-> UartContent]

-----------------------------------------------------------------------------
(* What a request does                                                      *)

Outcome(ok, content, carried) == [ok |-> ok, content |-> content, carried |-> carried]

MemoryOutcome(content, address, memory, pointer, carried) ==
    Outcome(TRUE, [memory |-> [content.memory EXCEPT ![address] = memory],
                   pointer |-> [content.pointer EXCEPT ![address] = Min({pointer, MockLimit})]],
            carried)

\* read_from_state
ReadOutcome(content, address, length) ==
    MemoryOutcome(content, address, content.memory[address], content.pointer[address] + length, 0)

\* write_to_state: the pointer is left behind the last byte.
WriteOutcome(content, address, bytes) ==
    IF bytes = <<>> THEN Outcome(FALSE, content, 0)
    ELSE MemoryOutcome(content, address,
            [k \in MockRegisters |->
                IF k >= bytes[1] /\ k - bytes[1] < Len(bytes) - 1
                THEN bytes[k - bytes[1] + 2] ELSE content.memory[address][k]],
            bytes[1] + Len(bytes) - 1, Len(bytes))

\* What is read is read from where the write was made, not from behind it.
WriteReadOutcome(content, address, bytes, length) ==
    LET written == WriteOutcome(content, address, bytes)
    IN  IF ~ written.ok THEN written
        ELSE MemoryOutcome(content, address, written.content.memory[address],
                           bytes[1] + length, Len(bytes))

\* A transaction ends with the first message that is refused; those before it
\* were made.
TransactionOutcome(content, address, messages) ==
    LET After[k \in 0 .. Len(messages)] ==
            IF k = 0 THEN Outcome(TRUE, content, 0)
            ELSE LET before == After[k - 1]
                     done == IF messages[k].read > 0
                             THEN ReadOutcome(before.content, address, messages[k].read)
                             ELSE WriteOutcome(before.content, address, messages[k].write)
                 IN  IF before.ok THEN [done EXCEPT !.carried = @ + before.carried] ELSE before
    IN  After[Len(messages)]

I2cOutcome(content, r) ==
    CASE r.op = "read" -> ReadOutcome(content, r.address, r.messages[1].read)
      [] r.op = "write" -> WriteOutcome(content, r.address, r.messages[1].write)
      [] r.op = "write_read" ->
            WriteReadOutcome(content, r.address, r.messages[1].write, r.messages[1].read)
      [] r.op = "transaction" -> TransactionOutcome(content, r.address, r.messages)

\* The claims of a device are no session's own.
UsbOutcome(content, r) ==
    CASE r.op = "claim_interface" ->
            Outcome(r.number \in Numbers, [claimed |-> content.claimed \cup ({r.number} \cap Numbers)], 0)
      [] r.op = "release_interface" -> Outcome(TRUE, [claimed |-> content.claimed \ {r.number}], 0)
      [] OTHER -> Outcome(TRUE, content, Payload(r))

\* A configuration is stored as a whole: what it does not give is unset.
Replaced(content, r) ==
    [settings |-> [f \in DOMAIN content.settings |-> IF f \in DOMAIN r.fields THEN r.fields[f] ELSE 0]]

\* A duty cycle beyond the period is refused whichever of the two is set.
PwmOutcome(content, r) ==
    LET after == [settings |-> [f \in DOMAIN content.settings |->
                                    IF f \in DOMAIN r.fields THEN r.fields[f]
                                                             ELSE content.settings[f]]]
    IN  CASE r.op \in {"set_period", "set_duty_cycle"} ->
                Outcome(after.settings["duty_cycle"] <= after.settings["period"], after, 0)
          [] r.op = "enable" -> Outcome(TRUE, after, 0)
          [] r.op = "configure" -> Outcome(TRUE, Replaced(content, r), 0)

\* The level of a line is not a part of its configuration.
GpioOutcome(content, r) ==
    CASE r.op = "read" -> Outcome(TRUE, content, 0)
      [] r.op = "write" ->
            Outcome(content.settings["output"] # 0,
                    [settings |-> [content.settings EXCEPT !["level"] = r.value]], 0)
      [] r.op = "configure" ->
            Outcome(TRUE,
                    IF "level" \in DOMAIN r.fields THEN Replaced(content, r)
                    ELSE [settings |-> [Replaced(content, r).settings EXCEPT
                                            !["level"] = content.settings["level"]]], 0)

SpiOutcome(content, r) ==
    CASE r.op \in {"transfer", "write"} -> Outcome(TRUE, content, Payload(r))
      [] r.op = "configure" -> Outcome(TRUE, Replaced(content, r), 0)

UartOutcome(content, r) ==
    CASE r.op \in {"read", "write", "flush"} -> Outcome(TRUE, content, Payload(r))
      [] r.op = "configure" -> Outcome(TRUE, Replaced(content, r), 0)

RequestOutcome(r) ==
    CASE interface = "i2c" -> I2cOutcome(device.content, r)
      [] interface = "usb" -> UsbOutcome(device.content, r)
      [] interface = "pwm" -> PwmOutcome(device.content, r)
      [] interface = "gpio" -> GpioOutcome(device.content, r)
      [] interface = "spi" -> SpiOutcome(device.content, r)
      [] interface = "uart" -> UartOutcome(device.content, r)

-----------------------------------------------------------------------------
(* Calls                                                                    *)

Queued(op) == op \in FaultOperations /\ faults[op] > 0

TakeFault(op) == faults' = [faults EXCEPT ![op] = @ - 1]

\* The bus is there whatever device of it is attached.
OpenController(s) == interface = "i2c" /\ s \in Controllers

\* open_gpio, open_pwm, open_i2c, open_i2c_controller, open_spi, open_uart, open_usb
OpenMock(s) ==
    /\ OnMock
    /\ ~ Queued("open")
    /\ device.present \/ OpenController(s)
    /\ Bind(s, device, NoBook)
    /\ UNCHANGED unsure

OpenInjected(s) ==
    /\ OnMock
    /\ state[s] = "none"
    /\ Queued("open") /\ TakeFault("open")
    /\ UNCHANGED <<fixedVars, device, state, book, call, driverVars>>

\* What a session refuses before the call begins; gpio and i2c ask for no
\* right to write.
Accepted(s, r) ==
    CASE interface = "i2c" -> s \in Controllers \/ r.address = OwnAddress
      [] interface = "gpio" ->
            r.op = "configure" /\ "level" \in DOMAIN r.fields => r.fields["output"] # 0
      [] interface = "usb" -> CanWrite(s) \/ r.op \in {"control_in", "bulk_read", "interrupt_read"}
      [] interface = "uart" -> CanWrite(s) \/ r.op = "read"
      [] interface \in {"pwm", "spi"} -> CanWrite(s)

\* get_configuration is no call of a session.
BeginMock(s, r) ==
    /\ OnMock
    /\ r.op # "get_configuration"
    /\ Accepted(s, r)
    /\ BeginCall(s, r, <<[kind |-> "injected"], [kind |-> "effect"]>>)

\* take_injected_error
Injected(s) ==
    /\ OnMock /\ AtStep(s, "injected")
    /\ IF Queued(call[s].request.op)
       THEN /\ TakeFault(call[s].request.op)
            /\ state' = [state EXCEPT ![s] = "faulted"]
            /\ call' = [call EXCEPT ![s] = NoCall]
       ELSE /\ call' = [call EXCEPT ![s] = Rest(s)]
            /\ UNCHANGED <<state, faults>>
    /\ UNCHANGED <<fixedVars, device, book, driverVars>>

\* Flushing a serial port does not look for it.
Reachable(s) ==
    \/ device.present
    \/ OpenController(s) /\ call[s].request.address # OwnAddress
    \/ interface = "uart" /\ call[s].request.op = "flush"

Effect(s) ==
    /\ OnMock /\ AtStep(s, "effect")
    /\ Reachable(s)
    /\ LET done == RequestOutcome(call[s].request) IN
        /\ done.ok
        /\ Touch(s, [device EXCEPT !.content = done.content], done.carried, Rest(s))
    /\ UNCHANGED <<book, unsure>>

\* The device is gone, or refuses: a transaction keeps what it did before.
EffectFails(s) ==
    /\ OnMock /\ AtStep(s, "effect")
    /\ LET done == RequestOutcome(call[s].request) IN
        \/ /\ ~ Reachable(s)
           /\ UNCHANGED <<device, delivered>>
        \/ /\ Reachable(s) /\ ~ done.ok
           /\ interface = "i2c" /\ device' = [device EXCEPT !.content = done.content]
           /\ delivered' = [delivered EXCEPT ![s] = @ + done.carried]
        \/ /\ Reachable(s) /\ ~ done.ok
           /\ interface # "i2c"
           /\ UNCHANGED <<device, delivered>>
    /\ state' = [state EXCEPT ![s] = "faulted"]
    /\ call' = [call EXCEPT ![s] = NoCall]
    /\ UNCHANGED <<fixedVars, book, stats, unsure, faults>>

MockStep(s) ==
    \/ OpenMock(s) \/ OpenInjected(s)
    \/ \E r \in Requests[s][interface] : BeginMock(s, r)
    \/ Injected(s) \/ Effect(s) \/ EffectFails(s)
    \/ OnMock /\ Succeed(s, book[s]) /\ UNCHANGED unsure
    \/ OnMock /\ MarkClosed(s)
    \/ OnMock /\ Drop(s, device)

-----------------------------------------------------------------------------
(* What a test does between the calls                                       *)

\* queue_error, queue_timeout, queue_script
QueueError(op) ==
    /\ OnMock
    /\ FoldFunction(+, 0, faults) < FaultLimit
    /\ faults' = [faults EXCEPT ![op] = @ + 1]
    /\ UNCHANGED <<fixedVars, device, state, book, call, driverVars>>

NoFaults == [op \in FaultOperations |-> 0]

ClearFaults ==
    /\ OnMock
    /\ faults' = NoFaults
    /\ UNCHANGED <<fixedVars, device, state, book, call, driverVars>>

\* remove_device takes the queues of the device with it.
RemoveDevice ==
    /\ OnMock /\ device.present
    /\ device' = [device EXCEPT !.present = FALSE]
    /\ faults' = NoFaults
    /\ UNCHANGED <<fixedVars, state, book, call, driverVars>>

\* attach_*: a new device with the same id; sessions of the old one reach it.
AttachDevice ==
    /\ OnMock
    /\ device' = [present |-> TRUE,
                  content |-> IF interface = "i2c"
                              THEN [memory |-> [device.content.memory EXCEPT
                                        ![OwnAddress] = [k \in MockRegisters |-> 0]],
                                    pointer |-> [device.content.pointer EXCEPT ![OwnAddress] = 0]]
                              ELSE Content[interface]]
    /\ UNCHANGED <<fixedVars, state, book, call, driverVars, faults>>

MockTest ==
    \/ \E op \in FaultOperations : QueueError(op)
    \/ ClearFaults \/ RemoveDevice \/ AttachDevice

MockInit ==
    /\ interface \in Interfaces /\ backend = "mock"
    /\ device = [present |-> TRUE, content |-> Content[interface]]
=============================================================================
