--------------------------- MODULE GenericDrivers ---------------------------
(***************************************************************************)
(* The generic drivers, one for each interface: which requests they carry   *)
(* out, the access they open their session with, and what they record of a  *)
(* request that succeeded.                                                  *)
(***************************************************************************)
EXTENDS StandardRequests, FiniteSets

\* define_generic_session_driver!
GenericAccess(interface) == IF interface = "usb" THEN "ExclusiveController" ELSE "Shared"

\* What a driver counts starts from nothing when it binds; of it, the bytes it
\* wrote and the usb interfaces it holds are followed here.
Fresh == [written |-> 0, claimed |-> {}]

\* I2cDeviceIo: reading and writing from a register on.
RegisterRead(register, length) ==
    [op |-> "write_read", messages |-> <<Message(<<register>>, length)>>]

RegisterWrite(register, bytes) ==
    [op |-> "write", messages |-> <<Message(<<register>> \o bytes, 0)>>]

\* I2cControllerTarget
At(address, r) == [op |-> r.op, address |-> address, messages |-> r.messages]

\* execute_standard_request!: a request of another interface is refused, and
\* so is an invalid one, before the session is called.
Supported(interface, r) == r.op \in Operations[interface] /\ Valid(interface, r)

\* record_bytes_written_*
Sent(stats, r) == [stats EXCEPT !.written = @ + Payload(r)]

\* execute_i2c_request: a transaction adds up the bytes of its writes.
I2cRecorded(stats, r) ==
    IF r.op \in {"write", "write_read", "transaction"} THEN Sent(stats, r) ELSE stats

SpiRecorded(stats, r) == IF r.op \in {"transfer", "write"} THEN Sent(stats, r) ELSE stats

UartRecorded(stats, r) == IF r.op = "write" THEN Sent(stats, r) ELSE stats

\* Faulty variant: claims are recorded, never taken back.
ClaimsOnly(claimed, r) ==
    IF r.op = "claim_interface" THEN claimed \cup {r.number} ELSE claimed

\* record_claim, record_release
Claims(claimed, r) ==
    CASE r.op = "claim_interface" -> claimed \cup {r.number}
      [] r.op = "release_interface" -> claimed \ {r.number}
      [] OTHER -> claimed

UsbRecorded(stats, r) ==
    LET claiming == [stats EXCEPT !.claimed = Claims(@, r)]
    IN  IF r.op \in {"control_out", "bulk_write", "interrupt_write"}
        THEN Sent(claiming, r) ELSE claiming

\* The gpio and pwm drivers count operations only.
Recorded(interface, stats, r) ==
    CASE interface = "i2c" -> I2cRecorded(stats, r)
      [] interface = "spi" -> SpiRecorded(stats, r)
      [] interface = "uart" -> UartRecorded(stats, r)
      [] interface = "usb" -> UsbRecorded(stats, r)
      [] OTHER -> stats

-----------------------------------------------------------------------------
(* snapshot_state: what a driver reports of its device, the settings as its  *)
(* session answers them and what it recorded                                *)

GpioState(settings) == [settings |-> settings]
PwmState(settings) == [settings |-> settings]
I2cState(stats) == [written |-> stats.written]
SpiState(settings, stats) == [settings |-> settings, written |-> stats.written]
UartState(settings, stats) == [settings |-> settings, written |-> stats.written]
UsbState(stats) == [written |-> stats.written, claimed |-> stats.claimed]

StateOf(interface, settings, stats) ==
    CASE interface = "gpio" -> GpioState(settings)
      [] interface = "pwm" -> PwmState(settings)
      [] interface = "i2c" -> I2cState(stats)
      [] interface = "spi" -> SpiState(settings, stats)
      [] interface = "uart" -> UartState(settings, stats)
      [] interface = "usb" -> UsbState(stats)
=============================================================================
