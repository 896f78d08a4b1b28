-------------------------- MODULE StandardRequests --------------------------
(***************************************************************************)
(* The standard requests of lemnos-core: what callers ask of a device of an *)
(* interface, and which of it lemnos-core refuses before a driver is asked. *)
(*                                                                         *)
(* A request is a record with its operation.  One that moves bytes has the  *)
(* messages to move, each some bytes written and then a number of bytes     *)
(* read; one that configures has the fields to set.                         *)
(***************************************************************************)
EXTENDS Naturals, Sequences

GpioOperations == {"read", "write", "configure", "get_configuration"}
PwmOperations == {"enable", "configure", "set_period", "set_duty_cycle", "get_configuration"}
I2cOperations == {"read", "write", "write_read", "transaction"}
SpiOperations == {"transfer", "write", "configure", "get_configuration"}
UartOperations == {"read", "write", "configure", "flush", "get_configuration"}
UsbOperations == {"control_in", "control_out", "bulk_read", "bulk_write", "interrupt_read",
                  "interrupt_write", "claim_interface", "release_interface"}

Operations == [gpio |-> GpioOperations, pwm |-> PwmOperations, i2c |-> I2cOperations,
               spi |-> SpiOperations, uart |-> UartOperations, usb |-> UsbOperations]

Interfaces == DOMAIN Operations

Message(write, read) == [write |-> write, read |-> read]

Writes(r) == r.messages # <<>> /\ r.messages[1].write # <<>>
Reads(r) == r.messages # <<>> /\ r.messages[1].read > 0

\* A setting that is given must not be zero.
Positive(field, r) == field \in DOMAIN r.fields => r.fields[field] # 0

ValidPwm(r) ==
    /\ r.op \in {"configure", "set_period"} => Positive("period", r)
    /\ r.op = "configure" => r.fields["duty_cycle"] <= r.fields["period"]

\* A write_read that writes nothing and an empty message of a transaction pass.
ValidI2c(r) ==
    /\ r.op \in {"read", "write_read"} => Reads(r)
    /\ r.op = "write" => Writes(r)
    /\ r.op = "transaction" => r.messages # <<>>

ValidSpi(r) ==
    /\ r.op \in {"transfer", "write"} => Writes(r)
    /\ r.op = "configure" => Positive("speed", r) /\ Positive("bits", r)

ValidUart(r) ==
    /\ r.op = "read" => Reads(r)
    /\ r.op = "write" => Writes(r)
    /\ r.op = "configure" => Positive("speed", r)

ValidUsb(r) ==
    /\ r.op \in {"bulk_read", "interrupt_read", "control_in"} => Reads(r)
    /\ r.op \in {"bulk_write", "interrupt_write"} => Writes(r)
    /\ r.op \in {"bulk_read", "bulk_write", "interrupt_read", "interrupt_write"} => r.endpoint > 0

\* StandardRequest::validate
Valid(interface, r) ==
    CASE interface = "pwm" -> ValidPwm(r)
      [] interface = "i2c" -> ValidI2c(r)
      [] interface = "spi" -> ValidSpi(r)
      [] interface = "uart" -> ValidUart(r)
      [] interface = "usb" -> ValidUsb(r)
      [] OTHER -> TRUE

\* The bytes a request writes.
Payload(r) ==
    IF "messages" \notin DOMAIN r THEN 0
    ELSE LET Written[k \in 0 .. Len(r.messages)] ==
                 IF k = 0 THEN 0 ELSE Written[k - 1] + Len(r.messages[k].write)
         IN  Written[Len(r.messages)]
=============================================================================
