--------------------------- MODULE MCDeviceStack ---------------------------
(***************************************************************************)
(* Two sessions of one device: a controller of an i2c bus and a session of  *)
(* a device on it, two of an spi device or of a usb device, one after the   *)
(* other of a serial port or a line.                                        *)
(***************************************************************************)
EXTENDS DeviceStack

CONSTANTS s1, s2

\* s2 may also be a session that a driver of its own opened for reading.
MCCustomAccess == [s \in Sessions |-> IF s = s1 THEN {} ELSE {"SharedReadOnly"}]

\* The mode, which every configuration of spi has, stands for its bit order too,
\* the speed, which may be left out, for the bits of a word; the data bits of a
\* port stand for its parity, stop bits and flow control.
MCFields == [spi |-> <<"speed", "mode">>, uart |-> <<"speed", "bits">>,
             gpio |-> <<"output", "level">>]

MCReadOrder == [spi |-> <<"mode", "speed">>, uart |-> <<"speed", "bits">>]

MCMockFields == [spi |-> {"speed", "bits"}, uart |-> {"speed", "bits"},
                 gpio |-> {"output", "level"}, pwm |-> {"period", "duty_cycle", "enabled"}]

Exchanged(op, messages) == [op |-> op, messages |-> messages]
Configure(fields) == [op |-> "configure", fields |-> fields]

\* The write wraps, and the transaction has an empty write at its end.
WriteTwo(address) == At(address, RegisterWrite(2, <<1, 2>>))
ReadTwo(address) == At(address, RegisterRead(2, 2))
ReadOne == [op |-> "read", address |-> 1, messages |-> <<Message(<<>>, 1)>>]
Broken == [op |-> "transaction", address |-> 1, messages |-> <<Message(<<1, 1>>, 0), Message(<<>>, 0)>>]

Claim(n, alternate) == [op |-> "claim_interface", number |-> n, alternate |-> alternate]
Release(n) == [op |-> "release_interface", number |-> n]
BulkWrite == [op |-> "bulk_write", endpoint |-> 1, messages |-> <<Message(<<1, 2>>, 0)>>]
Level == [op |-> "write", value |-> 1]
Pwm(op, fields) == [op |-> op, fields |-> fields]

First ==
    [i2c |-> {WriteTwo(1), ReadTwo(2), Broken},
     spi |-> {Configure([speed |-> 2, mode |-> 0]), Configure([mode |-> 1]), Exchanged("transfer", <<Message(<<1>>, 1)>>)},
     uart |-> {Configure([speed |-> 2, bits |-> 1]), Exchanged("write", <<Message(<<1, 2>>, 0)>>)},
     gpio |-> {Configure([output |-> 1, level |-> 1]), Level},
     pwm |-> {Configure([period |-> 2, duty_cycle |-> 1, enabled |-> 1]), Pwm("set_period", [period |-> 1])},
     usb |-> {Claim(0, TRUE), Claim(1, FALSE), Release(0), BulkWrite}]

Second ==
    [i2c |-> {ReadOne},
     spi |-> {Configure([speed |-> 1, mode |-> 1])},
     uart |-> {Configure([speed |-> 1, bits |-> 0]), Exchanged("read", <<Message(<<>>, 1)>>)},
     gpio |-> {Configure([output |-> 0]), Exchanged("read", <<>>)},
     pwm |-> {Pwm("set_duty_cycle", [duty_cycle |-> 2]), Pwm("enable", [enabled |-> 1])},
     usb |-> {Claim(0, FALSE), Release(0)}]

MCRequests == [s \in Sessions |-> IF s = s1 THEN First ELSE Second]
=============================================================================
