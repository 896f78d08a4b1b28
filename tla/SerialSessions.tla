--------------------------- MODULE SerialSessions ---------------------------
(***************************************************************************)
(* LinuxSpiSession, LinuxUartSession and LinuxCdevGpioSession: sessions that *)
(* remember the settings of their device, and answer configuration() with   *)
(* what they remember.                                                      *)
(*                                                                         *)
(* The settings belong to the kernel: several spi sessions share them, a    *)
(* serial port and a gpio line belong to one session until it is dropped.   *)
(* Configuring sets one field after the other and reads them back, again     *)
(* one after the other; what was read is remembered when all of it is.      *)
(***************************************************************************)
EXTENDS DeviceSessions, SequencesExt

CONSTANTS
    Fields,         \* the settings of a device, by interface, in the order they are set
    ReadOrder,      \* and in the order they are read
    Values,         \* the values of a setting; 0 is one
    DefaultSpeed,   \* uart_default_baud_rate
    DefaultSetting  \* what a serial port is opened with

SettingsOf(i) == [ToSet(Fields[i]) -> Values]

SerialDevices == UNION {[settings : SettingsOf(i), holder : Holders] : i \in {"spi", "uart", "gpio"}}

\* SpiRequest, UartRequest, GpioRequest: what is to be set, moved or written.
IsSerialRequest(i, r) ==
    /\ "messages" \in DOMAIN r => r.messages \in Seq([write : Seq(Nat), read : Nat])
    /\ r.op = "configure" => r.fields \in UNION {[D -> Values] : D \in SUBSET ToSet(Fields[i])}
    /\ i = "gpio" /\ r.op = "write" => r.value \in Values

ASSUME SerialAssumption ==
    /\ \A i \in {"spi", "uart", "gpio"} : Fields[i] \in Seq(STRING)
    /\ \A i \in {"spi", "uart"} : ReadOrder[i] \in Seq(STRING) /\ ToSet(ReadOrder[i]) = ToSet(Fields[i])
    /\ "speed" \in ToSet(Fields["uart"])
    /\ {"output", "level"} \subseteq ToSet(Fields["gpio"])
    /\ Values \subseteq Nat /\ {0, 1, DefaultSpeed, DefaultSetting} \subseteq Values
    /\ \A s \in Sessions : \A i \in {"spi", "uart", "gpio"} :
            \A r \in Requests[s][i] : IsSerialRequest(i, r)

\* What the kernel makes of a value it is asked for: a speed may become one
\* the hardware has.
Granted(field, value) ==
    IF field = "speed" THEN {v \in Values : 0 < v /\ v <= value} ELSE {value}

\* A field is set: no session can be sure of it before it reads it back.
Unsure(fields) ==
    [s \in Sessions |-> IF state[s] = "none" THEN {} ELSE unsure[s] \cup fields]

\* What was read of a field is not sure once the field is set again.
Disturbed(c, field) == [c EXCEPT !.sure = @ \ {field}]

\* A transport that is being opened reads the settings before there is a session.
Opening(s) == state[s] = "none" /\ call[s] # NoCall

InCall(s) == state[s] = "busy" \/ Opening(s)

\* A step that keeps everything.
Pass(s) ==
    /\ call' = [call EXCEPT ![s] = Rest(s)]
    /\ UNCHANGED <<fixedVars, device, state, book, driverVars, faults>>

\* A port or a line is given up by the drop of its session, not by its close.
Released(s) == IF device.holder = s THEN [device EXCEPT !.holder = NoHolder] ELSE device

-----------------------------------------------------------------------------
(* Steps of spi and uart calls                                              *)

OnSerial == interface \in {"spi", "uart"} /\ backend = "linux"

SetField(f, v) == [kind |-> "set", field |-> f, value |-> v]

SetSteps(fields) ==
    LET order == Fields[interface]
    IN  FlattenSeq([k \in DOMAIN order |->
                        IF order[k] \in DOMAIN fields THEN <<SetField(order[k], fields[order[k]])>>
                                                      ELSE <<>>])

GetField(f) == [kind |-> "get", field |-> f]

ReadBack == [k \in DOMAIN ReadOrder[interface] |-> GetField(ReadOrder[interface][k])]

\* write_all may be several writes.
SendBytes(count) == [k \in 1 .. count |-> [kind |-> "send", carries |-> 1]]

SetStep(s) ==
    /\ OnSerial /\ AtStep(s, "set")
    /\ LET f == NextStep(s).field
       IN  /\ \E v \in Granted(f, NextStep(s).value) : device' = [device EXCEPT !.settings[f] = v]
           /\ call' = [t \in Sessions |->
                           IF t = s THEN Disturbed(Rest(s), f)
                           ELSE IF InCall(t) THEN Disturbed(call[t], f)
                           ELSE call[t]]
           /\ unsure' = Unsure({f})
    /\ UNCHANGED <<fixedVars, state, book, stats, delivered, faults>>

\* What was read, and a field more.
Noted(read, field, value) ==
    [f \in DOMAIN read \cup {field} |-> IF f = field THEN value ELSE read[f]]

\* One ioctl of read_kernel_configuration, one query of read_port_configuration.
GetStep(s) ==
    /\ OnSerial
    /\ InCall(s)
    /\ call[s].steps # <<>> /\ NextStep(s).kind = "get"
    /\ LET f == NextStep(s).field
       IN  call' = [call EXCEPT ![s] = [Rest(s) EXCEPT !.read = Noted(@, f, device.settings[f]),
                                                       !.sure = @ \cup {f}]]
    /\ UNCHANGED <<fixedVars, device, state, book, driverVars, faults>>

\* Faulty variant: what was asked for is remembered.
RememberRequested(s) ==
    IF call[s].request.op = "configure" THEN call[s].request.fields @@ book[s] ELSE book[s]

\* A configure that has read everything back remembers it.
RememberSettings(s) == IF call[s].request.op = "configure" THEN call[s].read ELSE book[s]

FinishSerial(s) ==
    /\ OnSerial
    /\ Succeed(s, RememberSettings(s))
    /\ unsure' = [unsure EXCEPT ![s] = @ \ call[s].sure]

Send(s) ==
    /\ OnSerial /\ AtStep(s, "send")
    /\ Touch(s, device, NextStep(s).carries, Rest(s))
    /\ UNCHANGED <<book, unsure>>

-----------------------------------------------------------------------------
(* spi                                                                      *)

OnSpi == interface = "spi" /\ backend = "linux"

\* LinuxKernelSpiTransport::new reads the settings the kernel has, while the
\* sessions that are open may set them, or fails.
OpenSpi(s) ==
    /\ OnSpi
    /\ state[s] = "none" /\ call[s] = NoCall
    /\ call' = [call EXCEPT ![s] = Calling([op |-> "open"], ReadBack)]
    /\ UNCHANGED <<fixedVars, device, state, book, driverVars, faults>>

OpenSpiFails(s) ==
    /\ OnSpi
    /\ Opening(s) /\ call[s].steps # <<>>
    /\ call' = [call EXCEPT ![s] = NoCall]
    /\ UNCHANGED <<fixedVars, device, state, book, driverVars, faults>>

BindSpi(s) ==
    /\ OnSpi
    /\ Opening(s) /\ call[s].steps = <<>>
    /\ Bind(s, device, call[s].read)
    /\ unsure' = [unsure EXCEPT ![s] = ToSet(Fields["spi"]) \ call[s].sure]

\* to_spidev_options: a field that is not given stays as it is.
SpiConfigureSteps(r) == SetSteps(r.fields) \o ReadBack

\* A transfer is one message, a write as many as it takes.
SpiSteps(r) ==
    CASE r.op = "configure" -> SpiConfigureSteps(r)
      [] r.op = "transfer" -> <<[kind |-> "send", carries |-> Payload(r)]>>
      [] r.op = "write" -> SendBytes(Payload(r))

\* ensure_writable, run_transport_call
BeginSpi(s, r) ==
    /\ OnSpi
    /\ r.op # "get_configuration"
    /\ CanWrite(s)
    /\ BeginCall(s, r, SpiSteps(r))

SpiStep(s) ==
    \/ OpenSpi(s) \/ OpenSpiFails(s) \/ BindSpi(s)
    \/ \E r \in Requests[s].spi : BeginSpi(s, r)

-----------------------------------------------------------------------------
(* uart                                                                     *)

OnUart == interface = "uart" /\ backend = "linux"

\* A port that is open is refused.
OpenPort(s) ==
    /\ OnUart
    /\ state[s] = "none"
    /\ device.holder = NoHolder

\* open_native sets the speed it is given and all other settings to what
\* serialport::new has for them: eight data bits, no parity, one stop bit, no
\* flow control.
Opened(speed) == [f \in ToSet(Fields["uart"]) |-> IF f = "speed" THEN speed ELSE DefaultSetting]

BindUart(s) ==
    /\ OpenPort(s)
    /\ \E speed \in Granted("speed", DefaultSpeed) :
        Bind(s, [settings |-> Opened(speed), holder |-> s], Opened(speed))
    /\ UNCHANGED unsure

\* Reading the settings of a port that was opened may fail.
OpenFails(s) ==
    /\ OpenPort(s)
    /\ \E speed \in Granted("speed", DefaultSpeed) :
        device' = [device EXCEPT !.settings = Opened(speed)]
    /\ UNCHANGED <<fixedVars, state, book, call, driverVars, faults>>

\* set_baud_rate, set_data_bits, set_parity, set_stop_bits, set_flow_control
UartConfigureSteps(r) == SetSteps(r.fields) \o ReadBack

UartSteps(r) ==
    CASE r.op = "configure" -> UartConfigureSteps(r)
      [] r.op = "write" -> SendBytes(Payload(r))
      [] r.op \in {"read", "flush"} -> <<[kind |-> "ask"]>>

BeginUart(s, r) ==
    /\ OnUart
    /\ r.op # "get_configuration"
    /\ CanWrite(s) \/ r.op = "read"
    /\ BeginCall(s, r, UartSteps(r))

\* A read, which may time out with nothing, or a flush.
AskPort(s) == OnUart /\ AtStep(s, "ask") /\ Pass(s)

UartStep(s) ==
    \/ BindUart(s) \/ OpenFails(s)
    \/ \E r \in Requests[s].uart : BeginUart(s, r)
    \/ AskPort(s)

SerialStep(s) ==
    \/ SpiStep(s) \/ UartStep(s)
    \/ SetStep(s) \/ GetStep(s) \/ Send(s)
    \/ FinishSerial(s)
    \/ OnSerial /\ MarkClosed(s)
    \/ OnSerial /\ Drop(s, Released(s))

-----------------------------------------------------------------------------
(* gpio lines through the character device                                  *)

OnCdev == interface = "gpio" /\ backend = "linux"

\* request_handle: the line gets the direction and the level it is asked for,
\* low if none is; the kernel refuses a line that has a holder.
Requested(configuration) ==
    [device.settings EXCEPT
        !["output"] = configuration["output"],
        !["level"] = IF configuration["output"] = 0 THEN @
                     ELSE IF "level" \in DOMAIN configuration THEN configuration["level"]
                     ELSE 0]

\* configuration_from_info: there is no level in it.
LineInfo == [output |-> device.settings["output"]]

\* open requests the line as it is: an output is driven low.
BindCdev(s) ==
    /\ OnCdev
    /\ device.holder = NoHolder
    /\ Bind(s, [settings |-> Requested(LineInfo), holder |-> s], LineInfo)
    /\ UNCHANGED unsure

\* configure_line requests the line again while the session holds it: the
\* kernel refuses, and the configuration stays.
CdevSteps(r) ==
    CASE r.op = "configure" -> <<[kind |-> "refusal"]>>
      [] r.op = "write" -> <<[kind |-> "level", value |-> r.value]>>
      [] r.op = "read" -> <<[kind |-> "ask"]>>

\* No bias, debounce or edge, and no level for an input.
Configurable(fields) ==
    /\ DOMAIN fields \subseteq {"output", "level"}
    /\ fields["output"] # 0 \/ "level" \notin DOMAIN fields

\* A level is written to what the session remembers as an output.
BeginCdev(s, r) ==
    /\ OnCdev
    /\ EnsureOpen(s)
    /\ CASE r.op = "read" -> TRUE
         [] r.op = "write" -> CanWrite(s) /\ book[s]["output"] # 0
         [] r.op = "configure" -> CanWrite(s) /\ Configurable(r.fields)
         [] OTHER -> FALSE
    /\ BeginCall(s, r, CdevSteps(r))

SetLevel(s) ==
    /\ OnCdev /\ AtStep(s, "level")
    /\ Touch(s, [device EXCEPT !.settings["level"] = NextStep(s).value], 0, Rest(s))
    /\ UNCHANGED <<book, unsure>>

GetLevel(s) == OnCdev /\ AtStep(s, "ask") /\ Pass(s)

\* A line without a holder is anybody's.
LineChanges ==
    /\ OnCdev
    /\ device.holder = NoHolder
    /\ \E v \in {0, 1} : device' = [device EXCEPT !.settings["output"] = v]
    /\ UNCHANGED <<fixedVars, state, book, call, driverVars, faults>>

CdevStep(s) ==
    \/ BindCdev(s)
    \/ \E r \in Requests[s].gpio : BeginCdev(s, r)
    \/ SetLevel(s) \/ GetLevel(s)
    \/ OnCdev /\ Succeed(s, book[s]) /\ UNCHANGED unsure
    \/ OnCdev /\ MarkClosed(s)
    \/ OnCdev /\ Drop(s, Released(s))

SerialInit ==
    /\ interface \in {"spi", "uart", "gpio"} /\ backend = "linux"
    /\ device = [settings |-> [f \in ToSet(Fields[interface]) |-> 0], holder |-> NoHolder]
=============================================================================
