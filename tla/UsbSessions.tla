---------------------------- MODULE UsbSessions ----------------------------
(***************************************************************************)
(* LinuxUsbSession over LinuxLibusbTransport: claims of the interfaces of a *)
(* usb device, which the kernel gives to one handle each, and transfers.    *)
(*                                                                         *)
(* A session remembers its claims to release them when it is closed.        *)
(***************************************************************************)
EXTENDS DeviceSessions

UsbDevices == [claimant : [Numbers -> Holders]]

\* UsbRequest: a transfer in writes nothing.
IsUsbRequest(r) ==
    /\ r.op = "claim_interface" => r.alternate \in BOOLEAN
    /\ "messages" \in DOMAIN r => r.messages \in Seq([write : Seq(Nat), read : Nat])
    /\ r.op \in {"control_in", "bulk_read", "interrupt_read"} =>
            \A k \in DOMAIN r.messages : r.messages[k].write = <<>>

ASSUME UsbAssumption == \A s \in Sessions : \A r \in Requests[s].usb : IsUsbRequest(r)

Claimed(s) == {n \in Numbers : device.claimant[n] = s}

Give(numbers, to) ==
    [device EXCEPT !.claimant = [n \in Numbers |-> IF n \in numbers THEN to ELSE @[n]]]

OnUsb == interface = "usb" /\ backend = "linux"

\* LinuxUsbSession::open has a handle and no claims.
BindUsb(s) ==
    /\ OnUsb
    /\ Bind(s, device, {})
    /\ UNCHANGED unsure

Step(kind, n) == [kind |-> kind, number |-> n]

ClaimSteps(r) ==
    <<Step("claim", r.number)>> \o
        (IF r.alternate THEN <<Step("alternate", r.number)>> ELSE <<>>)

UsbSteps(r) ==
    CASE r.op = "claim_interface" -> ClaimSteps(r)
      [] r.op = "release_interface" -> <<Step("release", r.number)>>
      [] OTHER -> <<Step("exchange", 0)>>

\* A session that may not write may still read.
MayAsk(s, r) == CanWrite(s) \/ r.op \in {"control_in", "bulk_read", "interrupt_read"}

BeginUsb(s, r) ==
    /\ OnUsb
    /\ MayAsk(s, r)
    /\ BeginCall(s, r, UsbSteps(r))

\* The kernel lets a handle claim again what it holds.
TakeClaim(s) ==
    /\ OnUsb /\ AtStep(s, "claim")
    /\ LET n == NextStep(s).number IN
        /\ n \in Numbers
        /\ device.claimant[n] \in {NoHolder, s}
        /\ Touch(s, Give({n}, s), 0, Rest(s))
    /\ UNCHANGED <<book, unsure>>

SetAlternate(s) ==
    /\ OnUsb /\ AtStep(s, "alternate")
    /\ call' = [call EXCEPT ![s] = Rest(s)]
    /\ UNCHANGED <<fixedVars, device, state, book, driverVars, faults>>

\* The claim is given back, one that was there before the call included, and
\* is not forgotten.
AlternateFails(s) ==
    /\ OnUsb /\ AtStep(s, "alternate")
    /\ call' = [call EXCEPT ![s].steps = <<Step("release", NextStep(s).number)>>,
                            ![s].failed = TRUE]
    /\ unsure' = [unsure EXCEPT ![s] = @ \cup {NextStep(s).number}]
    /\ UNCHANGED <<fixedVars, device, state, book, stats, delivered, faults>>

GiveBack(s) ==
    /\ OnUsb /\ AtStep(s, "release")
    /\ LET n == NextStep(s).number IN
        /\ n \in Claimed(s)
        /\ Touch(s, Give({n}, NoHolder), 0, Rest(s))
    /\ UNCHANGED <<book, unsure>>

MovedByControl(r) == {Payload(r)}

\* A transfer out that times out may have moved a part of its bytes, and
\* libusb's binding calls it a success: write_bulk, write_interrupt.
MovedInBulk(r) == IF Payload(r) = 0 THEN {0} ELSE 1 .. Payload(r)

MovedByInterrupt(r) == IF Payload(r) = 0 THEN {0} ELSE 1 .. Payload(r)

Moved(r) ==
    CASE r.op \in {"control_in", "control_out"} -> MovedByControl(r)
      [] r.op \in {"bulk_read", "bulk_write"} -> MovedInBulk(r)
      [] r.op \in {"interrupt_read", "interrupt_write"} -> MovedByInterrupt(r)

Exchange(s) ==
    /\ OnUsb /\ AtStep(s, "exchange")
    /\ \E moved \in Moved(call[s].request) : Touch(s, device, moved, Rest(s))
    /\ UNCHANGED <<book, unsure>>

\* Faulty variant: a release is not forgotten.
RememberOnly(s) ==
    LET r == call[s].request IN
    IF r.op \in {"claim_interface", "release_interface"}
    THEN book[s] \cup {r.number} ELSE book[s]

\* remember_claimed_interface, forget_claimed_interface
Remember(s) ==
    LET r == call[s].request IN
    CASE r.op = "claim_interface" -> book[s] \cup {r.number}
      [] r.op = "release_interface" -> book[s] \ {r.number}
      [] OTHER -> book[s]

FinishUsb(s) ==
    /\ OnUsb
    /\ Succeed(s, Remember(s))
    /\ LET r == call[s].request IN
        unsure' = [unsure EXCEPT ![s] =
                        IF r.op \in {"claim_interface", "release_interface"}
                        THEN @ \ {r.number} ELSE @]

\* close takes the remembered claims and releases one after the other.
CloseUsb(s) ==
    /\ OnUsb
    /\ state[s] \in {"idle", "faulted", "closed"}
    /\ book[s] \subseteq Claimed(s)
    /\ device' = Give(book[s], NoHolder)
    /\ book' = [book EXCEPT ![s] = {}]
    /\ state' = [state EXCEPT ![s] = "closed"]
    /\ UNCHANGED <<fixedVars, call, driverVars, faults>>

\* The first release that fails ends the close: the session is not closed, has
\* forgotten the claims it did not release, and the driver reports them all.
CloseFails(s) ==
    /\ OnUsb
    /\ state[s] \in {"idle", "faulted", "closed"}
    /\ \E n \in book[s] :
        LET before == {m \in book[s] : m < n} IN
        /\ before \subseteq Claimed(s)
        /\ device' = Give(before, NoHolder)
    /\ unsure' = [unsure EXCEPT ![s] = @ \cup book[s]]
    /\ book' = [book EXCEPT ![s] = {}]
    /\ UNCHANGED <<fixedVars, state, call, stats, delivered, faults>>

UsbStep(s) ==
    \/ BindUsb(s)
    \/ \E r \in Requests[s].usb : BeginUsb(s, r)
    \/ TakeClaim(s) \/ SetAlternate(s) \/ AlternateFails(s) \/ GiveBack(s) \/ Exchange(s)
    \/ FinishUsb(s) \/ CloseUsb(s) \/ CloseFails(s)
    \/ OnUsb /\ Drop(s, Give(Claimed(s), NoHolder))

UsbInit ==
    /\ interface = "usb" /\ backend = "linux"
    /\ device = [claimant |-> [n \in Numbers |-> NoHolder]]
=============================================================================
