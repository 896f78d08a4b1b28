--------------------------- MODULE LinuxDiscovery ---------------------------
(***************************************************************************)
(* The discovery probes of lemnos-linux: what each makes of the directory   *)
(* entries below its roots, taken in the order in which they are sorted.    *)
(*                                                                         *)
(* Of an entry the model keeps what the probes tell apart: its probe, root  *)
(* and kind, the bus in its name, the entry it hangs on, and of its files   *)
(* whether they are there.  Of a descriptor it keeps id, parent link and     *)
(* what it was built from.                                                  *)
(***************************************************************************)
EXTENDS Sequences, SequencesExt, FiniteSets, Naturals

CONSTANTS
    Listing,        \* every entry there may be, in the order of read_dir_sorted
    LineCount       \* the lines of a gpio chip, the channels of a pwm chip

Entries == ToSet(Listing)

\* The class and bus roots of LinuxPaths that a probe reads.  A path is the
\* sequence of a root and of the names below it.
RootsOf ==
    [gpio |-> {<<"class/gpio">>}, leds |-> {<<"class/leds">>},
     pwm |-> {<<"class/pwm">>}, hwmon |-> {<<"class/hwmon">>},
     i2c |-> {<<"class/i2c-dev">>, <<"bus/i2c/devices">>}, spi |-> {<<"bus/spi/devices">>},
     uart |-> {<<"class/tty">>}, usb |-> {<<"bus/usb/devices">>}]

Probes == DOMAIN RootsOf

\* The i2c probe, which has two roots, finds nothing but buses in one of them.
ASSUME ListingAssumption ==
    /\ Len(Listing) \in Nat
    /\ DOMAIN Listing = 1 .. Len(Listing)
    /\ IsInjective(Listing)
    /\ \A e \in Entries : e.probe \in Probes /\ e.root \in RootsOf[e.probe]
    /\ \A d, e \in Entries :
            d.probe = e.probe /\ d.kind # "bus" /\ e.kind # "bus" => d.root = e.root
    /\ LineCount \in Nat

Roots == UNION {RootsOf[p] : p \in Probes}

PathOf(e) == Append(e.root, e.name)

\* DiscoveryProbe::interfaces
InterfaceOf ==
    [gpio |-> "Gpio", leds |-> "Gpio", pwm |-> "Pwm", hwmon |-> "Pwm",
     i2c |-> "I2c", spi |-> "Spi", uart |-> "Uart", usb |-> "Usb"]

Interfaces == {InterfaceOf[p] : p \in Probes}

\* An entry without files yet, a complete one, and one whose files say something
\* else since: a channel is exported, a driver is bound, a led has another
\* brightness, a fan another speed, the device node has come.
EntryStates == {"bare", "ready", "altered"}

-----------------------------------------------------------------------------
(* Descriptors                                                              *)

NoParent == <<>>

BusId(p, bus) == <<p, "bus", bus>>

\* An entry is known by its name; a usb interface by its device and number,
\* whatever configuration of the device it belongs to.
EntryId(e) ==
    CASE e.kind = "bus" -> BusId(e.probe, e.bus)
      [] e.kind = "interface" -> <<e.probe, "interface", <<e.on, e.number>>>>
      [] e.kind \notin {"bus", "interface"} -> <<e.probe, "entry", e.name>>

\* The same interface in two configurations of a device.
SameInterface(d, e) ==
    /\ d # e /\ d.probe = e.probe /\ d.on = e.on
    /\ d.kind = "interface" /\ e.kind = "interface" /\ d.number = e.number

Descriptor(id, parent, from) == [id |-> id, parent |-> parent, from |-> from]

\* The devices found so far, and the buses that have an id.
NothingFound == [devices |-> <<>>, bus_ids |-> {}]

Push(found, descriptor) == [found EXCEPT !.devices = Append(@, descriptor)]

\* Faulty variant: a bus is made for every device on it.
WithBusAlways(found, e) ==
    [Push(found, Descriptor(BusId(e.probe, e.bus), NoParent, "number"))
        EXCEPT !.bus_ids = @ \cup {e.bus}]

\* The bus of a device is made from its number if no entry has named it yet.
WithBus(found, e) ==
    IF e.bus \in found.bus_ids THEN found
    ELSE [Push(found, Descriptor(BusId(e.probe, e.bus), NoParent, "number"))
             EXCEPT !.bus_ids = @ \cup {e.bus}]

\* The parts of a chip, and none of a chip without ngpio or npwm.
Parts(e, from) ==
    [n \in 1..(IF from = "bare" THEN 0 ELSE LineCount) |->
        Descriptor(<<e.probe, "part", <<e.name, n>>>>, EntryId(e), from)]

\* gpio.rs: a chip and its lines.
LineDescriptors(found, e, from) ==
    [Push(found, Descriptor(EntryId(e), NoParent, from)) EXCEPT !.devices = @ \o Parts(e, from)]

\* pwm.rs: a chip and its channels; only the channels tell whether they are exported.
ChannelDescriptors(found, e, from) ==
    LET chip == Descriptor(EntryId(e), NoParent, IF from = "bare" THEN "bare" ELSE "ready")
    IN  [Push(found, chip) EXCEPT !.devices = @ \o Parts(e, from)]

\* led.rs: a led without its files is degraded.
LedDescriptors(found, e, from) == Push(found, Descriptor(EntryId(e), NoParent, from))

\* hwmon.rs: nothing without pwm1.
FanDescriptors(found, e, from) ==
    IF from = "bare" THEN found ELSE Push(found, Descriptor(EntryId(e), NoParent, from))

\* uart.rs: a tty without device node and device is no port.
PortDescriptors(found, e, from) ==
    IF from = "bare" THEN found ELSE Push(found, Descriptor(EntryId(e), NoParent, from))

\* A bus that has an entry of its own.
BusDescriptors(found, e, from) ==
    IF e.bus \in found.bus_ids THEN found
    ELSE [Push(found, Descriptor(EntryId(e), NoParent, from)) EXCEPT !.bus_ids = @ \cup {e.bus}]

\* i2c.rs: the devices on a bus.
I2cDescriptors(found, e, from) ==
    Push(WithBus(found, e), Descriptor(EntryId(e), BusId(e.probe, e.bus), from))

\* spi.rs: buses are known by their devices only.
SpiDescriptors(found, e, from) ==
    Push(WithBus(found, e), Descriptor(EntryId(e), BusId(e.probe, e.bus), from))

\* usb.rs: the devices on a bus.
UsbDescriptors(found, e, from) ==
    Push(WithBus(found, e), Descriptor(EntryId(e), BusId(e.probe, e.bus), from))

\* usb.rs: an interface is skipped unless its device was found before it.
UsbInterfaceDescriptors(found, e, from) ==
    LET parent == <<e.probe, "entry", e.on>> IN
    IF \E k \in DOMAIN found.devices : found.devices[k].id = parent
    THEN Push(found, Descriptor(EntryId(e), parent, from))
    ELSE found

EntryDescriptors(found, e, from) ==
    CASE e.kind = "bus" -> BusDescriptors(found, e, from)
      [] e.kind = "interface" -> UsbInterfaceDescriptors(found, e, from)
      [] e.kind \notin {"bus", "interface"} ->
            CASE e.probe = "gpio" -> LineDescriptors(found, e, from)
              [] e.probe = "leds" -> LedDescriptors(found, e, from)
              [] e.probe = "pwm" -> ChannelDescriptors(found, e, from)
              [] e.probe = "hwmon" -> FanDescriptors(found, e, from)
              [] e.probe = "i2c" -> I2cDescriptors(found, e, from)
              [] e.probe = "spi" -> SpiDescriptors(found, e, from)
              [] e.probe = "uart" -> PortDescriptors(found, e, from)
              [] e.probe = "usb" -> UsbDescriptors(found, e, from)

\* discover: the descriptors for what was read of each entry.
Discover(p, read) ==
    LET Found[k \in 0 .. Len(Listing)] ==
            IF k = 0 THEN NothingFound
            ELSE IF Listing[k].probe = p /\ Listing[k] \in DOMAIN read
            THEN EntryDescriptors(Found[k - 1], Listing[k], read[Listing[k]])
            ELSE Found[k - 1]
    IN  Found[Len(Listing)].devices

\* Only the gpio and the pwm probe give up on an entry that cannot be read;
\* the others leave a note and go on.
GivesUp(p) == p \in {"gpio", "pwm"}

\* What a probe has of an entry whose files cannot be read.
Refused(e) == IF GivesUp(e.probe) THEN "failed" ELSE "skipped"

\* What the probe of an entry may have of it: what there is, or an error.  An
\* entry that vanishes may not be listed, and its files are not found or cannot
\* be read.
ReadOutcomes(e, state) ==
    (IF state = "absent" THEN {"bare", "skipped"} ELSE {state}) \cup {Refused(e)}
=============================================================================
