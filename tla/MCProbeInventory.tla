-------------------------- MODULE MCProbeInventory --------------------------
(***************************************************************************)
(* Two probes that have nothing in common: every device has one probe and   *)
(* one interface.                                                           *)
(***************************************************************************)
EXTENDS ProbeInventory, TLC

CONSTANTS wide, narrow, gpio, i2c, d1, d2

MCInterfacesOf == (wide :> {gpio, i2c}) @@ (narrow :> {i2c})

OnGpio == [interface |-> gpio, label |-> 0]
OnI2c == [interface |-> i2c, label |-> 0]

MCDescriptors == {OnGpio, OnI2c}

MCReportable ==
    (wide :> ((d1 :> {OnGpio}) @@ (d2 :> {})))
    @@ (narrow :> ((d1 :> {}) @@ (d2 :> {OnI2c})))
=============================================================================
