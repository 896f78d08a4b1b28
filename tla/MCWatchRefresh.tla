--------------------------- MODULE MCWatchRefresh ---------------------------
(***************************************************************************)
(* A probe for both interfaces, under which d1 may change between them, and *)
(* one for i2c alone, which may claim d1 under another label and has d2 for *)
(* itself.  The watcher's events name one interface or none at all.         *)
(***************************************************************************)
EXTENDS WatchRefresh, TLC

CONSTANTS wide, narrow, gpio, i2c, d1, d2

MCInterfacesOf == (wide :> {gpio, i2c}) @@ (narrow :> {i2c})

OnGpio == [interface |-> gpio, label |-> 0]
OnI2c == [interface |-> i2c, label |-> 0]

\* It differs from OnI2c in metadata only.
OnI2cRelabelled == [interface |-> i2c, label |-> 1]

MCDescriptors == {OnGpio, OnI2c, OnI2cRelabelled}

MCReportable ==
    (wide :> ((d1 :> {OnGpio, OnI2c}) @@ (d2 :> {})))
    @@ (narrow :> ((d1 :> {OnI2cRelabelled}) @@ (d2 :> {OnI2c})))

MCWatchEvents == {{}, {gpio}, {i2c}}
=============================================================================
