--------------------------- MODULE MCAsyncRuntime ---------------------------
(***************************************************************************)
(* One device, one probe and one driver, used by two tasks at once.         *)
(***************************************************************************)
EXTENDS AsyncRuntime, TLC

CONSTANTS probe, gpio, d1, r1, t1, t2

MCInterfacesOf == probe :> {gpio}

Plain == [interface |-> gpio, shape |-> 0, hint |-> 0]
Hinted == [interface |-> gpio, shape |-> 0, hint |-> 1]

MCDescriptors == {Plain, Hinted}

AnyDescriptor == probe :> [d \in Devices |-> Descriptors]

MCFacts == (Plain :> {"gpio-chip"}) @@ (Hinted :> {"gpio-chip", "claimed"})

\* No driver matches a hinted device.
MCManifests ==
    r1 :> [interfaces |-> {gpio}, priority |-> "generic", kinds |-> {"gpio-chip"},
           rules |-> <<[score |-> 0, all_of |-> {}, any_of |-> {}, none_of |-> {"claimed"}]>>]

MCConfigs == {[auto_bind_on_request |-> TRUE, auto_rebind_on_refresh |-> TRUE,
               cache_state_on_bind |-> FALSE, cache_state_on_request |-> TRUE]}
=============================================================================
