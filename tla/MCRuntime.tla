------------------------------ MODULE MCRuntime ------------------------------
(***************************************************************************)
(* One probe and one device, which may change its shape, or only a hint     *)
(* that makes the other driver the better match, and three drivers.         *)
(***************************************************************************)
EXTENDS Runtime, TLC

CONSTANTS probe, gpio, d1, r1, r2, r3

MCInterfacesOf == probe :> {gpio}

Plain == [interface |-> gpio, shape |-> 0, hint |-> 0]
Hinted == [interface |-> gpio, shape |-> 0, hint |-> 1]
Reshaped == [interface |-> gpio, shape |-> 1, hint |-> 0]

MCDescriptors == {Plain, Hinted, Reshaped}

AnyDescriptor == probe :> [d \in Devices |-> Descriptors]

MCFacts == (Plain :> {"chip"}) @@ (Hinted :> {"chip", "vendor"}) @@ (Reshaped :> {"expander"})

Rule(score, all_of, any_of, none_of) ==
    [score |-> score, all_of |-> all_of, any_of |-> any_of, none_of |-> none_of]

Manifest(interfaces, priority, kinds, rules) ==
    [interfaces |-> interfaces, priority |-> priority, kinds |-> kinds, rules |-> rules]

\* r1 scores 125 for a chip and 100 for an expander.  r2 outranks it on a chip
\* of the vendor and ties with it on an expander.  r3 cannot be registered.
MCManifests ==
    (r1 :> Manifest({gpio}, "generic", {},
                    <<Rule(0, {}, {}, {}), Rule(25, {"chip"}, {}, {})>>))
    @@ (r2 :> Manifest({gpio}, "generic", {},
                       <<Rule(50, {}, {"vendor", "model"}, {"expander"}),
                         Rule(0, {"expander"}, {}, {"vendor"})>>))
    @@ (r3 :> Manifest({}, "exact", {"chip"}, <<>>))

Defaults == [auto_bind_on_request |-> TRUE, auto_rebind_on_refresh |-> TRUE,
             cache_state_on_bind |-> TRUE, cache_state_on_request |-> TRUE]

MCConfigs == {Defaults,
              [Defaults EXCEPT !.auto_bind_on_request = FALSE,
                               !.auto_rebind_on_refresh = FALSE,
                               !.cache_state_on_bind = FALSE]}

-----------------------------------------------------------------------------
(* Whatever three drivers score, the front of a ranking is the unique best.  *)
SmallMatches == [level : 1 .. 2, score : 0 .. 2]

ASSUME RankingAgrees ==
    \A candidates \in SUBSET Drivers : \A match \in [candidates -> SmallMatches] :
        LET ranks == {f \in [1 .. Cardinality(candidates) -> candidates] :
                          IsRanking(f, candidates, match)}
        IN  /\ ranks # {}
            /\ \A f \in ranks : ResolveRanked(f, match) = UniqueBest(candidates, match)
=============================================================================
