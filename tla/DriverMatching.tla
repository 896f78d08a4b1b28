--------------------------- MODULE DriverMatching ---------------------------
(***************************************************************************)
(* How a driver's manifest matches a device (lemnos-driver-manifest), and   *)
(* how the registry chooses among the drivers that do (lemnos-registry).    *)
(*                                                                         *)
(* What a condition may ask of a device is a fact: its kind, an entry of    *)
(* its labels, properties or match hints, a capability.  A manifest lists   *)
(* interfaces, kinds, and rules with the facts they need and exclude.       *)
(***************************************************************************)
EXTENDS Naturals, Sequences, FiniteSets

\* DriverPriority::base_score
BaseScore == [fallback |-> 25, generic |-> 100, preferred |-> 200, exact |-> 300]

\* DriverMatchLevel; 0 is Unsupported.
Level == [fallback |-> 1, generic |-> 2, preferred |-> 3, exact |-> 4]

\* MatchRule and DriverManifest
IsRule(rule) ==
    /\ rule.score \in Nat
    /\ \A f \in {"all_of", "any_of", "none_of"} : f \in DOMAIN rule

IsManifest(manifest) ==
    /\ {"interfaces", "kinds"} \subseteq DOMAIN manifest
    /\ manifest.priority \in DOMAIN Level
    /\ \A k \in DOMAIN manifest.rules : IsRule(manifest.rules[k])

Unsupported == [level |-> 0, score |-> 0]

IsSupported(match) == match.level # 0

\* MatchCondition::matches
Holds(condition, facts) == condition \in facts

\* MatchRule::matches
RuleMatches(rule, facts) ==
    /\ \A f \in rule.all_of : Holds(f, facts)
    /\ rule.any_of # {} => \E f \in rule.any_of : Holds(f, facts)
    /\ \A f \in rule.none_of : ~ Holds(f, facts)

\* The rule that counts is one with the highest score among those that match.
RuleScores(manifest, facts) ==
    {manifest.rules[k].score : k \in {k \in DOMAIN manifest.rules :
                                          RuleMatches(manifest.rules[k], facts)}}

KindScore(manifest) == IF manifest.kinds = {} THEN 0 ELSE 25

\* DriverManifest::match_device
MatchDevice(manifest, interface, facts) ==
    LET scores == RuleScores(manifest, facts)
        best == IF manifest.rules = <<>> THEN 0
                ELSE CHOOSE s \in scores : \A t \in scores : t <= s
    IN  IF \/ interface \notin manifest.interfaces
           \/ manifest.kinds # {} /\ manifest.kinds \cap facts = {}
           \/ manifest.rules # <<>> /\ scores = {}
        THEN Unsupported
        ELSE [level |-> Level[manifest.priority],
              score |-> BaseScore[manifest.priority] + KindScore(manifest) + best]

\* DriverManifest::validate; the characters of an id do not matter here.
ValidManifest(manifest) == manifest.interfaces # {}

-----------------------------------------------------------------------------
(* Resolution                                                               *)

\* DriverMatch::compare_rank
Outranks(m, n) == m.score > n.score \/ (m.score = n.score /\ m.level > n.level)

Ties(m, n) == m.score = n.score /\ m.level = n.level

\* ranked_candidates without the unsupported: an enumeration of the candidates
\* in which nobody outranks an earlier one.  The order of ties, by driver id,
\* decides nothing but how they are listed.
IsRanking(ranked, candidates, match) ==
    /\ ranked \in Seq(candidates)
    /\ candidates = {ranked[k] : k \in DOMAIN ranked}
    /\ \A j, k \in DOMAIN ranked : j < k => /\ ranked[j] # ranked[k]
                                             /\ ~ Outranks(match[ranked[k]], match[ranked[j]])

\* conflicting_top_matches: the first candidate and those that tie with it, up
\* to the first that does not.
TopMatches(ranked, match) ==
    {ranked[k] : k \in {k \in DOMAIN ranked :
                            \A j \in 1 .. k : Ties(match[ranked[j]], match[ranked[1]])}}

\* resolve without a preference: the set of the driver that is found, or of none.
ResolveRanked(ranked, match) ==
    IF ranked # <<>> /\ TopMatches(ranked, match) = {ranked[1]} THEN {ranked[1]} ELSE {}

\* The candidate that outranks all others, if there is one.
UniqueBest(candidates, match) ==
    {r \in candidates : \A q \in candidates \ {r} : Outranks(match[r], match[q])}
=============================================================================
