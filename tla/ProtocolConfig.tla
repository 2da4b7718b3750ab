---------------------------- MODULE ProtocolConfig ----------------------------
(***************************************************************************)
(* The Config account and the versioned accounts that its admin creates    *)
(* (admin.rs, and the source and policy instructions of pyth.rs): attestor *)
(* sets, source configs, settlement policies, quality policies and the     *)
(* asset registry. None of these accounts is ever changed; a new version   *)
(* must exceed the current one of its kind, and may skip numbers. Their    *)
(* calibration numbers and hashes are left out.                            *)
(***************************************************************************)
EXTENDS Integers, FiniteSets

CONSTANTS
    Keys,               \* who may hold an authority
    Entries,            \* registry entries the admin may create:
                        \*   [version, id, mint, feed] records
    MinEligible,        \* values of min_eligible_assets
    LastVersion         \* the last version of each kind, a bound

Kinds == {"attestorSet", "jupiter", "pyth", "settlement", "quality", "registry"}
Sources == {"Jupiter", "Pyth"}

ASSUME ConfigAssumption ==
    /\ LastVersion \in [Kinds -> Nat]
    /\ MinEligible \subseteq Nat \ {0}
    /\ \A e \in Entries : e.version \in 1..LastVersion["registry"]

VARIABLES
    admin, coordinator, \* the authorities of the Config
    paused,
    current,            \* the current version of each kind
    registryFrozen,
    attestorSets,       \* the versions that exist
    jupiterSet,         \* JupiterSourceConfig: version -> attestor set version
    pythConfigs,        \* the versions that exist
    policy,             \* PricePolicy: version -> [source, config]
    minEligible,        \* MarketQualityPolicy: version -> min_eligible_assets
    entries             \* AssetRegistryEntry accounts

authorityVars == <<admin, coordinator, paused>>
accountVars == <<attestorSets, jupiterSet, pythConfigs, policy, minEligible>>
registryVars == <<registryFrozen, entries>>
configVars == <<authorityVars, current, accountVars, registryVars>>

Versions(kind) == 1..LastVersion[kind]

\* No account exists at a version that maps to this.
None == 0
NoPolicy == [source |-> "none", config |-> None]

\* initialize_config gives the payer both authorities.
InitConfig ==
    /\ \E k \in Keys : admin = k /\ coordinator = k
    /\ paused = FALSE
    /\ current = [kind \in Kinds |-> 0]
    /\ registryFrozen = FALSE
    /\ attestorSets = {} /\ pythConfigs = {} /\ entries = {}
    /\ jupiterSet = [v \in Versions("jupiter") |-> None]
    /\ policy = [v \in Versions("settlement") |-> NoPolicy]
    /\ minEligible = [v \in Versions("quality") |-> None]

RotateAdmin(s, k) ==
    /\ s = admin
    /\ admin' = k
    /\ UNCHANGED <<coordinator, paused, current, accountVars, registryVars>>

RotateCoordinator(s, k) ==
    /\ s = admin
    /\ coordinator' = k
    /\ UNCHANGED <<admin, paused, current, accountVars, registryVars>>

SetPause(s, flag) ==
    /\ s = admin
    /\ paused' = flag
    /\ UNCHANGED <<admin, coordinator, current, accountVars, registryVars>>

\* The admin creates version v of a kind, which becomes the current one.
NewVersion(s, kind, v) ==
    /\ s = admin
    /\ v \in Versions(kind) /\ v > current[kind]
    /\ current' = [current EXCEPT ![kind] = v]
    /\ UNCHANGED authorityVars

CreateAttestorSet(s, v) ==
    /\ NewVersion(s, "attestorSet", v)
    /\ attestorSets' = attestorSets \cup {v}
    /\ UNCHANGED <<jupiterSet, pythConfigs, policy, minEligible, registryVars>>

\* It is bound to the attestor set that is current when it is created.
CreateJupiterSourceConfig(s, v) ==
    /\ NewVersion(s, "jupiter", v)
    /\ current["attestorSet"] \in attestorSets
    /\ jupiterSet' = [jupiterSet EXCEPT ![v] = current["attestorSet"]]
    /\ UNCHANGED <<attestorSets, pythConfigs, policy, minEligible, registryVars>>

CreatePythProSourceConfig(s, v) ==
    /\ NewVersion(s, "pyth", v)
    /\ pythConfigs' = pythConfigs \cup {v}
    /\ UNCHANGED <<attestorSets, jupiterSet, policy, minEligible, registryVars>>

\* It names the Jupiter config of its own version number, existing or not.
CreatePricePolicy(s, v) ==
    /\ NewVersion(s, "settlement", v)
    /\ policy' = [policy EXCEPT ![v] = [source |-> "Jupiter", config |-> v]]
    /\ UNCHANGED <<attestorSets, jupiterSet, pythConfigs, minEligible, registryVars>>

CreatePythSettlementPolicy(s, v) ==
    /\ NewVersion(s, "settlement", v)
    /\ current["pyth"] \in pythConfigs
    /\ policy' = [policy EXCEPT ![v] = [source |-> "Pyth", config |-> current["pyth"]]]
    /\ UNCHANGED <<attestorSets, jupiterSet, pythConfigs, minEligible, registryVars>>

CreateMarketQualityPolicy(s, v, least) ==
    /\ NewVersion(s, "quality", v)
    /\ minEligible' = [minEligible EXCEPT ![v] = least]
    /\ UNCHANGED <<attestorSets, jupiterSet, pythConfigs, policy, registryVars>>

\* Mutated form: a frozen version takes new entries.
AlwaysOpen(v) == v >= current["registry"]

OpenForEntries(v) ==
    /\ v >= current["registry"]
    /\ registryFrozen => v > current["registry"]

\* The first entry of a later version makes that one current, and open.
CreateRegistryEntry(s, e) ==
    /\ s = admin
    /\ OpenForEntries(e.version)
    /\ ~ \E f \in entries : f.version = e.version /\ f.id = e.id
    /\ entries' = entries \cup {e}
    /\ current' = [current EXCEPT !["registry"] = e.version]
    /\ registryFrozen' = (registryFrozen /\ e.version = current["registry"])
    /\ UNCHANGED <<authorityVars, accountVars>>

FreezeRegistryVersion(s) ==
    /\ s = admin
    /\ current["registry"] > 0
    /\ registryFrozen' = TRUE
    /\ UNCHANGED <<authorityVars, current, accountVars, entries>>

AdminStep(s) ==
    \/ \E k \in Keys : RotateAdmin(s, k) \/ RotateCoordinator(s, k)
    \/ \E flag \in BOOLEAN : SetPause(s, flag)
    \/ \E v \in Versions("attestorSet") : CreateAttestorSet(s, v)
    \/ \E v \in Versions("jupiter") : CreateJupiterSourceConfig(s, v)
    \/ \E v \in Versions("pyth") : CreatePythProSourceConfig(s, v)
    \/ \E v \in Versions("settlement") :
           CreatePricePolicy(s, v) \/ CreatePythSettlementPolicy(s, v)
    \/ \E v \in Versions("quality"), least \in MinEligible :
           CreateMarketQualityPolicy(s, v, least)
    \/ \E e \in Entries : CreateRegistryEntry(s, e)
    \/ FreezeRegistryVersion(s)

=============================================================================
