------------------------------ MODULE RoundDraft ------------------------------
(***************************************************************************)
(* A market round until its freeze (round.rs and pyth.rs): the coordinator *)
(* drafts it from the current versions of the Config, adds assets of the   *)
(* frozen registry and freezes it, while the admin goes on creating newer  *)
(* versions, pausing and replacing the coordinator. A draft copies version *)
(* numbers and is checked against the accounts they name.                  *)
(*                                                                         *)
(* Of its times only start and end are kept; the earlier ones precede the  *)
(* start, none of them is compared with the clock. The representation id   *)
(* of an asset is its asset id. Every registry entry is created enabled,   *)
(* and none is ever disabled.                                              *)
(***************************************************************************)
EXTENDS ProtocolConfig

CONSTANTS
    RoundIds,           \* bound on round_id
    Windows,            \* [start, end] records: when a round may be planned
    LineupSize,         \* LINEUP_SIZE
    NoRound

ASSUME DraftAssumption ==
    /\ RoundIds \subseteq Nat \ {0} /\ LineupSize \in Nat \ {0}
    /\ Windows \subseteq [start : Int, end : Int]

VARIABLES
    round,              \* MarketRound, by round_id
    lastRound           \* Config.last_market_round_id and ..._end_at

draftVars == <<configVars, round, lastRound>>

InitDraft ==
    /\ round = [id \in RoundIds |-> NoRound]
    /\ lastRound = [id |-> 0, end |-> 0]

Drafted == {id \in RoundIds : round[id] # NoRound}
Preparing(id) == id \in Drafted /\ round[id].state = "Preparing"

CoordinatorActs(s) == s = coordinator /\ ~ paused

\* Mutated form: rounds may be planned in any order of time.
FollowsById(id, w) == w.start < w.end /\ id > lastRound.id

FollowsLastRound(id, w) ==
    /\ w.start < w.end
    /\ id > lastRound.id
    /\ w.start >= lastRound.end

\* The draft and what it copies from the Config.
Draft(id, w, source, sourceConfig, set) ==
    /\ FollowsLastRound(id, w)
    /\ registryFrozen /\ current["registry"] > 0
    /\ current["quality"] > 0
    /\ round' = [round EXCEPT ![id] =
           [state |-> "Preparing", window |-> w, registry |-> current["registry"],
            source |-> source, config |-> sourceConfig, attestorSet |-> set,
            settlement |-> current["settlement"], quality |-> current["quality"],
            assets |-> {}]]
    /\ lastRound' = [id |-> id, end |-> w.end]
    /\ UNCHANGED configVars

\* Mutated form: the source config may name an older attestor set.
JupiterPolicyCurrent ==
    /\ current["settlement"] > 0 /\ current["jupiter"] > 0
    /\ policy[current["settlement"]] = [source |-> "Jupiter", config |-> current["jupiter"]]

\* The current policy, source config and attestor set name each other.
JupiterTermsCurrent ==
    /\ current["settlement"] > 0 /\ current["jupiter"] > 0
    /\ policy[current["settlement"]] = [source |-> "Jupiter", config |-> current["jupiter"]]
    /\ jupiterSet[current["jupiter"]] = current["attestorSet"]

CreateMarketRoundDraft(s, id, w) ==
    /\ CoordinatorActs(s)
    /\ JupiterTermsCurrent
    /\ Draft(id, w, "Jupiter", current["jupiter"], current["attestorSet"])

PythTermsCurrent ==
    /\ current["settlement"] > 0 /\ current["pyth"] > 0
    /\ policy[current["settlement"]] = [source |-> "Pyth", config |-> current["pyth"]]

CreatePythMarketRoundDraft(s, id, w) ==
    /\ CoordinatorActs(s)
    /\ PythTermsCurrent
    /\ Draft(id, w, "Pyth", current["pyth"], None)

-----------------------------------------------------------------------------
\* Mutated form: only the ids are compared.
DistinctIds(assets) == \A x, y \in assets : x.id = y.id => x = y

\* validate_round_assets, on the complete set of the round's assets.
DistinctAssets(assets) ==
    \A x, y \in assets : x.id = y.id \/ x.mint = y.mint => x = y

AddAsset(id, e) ==
    /\ e \in entries /\ e.version = round[id].registry
    /\ \A x \in round[id].assets : x.id # e.id
    /\ round' = [round EXCEPT ![id].assets = @ \cup {e}]
    /\ UNCHANGED <<configVars, lastRound>>

AddRoundAsset(s, id, e) ==
    /\ CoordinatorActs(s)
    /\ Preparing(id) /\ round[id].source = "Jupiter"
    /\ DistinctAssets(round[id].assets)
    /\ \A x \in round[id].assets : x.mint # e.mint
    /\ AddAsset(id, e)

\* The coordinator chooses which of the existing assets to show.
AddPythRoundAsset(s, id, e) ==
    /\ CoordinatorActs(s)
    /\ Preparing(id) /\ round[id].source = "Pyth"
    /\ e.feed # 0
    /\ \E shown \in SUBSET round[id].assets :
           \A x \in shown : x.mint # e.mint /\ x.feed # e.feed
    /\ AddAsset(id, e)

EnoughAssets(r) ==
    /\ Cardinality(r.assets) >= minEligible[r.quality]
    /\ Cardinality(r.assets) >= LineupSize

FreezeAssets(id) ==
    /\ EnoughAssets(round[id])
    /\ DistinctAssets(round[id].assets)
    /\ round' = [round EXCEPT ![id].state = "Scheduled"]
    /\ UNCHANGED <<configVars, lastRound>>

\* validate_jupiter_source_binding, on the accounts the round names.
JupiterBinding(r) ==
    /\ policy[r.settlement] = [source |-> "Jupiter", config |-> r.config]
    /\ jupiterSet[r.config] = r.attestorSet
    /\ r.attestorSet \in attestorSets

FreezeMarketRound(s, id) ==
    /\ CoordinatorActs(s)
    /\ Preparing(id) /\ round[id].source = "Jupiter"
    /\ JupiterBinding(round[id])
    /\ FreezeAssets(id)

\* validate_pyth_policy_binding.
PythBinding(r) ==
    /\ policy[r.settlement] = [source |-> "Pyth", config |-> r.config]
    /\ r.config \in pythConfigs

FreezePythMarketRound(s, id) ==
    /\ CoordinatorActs(s)
    /\ Preparing(id) /\ round[id].source = "Pyth"
    /\ PythBinding(round[id])
    /\ FreezeAssets(id)

=============================================================================
