--------------------------- MODULE MarketSetupProofs ---------------------------
(***************************************************************************)
(* Proofs about the rounds of the market up to their freeze, for any       *)
(* number of versions, rounds, windows and registry entries: a draft keeps *)
(* the terms it was made under, because accounts are only created at       *)
(* versions above the current ones, and a draft names current ones.        *)
(***************************************************************************)
EXTENDS MarketSetup, TLAPS

Policies == [source : Sources \cup {"none"}, config : Nat]

Rounds ==
    [state : {"Preparing", "Scheduled"}, window : Windows, registry : Nat,
     source : Sources, config : Nat, attestorSet : Nat, settlement : Nat,
     quality : Nat, assets : SUBSET Entries]

ConfigTyped ==
    /\ registryFrozen \in BOOLEAN
    /\ current \in [Kinds -> Nat]
    /\ attestorSets \subseteq Nat /\ pythConfigs \subseteq Nat /\ entries \subseteq Entries
    /\ jupiterSet \in [Versions("jupiter") -> Nat]
    /\ policy \in [Versions("settlement") -> Policies]
    /\ minEligible \in [Versions("quality") -> Nat]

DraftTyped ==
    /\ round \in [RoundIds -> Rounds \cup {NoRound}]
    /\ lastRound \in [id : Nat, end : Int]

\* The current version of a kind exists and is what a draft may rely on.
CurrentExists ==
    /\ current["jupiter"] > 0 => jupiterSet[current["jupiter"]] \in attestorSets
    /\ current["pyth"] > 0 => current["pyth"] \in pythConfigs
    /\ current["quality"] > 0 => minEligible[current["quality"]] # None

\* A draft names versions that were current, and its registry version is
\* closed.
DraftTermsPast ==
    \A id \in Drafted :
        /\ round[id].registry <= current["registry"]
        /\ round[id].registry = current["registry"] => registryFrozen
        /\ round[id].settlement \in 1..current["settlement"]
        /\ round[id].quality \in 1..current["quality"]
        /\ round[id].source = "Jupiter" => round[id].config \in 1..current["jupiter"]

AssetsRegistered ==
    \A id \in Drafted : round[id].assets \subseteq {e \in entries : e.version = round[id].registry}

SetupInv ==
    /\ ConfigTyped /\ DraftTyped /\ CurrentExists /\ DraftTermsPast /\ AssetsRegistered
    /\ DraftStaysFreezable /\ RoundsDoNotOverlap /\ FrozenRoundWellFormed

\* What no step does to the accounts: the ones at versions up to the current
\* ones stay as they are.
AccountsKept ==
    /\ \A kind \in Kinds : current[kind] <= current'[kind]
    /\ \A v \in 1..current["settlement"] : policy'[v] = policy[v]
    /\ \A v \in 1..current["jupiter"] : jupiterSet'[v] = jupiterSet[v]
    /\ \A v \in 1..current["quality"] : minEligible'[v] = minEligible[v]
    /\ attestorSets \subseteq attestorSets' /\ pythConfigs \subseteq pythConfigs'
    /\ entries \subseteq entries'
    /\ current'["registry"] = current["registry"] /\ registryFrozen => registryFrozen'
    /\ \A e \in entries' \ entries :
           /\ e.version >= current["registry"]
           /\ registryFrozen => e.version > current["registry"]

AdminEffect == ConfigTyped' /\ CurrentExists' /\ AccountsKept

LEMMA NoConfigChange ==
    ASSUME ConfigTyped, CurrentExists, UNCHANGED <<current, accountVars, registryVars>>
    PROVE  AdminEffect
<1>1. UNCHANGED <<current, attestorSets, jupiterSet, pythConfigs, policy, minEligible,
                  registryFrozen, entries>>
    BY DEF accountVars, registryVars
<1>2. ConfigTyped' /\ CurrentExists'
    BY <1>1 DEF ConfigTyped, CurrentExists
<1>3. AccountsKept
    BY <1>1 DEF AccountsKept, ConfigTyped
<1> QED
    BY <1>2, <1>3 DEF AdminEffect

LEMMA NewVersionRaises ==
    ASSUME ConfigTyped, NEW s, NEW kind \in Kinds, NEW v, NewVersion(s, kind, v)
    PROVE  /\ v \in Nat /\ v > current[kind] /\ current' \in [Kinds -> Nat]
           /\ current'[kind] = v
           /\ \A k \in Kinds : current[k] <= current'[k]
           /\ \A k \in Kinds : k # kind => current'[k] = current[k]
    BY ConfigAssumption DEF NewVersion, Versions, ConfigTyped

LEMMA AdminStepEffect ==
    ASSUME ConfigTyped, CurrentExists, NEW s, AdminStep(s)
    PROVE  AdminEffect
<1> USE DEF accountVars, registryVars
<1>1. ASSUME NEW k \in Keys, RotateAdmin(s, k) \/ RotateCoordinator(s, k)
      PROVE  AdminEffect
    BY <1>1, NoConfigChange DEF RotateAdmin, RotateCoordinator
<1>2. ASSUME NEW flag \in BOOLEAN, SetPause(s, flag)
      PROVE  AdminEffect
    BY <1>2, NoConfigChange DEF SetPause
<1>3. ASSUME NEW v \in Versions("attestorSet"), CreateAttestorSet(s, v)
      PROVE  AdminEffect
    <2>1. NewVersion(s, "attestorSet", v) /\ "attestorSet" \in Kinds
        BY <1>3 DEF CreateAttestorSet, Kinds
    <2>2. ConfigTyped' /\ CurrentExists'
        BY <1>3, <2>1, NewVersionRaises
        DEF CreateAttestorSet, ConfigTyped, CurrentExists, Kinds
    <2>3. AccountsKept
        BY <1>3, <2>1, NewVersionRaises DEF CreateAttestorSet, AccountsKept, Kinds
    <2> QED
        BY <2>2, <2>3 DEF AdminEffect
<1>4. ASSUME NEW v \in Versions("jupiter"), CreateJupiterSourceConfig(s, v)
      PROVE  AdminEffect
    <2>1. NewVersion(s, "jupiter", v) /\ "jupiter" \in Kinds
        BY <1>4 DEF CreateJupiterSourceConfig, Kinds
    <2>2. /\ jupiterSet' = [jupiterSet EXCEPT ![v] = current["attestorSet"]]
          /\ current["attestorSet"] \in attestorSets
          /\ UNCHANGED <<attestorSets, pythConfigs, policy, minEligible, registryFrozen, entries>>
        BY <1>4 DEF CreateJupiterSourceConfig
    <2>3. ConfigTyped' /\ CurrentExists'
        BY <1>4, <2>1, <2>2, NewVersionRaises DEF ConfigTyped, CurrentExists, Kinds
    <2>4. AccountsKept
        BY <1>4, <2>1, <2>2, NewVersionRaises DEF AccountsKept, ConfigTyped, Kinds
    <2> QED
        BY <2>3, <2>4 DEF AdminEffect
<1>5. ASSUME NEW v \in Versions("pyth"), CreatePythProSourceConfig(s, v)
      PROVE  AdminEffect
    <2>1. NewVersion(s, "pyth", v) /\ "pyth" \in Kinds
        BY <1>5 DEF CreatePythProSourceConfig, Kinds
    <2>2. ConfigTyped' /\ CurrentExists'
        BY <1>5, <2>1, NewVersionRaises
        DEF CreatePythProSourceConfig, ConfigTyped, CurrentExists, Kinds
    <2>3. AccountsKept
        BY <1>5, <2>1, NewVersionRaises DEF CreatePythProSourceConfig, AccountsKept, Kinds
    <2> QED
        BY <2>2, <2>3 DEF AdminEffect
<1>6. ASSUME NEW v \in Versions("settlement"),
             CreatePricePolicy(s, v) \/ CreatePythSettlementPolicy(s, v)
      PROVE  AdminEffect
    <2>1. NewVersion(s, "settlement", v) /\ "settlement" \in Kinds
        BY <1>6 DEF CreatePricePolicy, CreatePythSettlementPolicy, Kinds
    <2>2. PICK p \in Policies :
              /\ policy' = [policy EXCEPT ![v] = p]
              /\ UNCHANGED <<attestorSets, jupiterSet, pythConfigs, minEligible,
                             registryFrozen, entries>>
        <3>1. v \in Nat /\ current["pyth"] \in Nat
            BY <2>1, NewVersionRaises DEF ConfigTyped, Kinds
        <3>2. /\ [source |-> "Jupiter", config |-> v] \in Policies
              /\ [source |-> "Pyth", config |-> current["pyth"]] \in Policies
            BY <3>1 DEF Policies, Sources
        <3> QED
            BY <1>6, <3>2 DEF CreatePricePolicy, CreatePythSettlementPolicy
    <2>3. ConfigTyped' /\ CurrentExists'
        BY <1>6, <2>1, <2>2, NewVersionRaises DEF ConfigTyped, CurrentExists, Kinds
    <2>4. AccountsKept
        BY <1>6, <2>1, <2>2, NewVersionRaises DEF AccountsKept, ConfigTyped, Kinds
    <2> QED
        BY <2>3, <2>4 DEF AdminEffect
<1>7. ASSUME NEW v \in Versions("quality"), NEW least \in MinEligible,
             CreateMarketQualityPolicy(s, v, least)
      PROVE  AdminEffect
    <2>1. NewVersion(s, "quality", v) /\ "quality" \in Kinds
        BY <1>7 DEF CreateMarketQualityPolicy, Kinds
    <2>2. /\ minEligible' = [minEligible EXCEPT ![v] = least]
          /\ least \in Nat /\ least # None
          /\ UNCHANGED <<attestorSets, jupiterSet, pythConfigs, policy, registryFrozen, entries>>
        BY <1>7, ConfigAssumption DEF CreateMarketQualityPolicy, None
    <2>3. ConfigTyped' /\ CurrentExists'
        BY <1>7, <2>1, <2>2, NewVersionRaises DEF ConfigTyped, CurrentExists, Kinds
    <2>4. AccountsKept
        BY <1>7, <2>1, <2>2, NewVersionRaises DEF AccountsKept, ConfigTyped, Kinds
    <2> QED
        BY <2>3, <2>4 DEF AdminEffect
<1>8. ASSUME NEW e \in Entries, CreateRegistryEntry(s, e)
      PROVE  AdminEffect
    <2>1. /\ e.version \in Nat /\ e.version >= current["registry"]
          /\ registryFrozen => e.version > current["registry"]
          /\ entries' = entries \cup {e}
          /\ current' = [current EXCEPT !["registry"] = e.version]
          /\ registryFrozen' = (registryFrozen /\ e.version = current["registry"])
          /\ UNCHANGED <<attestorSets, jupiterSet, pythConfigs, policy, minEligible>>
        BY <1>8, ConfigAssumption DEF CreateRegistryEntry, OpenForEntries, Versions, Kinds
    <2>2. ConfigTyped' /\ CurrentExists'
        BY <2>1 DEF ConfigTyped, CurrentExists, Kinds
    <2>3. AccountsKept
        BY <2>1 DEF AccountsKept, ConfigTyped, Kinds
    <2> QED
        BY <2>2, <2>3 DEF AdminEffect
<1>9. CASE FreezeRegistryVersion(s)
    BY <1>9 DEF FreezeRegistryVersion, AdminEffect, ConfigTyped, CurrentExists, AccountsKept
<1> QED
    BY <1>1, <1>2, <1>3, <1>4, <1>5, <1>6, <1>7, <1>8, <1>9 DEF AdminStep

------------------------------------------------------------------------------
\* What a coordinator's step does to the rounds.
DraftsRound ==
    \E s \in Keys, id \in RoundIds, w \in Windows :
        CreateMarketRoundDraft(s, id, w) \/ CreatePythMarketRoundDraft(s, id, w)

AddsAsset ==
    \E s \in Keys, id \in RoundIds, e \in Entries :
        AddRoundAsset(s, id, e) \/ AddPythRoundAsset(s, id, e)

FreezesRound ==
    \E s \in Keys, id \in RoundIds : FreezeMarketRound(s, id) \/ FreezePythMarketRound(s, id)

LEMMA KindsOfSteps ==
    ASSUME ConfigTyped, CurrentExists, [SetupNext]_draftVars
    PROVE  /\ AdminEffect
           /\ \/ UNCHANGED <<round, lastRound>>
              \/ DraftsRound \/ AddsAsset \/ FreezesRound
           /\ ~ UNCHANGED <<round, lastRound>> => UNCHANGED configVars
<1>1. CASE UNCHANGED draftVars
    BY <1>1, NoConfigChange DEF draftVars, configVars
<1>2. ASSUME NEW s \in Keys, AdminStep(s), UNCHANGED <<round, lastRound>>
      PROVE  AdminEffect
    BY <1>2, AdminStepEffect
<1>3. ASSUME NEW s \in Keys, NEW id \in RoundIds, CoordinatorStep(s, id)
      PROVE  /\ UNCHANGED configVars
             /\ DraftsRound \/ AddsAsset \/ FreezesRound
    <2>1. DraftsRound \/ AddsAsset \/ FreezesRound
        BY <1>3 DEF CoordinatorStep, DraftsRound, AddsAsset, FreezesRound
    <2>2. UNCHANGED configVars
        BY <1>3 DEF CoordinatorStep, CreateMarketRoundDraft, CreatePythMarketRoundDraft,
           Draft, AddRoundAsset, AddPythRoundAsset, AddAsset, FreezeMarketRound,
           FreezePythMarketRound, FreezeAssets
    <2> QED
        BY <2>1, <2>2
<1> QED
    BY <1>1, <1>2, <1>3, NoConfigChange DEF SetupNext, draftVars, configVars

\* The rounds as they are after any step that leaves them alone.
LEMMA RoundsKept ==
    ASSUME SetupInv, AdminEffect, UNCHANGED <<round, lastRound>>
    PROVE  SetupInv'
<1> USE DEF Drafted
<1>0. \A id \in Drafted : round[id] \in Rounds
    BY DEF SetupInv, DraftTyped
<1>1. DraftTyped' /\ RoundsDoNotOverlap' /\ Drafted' = Drafted
    BY DEF SetupInv, DraftTyped, RoundsDoNotOverlap
<1>2. AccountsKept /\ ConfigTyped /\ ConfigTyped' /\ CurrentExists'
    BY DEF AdminEffect, SetupInv
<1>3. DraftTermsPast'
    <2> SUFFICES ASSUME NEW id \in Drafted
                 PROVE  /\ round[id].registry <= current'["registry"]
                        /\ round[id].registry = current'["registry"] => registryFrozen'
                        /\ round[id].settlement \in 1..current'["settlement"]
                        /\ round[id].quality \in 1..current'["quality"]
                        /\ round[id].source = "Jupiter"
                               => round[id].config \in 1..current'["jupiter"]
        BY <1>1 DEF DraftTermsPast
    <2>1. /\ round[id].registry \in Nat /\ round[id].settlement \in Nat
          /\ round[id].quality \in Nat /\ round[id].config \in Nat
        BY <1>0 DEF Rounds
    <2>2. /\ round[id].registry <= current["registry"]
          /\ round[id].registry = current["registry"] => registryFrozen
          /\ round[id].settlement \in 1..current["settlement"]
          /\ round[id].quality \in 1..current["quality"]
          /\ round[id].source = "Jupiter" => round[id].config \in 1..current["jupiter"]
        BY DEF SetupInv, DraftTermsPast
    <2>3. /\ \A kind \in Kinds : current[kind] \in Nat /\ current'[kind] \in Nat
          /\ \A kind \in Kinds : current[kind] <= current'[kind]
          /\ current'["registry"] = current["registry"] /\ registryFrozen => registryFrozen'
          /\ {"registry", "settlement", "quality", "jupiter"} \subseteq Kinds
        BY <1>2 DEF ConfigTyped, AccountsKept, Kinds
    <2> QED
        BY <2>1, <2>2, <2>3
<1>4. AssetsRegistered'
    BY <1>1, <1>2 DEF SetupInv, AssetsRegistered, AccountsKept
<1>5. ASSUME NEW id \in Drafted
      PROVE  /\ policy'[round[id].settlement] = policy[round[id].settlement]
             /\ round[id].source = "Jupiter"
                    => jupiterSet'[round[id].config] = jupiterSet[round[id].config]
             /\ minEligible'[round[id].quality] = minEligible[round[id].quality]
             /\ attestorSets \subseteq attestorSets' /\ pythConfigs \subseteq pythConfigs'
    BY <1>2 DEF SetupInv, DraftTermsPast, AccountsKept
<1>6. DraftStaysFreezable'
    BY <1>1, <1>5 DEF SetupInv, DraftStaysFreezable, JupiterBinding, PythBinding
<1>7. FrozenRoundWellFormed'
    BY <1>1, <1>4, <1>5 DEF SetupInv, FrozenRoundWellFormed, AssetsRegistered
<1> QED
    BY <1>1, <1>2, <1>3, <1>4, <1>6, <1>7 DEF SetupInv


\* A new draft, of either source.
LEMMA RoundDrafted ==
    ASSUME SetupInv, DraftsRound, UNCHANGED configVars, AdminEffect
    PROVE  SetupInv'
<1> USE DEF Drafted
<1>1. PICK id \in RoundIds, w \in Windows, source \in Sources, config \in Nat, set \in Nat :
          /\ Draft(id, w, source, config, set)
          /\ source = "Jupiter" => JupiterTermsCurrent
                 /\ config = current["jupiter"] /\ set = current["attestorSet"]
          /\ source = "Pyth" => PythTermsCurrent /\ config = current["pyth"]
    <2>1. /\ current["jupiter"] \in Nat /\ current["pyth"] \in Nat
          /\ current["attestorSet"] \in Nat /\ None \in Nat
        BY DEF SetupInv, ConfigTyped, Kinds, None
    <2>2. "Jupiter" \in Sources /\ "Pyth" \in Sources
        BY DEF Sources
    <2> QED
        BY <2>1, <2>2 DEF DraftsRound, CreateMarketRoundDraft, CreatePythMarketRoundDraft
<1> DEFINE new ==
        [state |-> "Preparing", window |-> w, registry |-> current["registry"],
         source |-> source, config |-> config, attestorSet |-> set,
         settlement |-> current["settlement"], quality |-> current["quality"],
         assets |-> {}]
<1>2. /\ FollowsLastRound(id, w)
      /\ registryFrozen /\ current["registry"] > 0 /\ current["quality"] > 0
      /\ round' = [round EXCEPT ![id] = new]
      /\ lastRound' = [id |-> id, end |-> w.end]
    BY <1>1 DEF Draft
<1>3. UNCHANGED <<current, attestorSets, jupiterSet, pythConfigs, policy, minEligible,
                  registryFrozen, entries>>
    BY DEF configVars, accountVars, registryVars
<1>4. \A kind \in Kinds : current[kind] \in Nat
    BY DEF SetupInv, ConfigTyped
<1>5. new \in Rounds
    BY <1>4 DEF Rounds, Kinds
<1>6. /\ new.state = "Preparing" /\ new.window = w /\ new.registry = current["registry"]
      /\ new.source = source /\ new.config = config /\ new.attestorSet = set
      /\ new.settlement = current["settlement"] /\ new.quality = current["quality"]
      /\ new.assets = {}
    OBVIOUS
<1> HIDE DEF new
<1>7. w.start \in Int /\ w.end \in Int /\ id \in Nat
    BY DraftAssumption
<1>8. DraftTyped'
    BY <1>2, <1>5, <1>7 DEF SetupInv, DraftTyped
<1>9. /\ round'[id] = new
      /\ \A i \in RoundIds \ {id} : round'[i] = round[i]
      /\ \A i \in Drafted' \ {id} : i \in Drafted
    BY <1>2 DEF SetupInv, DraftTyped
<1>10. RoundsDoNotOverlap'
    <2>1. \A i \in Drafted :
              /\ round[i].window.start \in Int /\ round[i].window.end \in Int
              /\ i \in Nat /\ i <= lastRound.id /\ round[i].window.end <= lastRound.end
        BY DraftAssumption DEF SetupInv, RoundsDoNotOverlap, DraftTyped, Rounds
    <2>2. /\ w.start < w.end /\ id > lastRound.id /\ w.start >= lastRound.end
          /\ lastRound.id \in Nat /\ lastRound.end \in Int
          /\ lastRound'.id = id /\ lastRound'.end = w.end
        BY <1>2 DEF FollowsLastRound, SetupInv, DraftTyped
    <2>3. \A i, j \in Drafted' : i < j => round'[i].window.end <= round'[j].window.start
        <3> SUFFICES ASSUME NEW i \in Drafted', NEW j \in Drafted', i < j
                     PROVE  round'[i].window.end <= round'[j].window.start
            OBVIOUS
        <3>1. CASE i # id /\ j # id
            BY <1>9, <3>1 DEF SetupInv, RoundsDoNotOverlap
        <3>2. CASE i # id /\ j = id
            BY <1>6, <1>7, <1>9, <2>1, <2>2, <3>2
        <3>3. CASE i = id /\ j # id
            BY <1>7, <1>9, <2>1, <2>2, <3>3
        <3>4. CASE i = id /\ j = id
            BY <1>7, <3>4
        <3> QED
            BY <3>1, <3>2, <3>3, <3>4
    <2>4. \A i \in Drafted' : i <= lastRound'.id /\ round'[i].window.end <= lastRound'.end
        BY <1>6, <1>7, <1>9, <2>1, <2>2
    <2> QED
        BY <2>3, <2>4 DEF RoundsDoNotOverlap
<1>11. DraftTermsPast'
    <2>1. /\ current["settlement"] > 0
          /\ source = "Jupiter" => current["jupiter"] > 0
        BY <1>1, <1>4 DEF JupiterTermsCurrent, PythTermsCurrent, Sources
    <2>2. /\ current["registry"] \in Nat /\ current["settlement"] \in Nat
          /\ current["quality"] \in Nat /\ current["jupiter"] \in Nat
        BY <1>4 DEF Kinds
    <2> QED
        BY <1>1, <1>2, <1>3, <1>6, <1>9, <2>1, <2>2 DEF SetupInv, DraftTermsPast
<1>12. AssetsRegistered'
    BY <1>3, <1>6, <1>9 DEF SetupInv, AssetsRegistered
<1>13. DraftStaysFreezable'
    <2>1. source = "Jupiter" =>
              JupiterBinding(new) /\ DistinctAssets(new.assets)
        BY <1>1, <1>6 DEF JupiterTermsCurrent, JupiterBinding, DistinctAssets, SetupInv,
                          CurrentExists
    <2>2. source = "Pyth" => PythBinding(new)
        BY <1>1, <1>6 DEF PythTermsCurrent, PythBinding, SetupInv, CurrentExists
    <2>3. minEligible[new.quality] # None
        BY <1>2, <1>6 DEF SetupInv, CurrentExists
    <2> QED
        BY <1>3, <1>6, <1>9, <2>1, <2>2, <2>3
        DEF SetupInv, DraftStaysFreezable, JupiterBinding, PythBinding
<1>14. FrozenRoundWellFormed'
    BY <1>3, <1>6, <1>9 DEF SetupInv, FrozenRoundWellFormed
<1> QED
    BY <1>8, <1>10, <1>11, <1>12, <1>13, <1>14 DEF SetupInv, AdminEffect

\* A step that changes only the assets or the state of one draft.
LEMMA RoundAmended ==
    ASSUME SetupInv, UNCHANGED configVars, AdminEffect, NEW id \in Drafted, NEW new \in Rounds,
           round' = [round EXCEPT ![id] = new], lastRound' = lastRound,
           \A field \in {"window", "registry", "source", "config", "attestorSet",
                         "settlement", "quality"} : new[field] = round[id][field],
           new.assets \subseteq {e \in entries : e.version = new.registry},
           new.source = "Jupiter" => DistinctAssets(new.assets),
           new.state = "Scheduled" => EnoughAssets(new) /\ DistinctAssets(new.assets)
    PROVE  SetupInv'
<1> USE DEF Drafted
<1>1. UNCHANGED <<current, attestorSets, jupiterSet, pythConfigs, policy, minEligible,
                  registryFrozen, entries>>
    BY DEF configVars, accountVars, registryVars
<1>2. /\ new.window = round[id].window /\ new.registry = round[id].registry
      /\ new.source = round[id].source /\ new.config = round[id].config
      /\ new.attestorSet = round[id].attestorSet
      /\ new.settlement = round[id].settlement /\ new.quality = round[id].quality
    OBVIOUS
<1>3. /\ round'[id] = new
      /\ \A i \in RoundIds \ {id} : round'[i] = round[i]
      /\ Drafted' \subseteq Drafted
    BY DEF SetupInv, DraftTyped
<1>4. DraftTyped'
    BY DEF SetupInv, DraftTyped
<1>5. RoundsDoNotOverlap'
    BY <1>2, <1>3 DEF SetupInv, RoundsDoNotOverlap
<1>6. DraftTermsPast'
    BY <1>1, <1>2, <1>3 DEF SetupInv, DraftTermsPast
<1>7. AssetsRegistered'
    BY <1>1, <1>2, <1>3 DEF SetupInv, AssetsRegistered
<1>8. DraftStaysFreezable'
    BY <1>1, <1>2, <1>3 DEF SetupInv, DraftStaysFreezable, JupiterBinding, PythBinding
<1>9. FrozenRoundWellFormed'
    BY <1>1, <1>2, <1>3
    DEF SetupInv, FrozenRoundWellFormed, EnoughAssets, DistinctAssets
<1> QED
    BY <1>4, <1>5, <1>6, <1>7, <1>8, <1>9 DEF SetupInv, AdminEffect

LEMMA AssetAdded ==
    ASSUME SetupInv, AddsAsset, UNCHANGED configVars, AdminEffect
    PROVE  SetupInv'
<1>1. PICK id \in RoundIds, e \in Entries :
          /\ AddAsset(id, e) /\ Preparing(id)
          /\ round[id].source = "Jupiter" =>
                 /\ DistinctAssets(round[id].assets)
                 /\ \A x \in round[id].assets : x.mint # e.mint
    BY DEF AddsAsset, AddRoundAsset, AddPythRoundAsset
<1> DEFINE new == [round[id] EXCEPT !.assets = @ \cup {e}]
<1>2. id \in Drafted /\ round[id] \in Rounds /\ round[id].state = "Preparing"
    BY <1>1 DEF Preparing, Drafted, SetupInv, DraftTyped
<1>3. /\ new \in Rounds /\ new.state = "Preparing" /\ new.assets = round[id].assets \cup {e}
      /\ \A field \in {"window", "registry", "source", "config", "attestorSet",
                       "settlement", "quality"} : new[field] = round[id][field]
    BY <1>2 DEF Rounds
<1>4. /\ round' = [round EXCEPT ![id] = new] /\ lastRound' = lastRound
      /\ e \in entries /\ e.version = round[id].registry
      /\ \A x \in round[id].assets : x.id # e.id
    BY <1>1, <1>2 DEF AddAsset, SetupInv, DraftTyped
<1> HIDE DEF new
<1>5. new.assets \subseteq {x \in entries : x.version = new.registry}
    BY <1>2, <1>3, <1>4 DEF SetupInv, AssetsRegistered
<1>6. new.source = "Jupiter" => DistinctAssets(new.assets)
    BY <1>1, <1>3, <1>4 DEF DistinctAssets
<1> QED
    BY <1>2, <1>3, <1>4, <1>5, <1>6, RoundAmended

LEMMA RoundFrozen ==
    ASSUME SetupInv, FreezesRound, UNCHANGED configVars, AdminEffect
    PROVE  SetupInv'
<1>1. PICK id \in RoundIds : FreezeAssets(id) /\ Preparing(id)
    BY DEF FreezesRound, FreezeMarketRound, FreezePythMarketRound
<1> DEFINE new == [round[id] EXCEPT !.state = "Scheduled"]
<1>2. id \in Drafted /\ round[id] \in Rounds
    BY <1>1 DEF Preparing, Drafted, SetupInv, DraftTyped
<1>3. /\ new \in Rounds /\ new.assets = round[id].assets
      /\ \A field \in {"window", "registry", "source", "config", "attestorSet",
                       "settlement", "quality"} : new[field] = round[id][field]
    BY <1>2 DEF Rounds
<1>4. round' = [round EXCEPT ![id] = new] /\ lastRound' = lastRound
    BY <1>1, <1>2 DEF FreezeAssets, SetupInv, DraftTyped
<1> HIDE DEF new
<1>5. EnoughAssets(new) /\ DistinctAssets(new.assets)
    BY <1>1, <1>3 DEF FreezeAssets, EnoughAssets
<1>6. new.assets \subseteq {x \in entries : x.version = new.registry}
    BY <1>2, <1>3 DEF SetupInv, AssetsRegistered
<1> QED
    BY <1>2, <1>3, <1>4, <1>5, <1>6, RoundAmended

------------------------------------------------------------------------------
LEMMA InitSetup == SetupInit => SetupInv
<1> SUFFICES ASSUME SetupInit PROVE SetupInv
    OBVIOUS
<1>1. Drafted = {}
    BY DEF SetupInit, InitDraft, Drafted
<1>2. /\ current = [kind \in Kinds |-> 0]
      /\ current["jupiter"] = 0 /\ current["pyth"] = 0 /\ current["quality"] = 0
    BY DEF SetupInit, InitConfig, Kinds
<1>3. CurrentExists
    BY <1>2 DEF CurrentExists
<1>4. NoPolicy \in Policies
    BY DEF NoPolicy, Policies, None
<1>5. ConfigTyped
    <2>1. /\ jupiterSet \in [Versions("jupiter") -> Nat]
          /\ minEligible \in [Versions("quality") -> Nat]
        BY DEF SetupInit, InitConfig, None
    <2>2. policy \in [Versions("settlement") -> Policies]
        BY <1>4 DEF SetupInit, InitConfig
    <2>3. current \in [Kinds -> Nat]
        BY <1>2
    <2>4. registryFrozen \in BOOLEAN
        BY DEF SetupInit, InitConfig
    <2>5. attestorSets = {} /\ pythConfigs = {} /\ entries = {}
        BY DEF SetupInit, InitConfig
    <2> QED
        BY <2>1, <2>2, <2>3, <2>4, <2>5 DEF ConfigTyped
<1>6. DraftTyped
    BY DEF SetupInit, InitDraft, DraftTyped
<1> QED
    BY <1>1, <1>3, <1>5, <1>6
    DEF SetupInv, DraftTermsPast, AssetsRegistered, DraftStaysFreezable,
        RoundsDoNotOverlap, FrozenRoundWellFormed

LEMMA SetupStep == SetupInv /\ [SetupNext]_draftVars => SetupInv'
<1> SUFFICES ASSUME SetupInv, [SetupNext]_draftVars PROVE SetupInv'
    OBVIOUS
<1>1. /\ AdminEffect
      /\ \/ UNCHANGED <<round, lastRound>>
         \/ DraftsRound \/ AddsAsset \/ FreezesRound
      /\ ~ UNCHANGED <<round, lastRound>> => UNCHANGED configVars
    BY KindsOfSteps DEF SetupInv
<1> QED
    BY <1>1, RoundsKept, RoundDrafted, AssetAdded, RoundFrozen

LEMMA SetupInvariant == SetupSpec => []SetupInv
    BY InitSetup, SetupStep, PTL DEF SetupSpec

(***************************************************************************)
(* Configuration, registry and drafts keep their types: an account has the *)
(* shape its instruction gave it, and a current version is a number.       *)
(***************************************************************************)
THEOREM SetupTypeCorrect == SetupSpec => [](ConfigTyped /\ DraftTyped)
<1>1. SetupInv => ConfigTyped /\ DraftTyped
    BY DEF SetupInv
<1> QED
    BY <1>1, SetupInvariant, PTL

(***************************************************************************)
(* Whatever the admin creates in between, a draft of either source can be  *)
(* frozen on the accounts that it names.                                   *)
(***************************************************************************)
THEOREM DraftsKeepTheirTerms == SetupSpec => []DraftStaysFreezable
<1>1. SetupInv => DraftStaysFreezable
    BY DEF SetupInv
<1> QED
    BY <1>1, SetupInvariant, PTL

(***************************************************************************)
(* No two rounds of the market overlap, drafted or frozen.                 *)
(***************************************************************************)
THEOREM RoundsFollowOneAnother == SetupSpec => []RoundsDoNotOverlap
<1>1. SetupInv => RoundsDoNotOverlap
    BY DEF SetupInv
<1> QED
    BY <1>1, SetupInvariant, PTL

(***************************************************************************)
(* A frozen round has enough distinct assets of its registry version.      *)
(***************************************************************************)
THEOREM FrozenRoundsAreWellFormed == SetupSpec => []FrozenRoundWellFormed
<1>1. SetupInv => FrozenRoundWellFormed
    BY DEF SetupInv
<1> QED
    BY <1>1, SetupInvariant, PTL

(***************************************************************************)
(* No entry joins the registry version of a round once it is drafted.      *)
(***************************************************************************)
THEOREM RegistryIsFixed == SetupSpec => RoundRegistryFixed
<1>1. SetupInv /\ [SetupNext]_draftVars =>
          [\A id \in Drafted :
               {e \in entries' : e.version = round[id].registry}
                   = {e \in entries : e.version = round[id].registry}]_draftVars
    <2> SUFFICES ASSUME SetupInv, [SetupNext]_draftVars, NEW id \in Drafted
                 PROVE  {e \in entries' : e.version = round[id].registry}
                            = {e \in entries : e.version = round[id].registry}
        OBVIOUS
    <2>1. AccountsKept /\ ConfigTyped
        BY KindsOfSteps DEF SetupInv, AdminEffect
    <2>2. /\ round[id].registry \in Nat /\ current["registry"] \in Nat
          /\ round[id].registry <= current["registry"]
          /\ round[id].registry = current["registry"] => registryFrozen
        BY DEF SetupInv, ConfigTyped, DraftTyped, DraftTermsPast, Drafted, Rounds, Kinds
    <2>3. \A e \in entries' \ entries : e.version # round[id].registry
        BY <2>1, <2>2 DEF AccountsKept
    <2>4. entries \subseteq entries'
        BY <2>1 DEF AccountsKept
    <2> QED
        BY <2>3, <2>4
<1> QED
    BY <1>1, SetupInvariant, PTL DEF SetupSpec, RoundRegistryFixed

=============================================================================
