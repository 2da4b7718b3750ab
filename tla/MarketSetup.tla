----------------------------- MODULE MarketSetup -----------------------------
(***************************************************************************)
(* The admin's and the coordinator's instructions up to the freeze of a    *)
(* round, in every order. No instruction removes a draft.                  *)
(***************************************************************************)
EXTENDS RoundDraft

SetupInit == InitConfig /\ InitDraft

CoordinatorStep(s, id) ==
    \/ \E w \in Windows : CreateMarketRoundDraft(s, id, w) \/ CreatePythMarketRoundDraft(s, id, w)
    \/ \E e \in Entries : AddRoundAsset(s, id, e) \/ AddPythRoundAsset(s, id, e)
    \/ FreezeMarketRound(s, id)
    \/ FreezePythMarketRound(s, id)

SetupNext ==
    \E s \in Keys :
        \/ AdminStep(s) /\ UNCHANGED <<round, lastRound>>
        \/ \E id \in RoundIds : CoordinatorStep(s, id)

SetupSpec == SetupInit /\ [][SetupNext]_draftVars

-----------------------------------------------------------------------------
(***************************************************************************)
(* A draft keeps the terms it was made under, whatever versions the admin  *)
(* creates before it is frozen: the accounts it names still name each      *)
(* other, so a complete draft can be frozen, and a draft whose assets the  *)
(* program itself compares never holds two assets of one mint.             *)
(***************************************************************************)
DraftStaysFreezable ==
    \A id \in Drafted :
        /\ round[id].source = "Jupiter" =>
               JupiterBinding(round[id]) /\ DistinctAssets(round[id].assets)
        /\ round[id].source = "Pyth" => PythBinding(round[id])
        /\ minEligible[round[id].quality] # None

(***************************************************************************)
(* Rounds are played one after the other, of either source and whether or  *)
(* not they were ever frozen.                                              *)
(***************************************************************************)
RoundsDoNotOverlap ==
    /\ \A i, j \in Drafted : i < j => round[i].window.end <= round[j].window.start
    /\ \A i \in Drafted : i <= lastRound.id /\ round[i].window.end <= lastRound.end

(***************************************************************************)
(* A frozen round is made of distinct assets of its registry version, with *)
(* distinct mints, and of enough of them, although assets of a Pyth draft  *)
(* are added without comparing them to the ones it has.                    *)
(***************************************************************************)
FrozenRoundWellFormed ==
    \A id \in Drafted : round[id].state = "Scheduled" =>
        LET assets == round[id].assets IN
        /\ assets \subseteq {e \in entries : e.version = round[id].registry}
        /\ \A x, y \in assets : x # y => x.id # y.id /\ x.mint # y.mint
        /\ Cardinality(assets) >= minEligible[round[id].quality]
        /\ Cardinality(assets) >= LineupSize

(***************************************************************************)
(* The registry a round draws its assets from is fixed before the draft,   *)
(* although the Config has one freeze flag for all registry versions and a *)
(* newer version clears it.                                                *)
(***************************************************************************)
RoundRegistryFixed ==
    [][\A id \in Drafted :
           {e \in entries' : e.version = round[id].registry}
               = {e \in entries : e.version = round[id].registry}]_draftVars

=============================================================================
