----------------------------- MODULE MCCompetition -----------------------------
(***************************************************************************)
(* The schedule is as tight as a draft may have it, one second per window, *)
(* so that every boundary second is shared by two windows or separates     *)
(* them. SoloLineups: one asset each, so that an asset may be missing from *)
(* one lineup and not from the other. SizedLineups: one asset, for the     *)
(* interaction of several battles, and a lineup of the wrong size, which   *)
(* is committed to but which no reveal accepts.                            *)
(***************************************************************************)
EXTENDS SettlementPlanner, TLC

Lineup(assets, captain) == [assets |-> assets, captain |-> captain]

SoloLineups == {Lineup({1}, 1), Lineup({2}, 2)}
SoloReturns == {-1, 1}

SizedLineups == {Lineup({1}, 1), Lineup({}, 1)}

\* One asset and one lineup: the smallest round.
LoneLineups == {Lineup({1}, 1)}
LoneReturns == {1}

Interchangeable == Permutations(Battles) \cup Permutations(Players)

=============================================================================
