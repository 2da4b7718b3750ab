------------------------------ MODULE MCAlgorithms ------------------------------
(***************************************************************************)
(* The two pure algorithms of the system, each from its own initial states *)
(* while the other does not run.                                           *)
(*                                                                         *)
(* Quorum scan: three attestors, as the program has, in every order and    *)
(* with every choice of missing reports. The prices 1, 2, 3 and 5 give two *)
(* pairs of equal spread and different keys (1 with 2, 2 with 5), so that  *)
(* the tie by keys decides, and a bound of one half excludes some pairs.   *)
(*                                                                         *)
(* League: five members, so that every round has a bye and a pair taken    *)
(* first may leave the others without a pairing; three rounds.             *)
(***************************************************************************)
EXTENDS QuorumScan, LeagueTournament

MCAttestors == {1, 2, 3}
MCPrices == {1, 2, 3, 5}

MCMembers == 1..5
MCRatings == [w \in MCMembers |-> IF w < 4 THEN 1500 ELSE 1600]
MCKeys == {[w \in MCMembers |-> w], [w \in MCMembers |-> (2 * w) % 5]}
MCOutcomes == {[result |-> "PLAYER_A", margin |-> 7], [result |-> "DRAW", margin |-> 0],
               [result |-> "FORFEIT_A", margin |-> 0], [result |-> "VOIDED", margin |-> 0]}

AlgorithmsInit ==
    \/ Init /\ TournamentInit
    \/ accounts = <<>> /\ mask = 1 /\ best = <<>> /\ TournamentInit

AlgorithmsNext ==
    \/ Next /\ UNCHANGED tournamentVars
    \/ accounts = <<>> /\ mask = 1 /\ TournamentNext /\ UNCHANGED vars

AlgorithmsSpec == AlgorithmsInit /\ [][AlgorithmsNext]_<<vars, tournamentVars>>

=============================================================================
