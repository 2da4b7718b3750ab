----------------------------- MODULE MCRankedSeason -----------------------------
(***************************************************************************)
(* Two rounds of the equity domain and one of private markets. The queue   *)
(* of the second closes before the first has ended, and it starts two      *)
(* seconds later, so that a rating may change between the cutoff and a     *)
(* late matchmaker. The expected score falls in a straight line.           *)
(***************************************************************************)
EXTENDS RankedSeason

QueueCloseTimes == <<1, 2, 3>>
StartTimes == <<2, 4, 5>>
EndTimes == <<3, 5, 6>>

ExpectedLinear(gap) == 500 - gap

ASSUME QueuesInTurn

=============================================================================
