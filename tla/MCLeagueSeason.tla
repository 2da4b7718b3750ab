----------------------------- MODULE MCLeagueSeason -----------------------------
(***************************************************************************)
(* One market round that a league of three and the ranked queue share.     *)
(* Registration closes at 1 and the queue at 3, so that a request made at  *)
(* 0 may lapse before the end of registration, and one made at 1 after it. *)
(***************************************************************************)
EXTENDS LeagueSeason

QueueCloseTimes == <<3>>
StartTimes == <<4>>
EndTimes == <<5>>

ASSUME PairingAfterRegistration

MCKeys == {[w \in Wallets |-> w]}

=============================================================================
