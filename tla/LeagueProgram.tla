----------------------------- MODULE LeagueProgram -----------------------------
(***************************************************************************)
(* The official league on chain: the League account and the LeagueMember   *)
(* accounts, changed by the coordinator and by the players' own            *)
(* transactions. A player needs nothing from the backend to send one. The  *)
(* protocol pause is left out here.                                        *)
(***************************************************************************)
EXTENDS RankedTables

CONSTANTS
    Candidates,            \* the wallets that may ask to join the league
    RegistrationCloseAt,
    MaxPlayers, TotalRounds

ASSUME LeagueAssumption ==
    /\ Candidates \subseteq Wallets
    /\ RegistrationCloseAt \in Nat
    /\ MaxPlayers \in 2..100 /\ TotalRounds \in Nat \ {0}

VARIABLES
    league,    \* the League account: [state, joined, round]
    member,    \* the LeagueMember accounts: none, active or deactivated
    shown      \* what a reader has been able to see of a member's account

programVars == <<league, member, shown>>

InitProgram ==
    /\ league = [state |-> "NONE", joined |-> 0, round |-> 0]
    /\ member = [w \in Candidates |-> "NONE"]
    /\ shown = [w \in Candidates |-> {}]

CreateOfficialLeague ==
    /\ league.state = "NONE"
    /\ now < RegistrationCloseAt
    /\ league' = [league EXCEPT !.state = "REGISTRATION"]
    /\ UNCHANGED <<member, shown>>

(* The round is 1 from here on: no instruction advances it.                *)
ActivateLeague ==
    /\ league.state = "REGISTRATION"
    /\ now >= RegistrationCloseAt
    /\ league.joined >= 2
    /\ league' = [league EXCEPT !.state = "ACTIVE", !.round = 1]
    /\ UNCHANGED <<member, shown>>

CancelLeague ==
    /\ league.state \in {"REGISTRATION", "ACTIVE"}
    /\ league' = [league EXCEPT !.state = "CANCELLED"]
    /\ UNCHANGED <<member, shown>>

RegistrationOpen == league.state = "REGISTRATION" /\ now <= RegistrationCloseAt

JoinLeague(w) ==
    /\ RegistrationOpen
    /\ league.joined < MaxPlayers
    /\ member[w] = "NONE"
    /\ league' = [league EXCEPT !.joined = @ + 1]
    /\ member' = [member EXCEPT ![w] = "ACTIVE"]
    /\ shown' = [shown EXCEPT ![w] = @ \union {"ACTIVE"}]

(* A leave closes the account, which the reader shows as inactive too.     *)
LeaveLeagueBeforeClose(w) ==
    /\ RegistrationOpen
    /\ member[w] = "ACTIVE"
    /\ league' = [league EXCEPT !.joined = @ - 1]
    /\ member' = [member EXCEPT ![w] = "NONE"]
    /\ shown' = [shown EXCEPT ![w] = @ \union {"INACTIVE"}]

(* The member stays one of the joined players.                             *)
DeactivateLeagueMember(w) ==
    /\ member[w] = "ACTIVE"
    /\ member' = [member EXCEPT ![w] = "INACTIVE"]
    /\ shown' = [shown EXCEPT ![w] = @ \union {"INACTIVE"}]
    /\ UNCHANGED league

=============================================================================
