------------------------------ MODULE LeagueSeason ------------------------------
(***************************************************************************)
(* A league and the ranked queue side by side: the same wallets, the same  *)
(* market rounds, the same rated exposures. Battles are not played here;   *)
(* RankedSeason and Competition do that.                                   *)
(***************************************************************************)
EXTENDS LeagueRounds, BattleProjection

CONSTANTS
    Movers,       \* the candidates that may leave or be deactivated
    Queuers       \* the wallets that use the ranked queue

ASSUME SeasonAssumption == Movers \subseteq Candidates /\ Queuers \subseteq Wallets

(* The queue of a round a league may play closes after registration, by    *)
(* more than a request may lag. assign_schedule asks this of the start of  *)
(* the round only; what is said of paired rounds below rests on it.        *)
PairingAfterRegistration ==
    \A r \in Rounds :
        StartAt[r] > RegistrationCloseAt => QueueCloseAt[r] > RegistrationCloseAt + 1

vars == <<tableVars, programVars, registryVars, roundVars>>

leagueVars == <<programVars, registryVars, roundVars>>

Init == InitTables /\ InitProgram /\ InitRegistry /\ InitRounds

Tick == now < MaxTime /\ now' = now + 1

(* A candidate that is no mover sends only what the backend gave it, and   *)
(* while its request stands.                                               *)
ProgramStep ==
    \/ CreateOfficialLeague
    \/ ActivateLeague
    \/ CancelLeague
    \/ \E w \in Candidates : JoinLeague(w) /\ (w \notin Movers => membership[w].state = "PENDING_JOIN")
    \/ \E w \in Movers : LeaveLeagueBeforeClose(w) \/ DeactivateLeagueMember(w)

RegistryRequest(at) ==
    \/ UpsertOfficialLeague(at)
    \/ \E s \in [1..TotalRounds -> Rounds] : AssignSchedule(s, at)
    \/ \E w \in Candidates : RequestJoin(w, at)
    \/ \E w \in Movers : RequestLeave(w, at)
    \/ ExpirePendingMemberships(at)

RegistryObservation ==
    \/ \E s \in LeagueStatesShown : ReconcileLeagueState(s)
    \/ \E w \in Candidates : ConfirmJoin(w) \/ ConfirmLeave(w)

QueueStep ==
    \/ \E r \in Rounds, w \in Queuers, at \in Clocks : JoinQueue(r, w, at) \/ LeaveQueue(r, w, at)
    \/ \E p \in pairings : ConfirmCoordinatorBattle(p)
    \/ \E b \in Battles : IndexBattle(b) \/ \E w \in Players(b) : UpsertRatedExposure(b, w)

PairStep ==
    \E n \in 1..TotalRounds :
        \/ \E key \in Keys, at \in Clocks : CreateLeaguePairings(n, key, at)
        \/ ReturnPairingRun(n)

CreateStep ==
    \/ \E p \in pairings : CreateRankedBattle(p)
    \/ \E p \in leaguePairings : CreateLeagueBattle(p)

Next ==
    \/ Tick /\ UNCHANGED <<queueVars, reservation, chainVars, projectionVars, ledgerVars, leagueVars>>
    \/ ProgramStep /\ UNCHANGED <<tableVars, registryVars, roundVars>>
    \/ /\ RegistryObservation \/ \E at \in Clocks : RegistryRequest(at)
       /\ UNCHANGED <<now, queueVars, chainVars, projectionVars, ledgerVars, programVars, roundVars>>
    \/ QueueStep /\ UNCHANGED leagueVars
    \/ /\ \E r \in Rounds, at \in Clocks : Matchmake(r, at)
       /\ UNCHANGED <<programVars, registryVars>>
    \/ PairStep /\ UNCHANGED <<tableVars, programVars, registryVars>>
    \/ /\ CreateStep
       /\ UNCHANGED <<now, queueVars, reservation, settling, projectionVars, ledgerVars,
                      programVars, registryVars>>
    \/ /\ \E p \in leaguePairings : ConfirmLeagueBattle(p)
       /\ UNCHANGED <<now, queueVars, reservation, chainVars, ledgerVars,
                      programVars, registryVars>>

Spec == Init /\ [][Next]_vars

-----------------------------------------------------------------------------
(***************************************************************************)
(* No wallet is in both modes at once: while a league keeps a round for    *)
(* it, it has no live queue entry for a round that overlaps, whatever the  *)
(* order of requests, confirmations and expiries; and of all battles,      *)
(* ranked and league ones, that exist or will, it has at most one a round. *)
(* BattleOf gives the two modes the same battle for the same two players,  *)
(* so for one pair in both modes it is the first conjunct that speaks.     *)
(***************************************************************************)
CrossModeExclusion ==
    \A w \in Wallets :
        /\ \A r, q \in Rounds :
               reservation[r][w] \in LiveReservation /\ Overlap(r, q) =>
                   queue[q][w] \notin {"QUEUED"} \union Paired
        /\ \A r \in Rounds :
               Cardinality({b \in Battles : /\ b.round = r /\ w \in Players(b)
                                            /\ \/ chain[b] # "NONE"
                                               \/ \E p \in pairings : p.battle = b
                                               \/ \E p \in leaguePairings : p.battle = b}) <= 1

(***************************************************************************)
(* The reservations of a wallet are what its membership says, for every    *)
(* round of the schedule and for no other: a wallet that never joined, has *)
(* left or whose request has expired keeps none, and no confirmation that  *)
(* comes late, and no request after another, makes them differ.            *)
(***************************************************************************)
ReservationFor(state) ==
    CASE state = "PENDING_JOIN" -> "PENDING"
      [] state = "ACTIVE" -> "ACTIVE"
      [] state = "PENDING_LEAVE" -> "PENDING_LEAVE"

ReservationsFollowMembership ==
    \A w \in Wallets, r \in Rounds :
        IF w \in Candidates /\ IsMember(w) /\ Scheduled(r)
        THEN reservation[r][w] = ReservationFor(membership[w].state)
        ELSE reservation[r][w] \notin LiveReservation

(***************************************************************************)
(* A paired league round stays whole: every player of it is an active      *)
(* member, with its round reserved, and is in exactly one pairing or has   *)
(* the bye; and a battle on chain has the address of the one pairing it    *)
(* was made for.                                                           *)
(***************************************************************************)
LeaguePairedWhole ==
    /\ \A run \in runs :
           LET own == {p \in leaguePairings : p.number = run.number}
               playing == UNION {Players(p.battle) : p \in own}
           IN  /\ Cardinality(playing) = 2 * Cardinality(own)
               /\ playing \intersect run.bye = {}
               /\ playing \union run.bye \subseteq LeaguePlayers
               /\ \A w \in playing : reservation[schedule[run.number]][w] = "ACTIVE"
    /\ \A b, c \in Battles : b # c /\ b.round = c.round /\ account[b] # NoAccount =>
           account[c] = NoAccount \/ account[c].id # account[b].id
    /\ \A b \in Battles : chain[b] # "NONE" =>
           account[b].mode = "LEAGUE" <=> \E p \in leaguePairings : p.battle = b

=============================================================================
