----------------------------- MODULE LeagueProofs -----------------------------
(***************************************************************************)
(* Proofs about a league and the ranked queue side by side, for any        *)
(* rounds, wallets, schedule and limits, and in every order of requests,   *)
(* observations, late confirmations and expiries: the reservations of a    *)
(* league follow its memberships; paired rounds stay whole; and no wallet  *)
(* is in both modes at once.                                               *)
(***************************************************************************)
EXTENDS LeagueSeason, RankedQueueProofs

ReservationStatuses ==
    {"NONE", "PENDING", "ACTIVE", "PENDING_LEAVE", "EXPIRED", "CANCELLED"}

RegistryTyped ==
    /\ DOMAIN membership = Candidates
    /\ reservation \in [Rounds -> [Wallets -> ReservationStatuses]]

RegistryInv == RegistryTyped /\ ReservationsFollowMembership

LEMMA InitRegistryInv == Init => RegistryInv
<1> SUFFICES ASSUME Init PROVE RegistryInv
    OBVIOUS
<1>1. /\ reservation = [r \in Rounds |-> [w \in Wallets |-> "NONE"]]
      /\ membership = [w \in Candidates |-> Entry("NONE")]
    BY DEF Init, InitTables, InitRegistry
<1>2. \A w \in Candidates : membership[w].state = "NONE"
    BY <1>1 DEF Entry
<1> QED
    BY <1>1, <1>2 DEF RegistryInv, RegistryTyped, ReservationStatuses,
        ReservationsFollowMembership, IsMember, LiveMembership, LiveReservation

LEMMA RegistryUntouched ==
    ASSUME RegistryInv, UNCHANGED <<schedule, membership, reservation>>
    PROVE  RegistryInv'
    BY DEF RegistryInv, RegistryTyped, ReservationsFollowMembership, IsMember, Scheduled

\* The three reservations a live membership may have.
LEMMA LiveReservations ==
    /\ ReservationFor("PENDING_JOIN") = "PENDING"
    /\ ReservationFor("ACTIVE") = "ACTIVE"
    /\ ReservationFor("PENDING_LEAVE") = "PENDING_LEAVE"
    BY DEF ReservationFor

\* What the invariant says of one wallet and one round.
LEMMA OneReservation ==
    ASSUME RegistryInv, NEW w \in Wallets, NEW r \in Rounds
    PROVE  /\ w \in Candidates /\ IsMember(w) /\ Scheduled(r) =>
                  /\ membership[w].state = "PENDING_JOIN" => reservation[r][w] = "PENDING"
                  /\ membership[w].state = "ACTIVE" => reservation[r][w] = "ACTIVE"
                  /\ membership[w].state = "PENDING_LEAVE"
                         => reservation[r][w] = "PENDING_LEAVE"
           /\ ~ (w \in Candidates /\ IsMember(w) /\ Scheduled(r))
                  => reservation[r][w] \notin {"PENDING", "ACTIVE", "PENDING_LEAVE"}
    BY LiveReservations DEF RegistryInv, ReservationsFollowMembership, LiveReservation

\* It is enough to show this of the next state.
LEMMA EveryReservation ==
    ASSUME RegistryTyped',
           \A w \in Wallets, r \in Rounds :
               /\ w \in Candidates /\ IsMember(w)' /\ Scheduled(r)' =>
                      /\ membership'[w].state = "PENDING_JOIN" => reservation'[r][w] = "PENDING"
                      /\ membership'[w].state = "ACTIVE" => reservation'[r][w] = "ACTIVE"
                      /\ membership'[w].state = "PENDING_LEAVE"
                             => reservation'[r][w] = "PENDING_LEAVE"
               /\ ~ (w \in Candidates /\ IsMember(w)' /\ Scheduled(r)')
                      => reservation'[r][w] \notin {"PENDING", "ACTIVE", "PENDING_LEAVE"}
    PROVE  RegistryInv'
<1>1. \A w \in Candidates : IsMember(w)' =>
          membership'[w].state \in {"PENDING_JOIN", "ACTIVE", "PENDING_LEAVE"}
    BY DEF IsMember, LiveMembership
<1> QED
    BY <1>1, LiveReservations
    DEF RegistryInv, ReservationsFollowMembership, LiveReservation

LEMMA ScheduleAssigned ==
    ASSUME RegistryInv, NEW s, NEW at, AssignSchedule(s, at)
    PROVE  RegistryInv'
<1>1. /\ \A w \in Candidates : ~ IsMember(w)
      /\ UNCHANGED <<membership, reservation>>
    BY DEF AssignSchedule
<1>2. \A w \in Candidates : ~ IsMember(w)'
    BY <1>1 DEF IsMember
<1>3. RegistryTyped'
    BY <1>1 DEF RegistryInv, RegistryTyped
<1> QED
    BY <1>1, <1>2, <1>3 DEF RegistryInv, ReservationsFollowMembership

\* The memberships and reservations once lapsed requests have been expired.
LEMMA Expired ==
    ASSUME RegistryInv, NEW at
    PROVE  /\ DOMAIN MembershipAfterExpiry(at) = Candidates
           /\ ReservationAfterExpiry(at) \in [Rounds -> [Wallets -> ReservationStatuses]]
           /\ \A w \in Candidates :
                  \/ MembershipAfterExpiry(at)[w] = membership[w] /\ w \notin Lapsed(at)
                  \/ /\ MembershipAfterExpiry(at)[w].state = "EXPIRED"
                     /\ w \in Lapsed(at) /\ membership[w].state = "PENDING_JOIN"
           /\ \A w \in Wallets, r \in Rounds :
                  /\ w \notin Lapsed(at) => ReservationAfterExpiry(at)[r][w] = reservation[r][w]
                  /\ w \in Lapsed(at) => ReservationAfterExpiry(at)[r][w]
                                             \notin {"PENDING", "ACTIVE", "PENDING_LEAVE"}
<1>1. DOMAIN MembershipAfterExpiry(at) = Candidates
    BY DEF MembershipAfterExpiry
<1>2. ReservationAfterExpiry(at) \in [Rounds -> [Wallets -> ReservationStatuses]]
    BY DEF ReservationAfterExpiry, RegistryInv, RegistryTyped, ReservationStatuses
<1>3. \A w \in Candidates :
          \/ MembershipAfterExpiry(at)[w] = membership[w] /\ w \notin Lapsed(at)
          \/ /\ MembershipAfterExpiry(at)[w].state = "EXPIRED"
             /\ w \in Lapsed(at) /\ membership[w].state = "PENDING_JOIN"
    BY DEF MembershipAfterExpiry, Entry, Lapsed
<1>4. ASSUME NEW w \in Wallets, NEW r \in Rounds
      PROVE  /\ w \notin Lapsed(at) => ReservationAfterExpiry(at)[r][w] = reservation[r][w]
             /\ w \in Lapsed(at) => ReservationAfterExpiry(at)[r][w]
                                        \notin {"PENDING", "ACTIVE", "PENDING_LEAVE"}
    <2>1. ReservationAfterExpiry(at)[r][w] =
              IF w \in Lapsed(at) /\ reservation[r][w] = "PENDING" THEN "EXPIRED"
              ELSE reservation[r][w]
        BY DEF ReservationAfterExpiry
    <2>2. w \in Lapsed(at) => reservation[r][w] \notin {"ACTIVE", "PENDING_LEAVE"}
        BY OneReservation DEF Lapsed, IsMember, LiveMembership
    <2> QED
        BY <2>1, <2>2
<1> QED
    BY <1>1, <1>2, <1>3, <1>4

LEMMA MembershipsExpired ==
    ASSUME RegistryInv, NEW at, ExpirePendingMemberships(at)
    PROVE  RegistryInv'
<1>1. /\ membership' = MembershipAfterExpiry(at) /\ reservation' = ReservationAfterExpiry(at)
      /\ schedule' = schedule
    BY DEF ExpirePendingMemberships
<1>2. RegistryTyped'
    BY <1>1, Expired DEF RegistryTyped
<1>3. ASSUME NEW w \in Wallets, NEW r \in Rounds
      PROVE  /\ w \in Candidates /\ IsMember(w)' /\ Scheduled(r)' =>
                    /\ membership'[w].state = "PENDING_JOIN" => reservation'[r][w] = "PENDING"
                    /\ membership'[w].state = "ACTIVE" => reservation'[r][w] = "ACTIVE"
                    /\ membership'[w].state = "PENDING_LEAVE"
                           => reservation'[r][w] = "PENDING_LEAVE"
             /\ ~ (w \in Candidates /\ IsMember(w)' /\ Scheduled(r)')
                    => reservation'[r][w] \notin {"PENDING", "ACTIVE", "PENDING_LEAVE"}
    <2>1. Scheduled(r)' <=> Scheduled(r)
        BY <1>1 DEF Scheduled
    <2>2. CASE w \in Lapsed(at)
        <3>1. w \in Candidates /\ membership'[w].state = "EXPIRED"
            BY <1>1, <2>2, Expired DEF Lapsed
        <3>2. ~ IsMember(w)'
            BY <3>1 DEF IsMember, LiveMembership
        <3> QED
            BY <1>1, <2>2, <3>2, Expired
    <2>3. CASE w \notin Lapsed(at)
        <3>1. /\ reservation'[r][w] = reservation[r][w]
              /\ w \in Candidates => membership'[w] = membership[w]
            BY <1>1, <2>3, Expired
        <3>2. w \in Candidates => (IsMember(w)' <=> IsMember(w))
            BY <3>1 DEF IsMember
        <3> QED
            BY <2>1, <3>1, <3>2, OneReservation
    <2> QED
        BY <2>2, <2>3
<1> QED
    BY <1>2, <1>3, EveryReservation

LEMMA JoinRequested ==
    ASSUME RegistryInv, NEW v \in Candidates, NEW at, RequestJoin(v, at)
    PROVE  RegistryInv'
<1> DEFINE members == MembershipAfterExpiry(at)
           reserved == ReservationAfterExpiry(at)
<1>1. /\ membership' = [members EXCEPT ![v] =
             [state |-> "PENDING_JOIN", until |-> at + PendingJoinTtl]]
      /\ reservation' = [r \in Rounds |->
             IF Scheduled(r) THEN [reserved[r] EXCEPT ![v] = "PENDING"] ELSE reserved[r]]
      /\ members[v].state \notin LiveMembership
      /\ schedule' = schedule
    BY DEF RequestJoin
<1>2. DOMAIN membership' = Candidates
    BY <1>1, Expired
<1>3. v \in Wallets
    BY LeagueAssumption
<1>4. RegistryTyped'
    BY <1>1, <1>2, <1>3, Expired DEF RegistryTyped, ReservationStatuses
<1>5. ASSUME NEW w \in Wallets, NEW r \in Rounds
      PROVE  /\ w \in Candidates /\ IsMember(w)' /\ Scheduled(r)' =>
                    /\ membership'[w].state = "PENDING_JOIN" => reservation'[r][w] = "PENDING"
                    /\ membership'[w].state = "ACTIVE" => reservation'[r][w] = "ACTIVE"
                    /\ membership'[w].state = "PENDING_LEAVE"
                           => reservation'[r][w] = "PENDING_LEAVE"
             /\ ~ (w \in Candidates /\ IsMember(w)' /\ Scheduled(r)')
                    => reservation'[r][w] \notin {"PENDING", "ACTIVE", "PENDING_LEAVE"}
    <2>1. Scheduled(r)' <=> Scheduled(r)
        BY <1>1 DEF Scheduled
    <2>2. reserved[r] \in [Wallets -> ReservationStatuses]
        BY Expired
    <2>3. CASE w = v
        <3>1. membership'[w].state = "PENDING_JOIN" /\ IsMember(w)'
            BY <1>1, <2>3, Expired DEF IsMember, LiveMembership
        <3>2. Scheduled(r) => reservation'[r][w] = "PENDING"
            BY <1>1, <2>2, <2>3
        <3>3. ~ Scheduled(r) => reservation'[r][w] = reserved[r][w]
            BY <1>1
        <3>4. ~ Scheduled(r) => reserved[r][w] \notin {"PENDING", "ACTIVE", "PENDING_LEAVE"}
            BY Expired, OneReservation
        <3> QED
            BY <2>1, <2>3, <3>1, <3>2, <3>3, <3>4
    <2>4. CASE w # v
        <3>1. reservation'[r][w] = reserved[r][w]
            BY <1>1, <2>2, <2>4
        <3>2. w \in Candidates => membership'[w] = members[w]
            BY <1>1, <2>4, Expired
        <3> HIDE DEF members, reserved
        <3>3. w \in Candidates => (IsMember(w)' <=> members[w].state \in LiveMembership)
            BY <3>2 DEF IsMember
        <3>4. CASE w \in Lapsed(at)
            <4>1. w \in Candidates /\ members[w].state = "EXPIRED"
                BY <3>4, Expired DEF Lapsed, members
            <4>2. ~ IsMember(w)'
                BY <3>3, <4>1 DEF LiveMembership
            <4>3. reserved[r][w] \notin {"PENDING", "ACTIVE", "PENDING_LEAVE"}
                BY <3>4, Expired DEF reserved
            <4> QED
                BY <3>1, <4>2, <4>3
        <3>5. CASE w \notin Lapsed(at)
            <4>1. /\ reserved[r][w] = reservation[r][w]
                  /\ w \in Candidates => members[w] = membership[w]
                BY <3>5, Expired DEF reserved, members
            <4>2. w \in Candidates => (IsMember(w)' <=> IsMember(w))
                BY <3>3, <4>1 DEF IsMember
            <4> QED
                BY <2>1, <3>1, <3>2, <4>1, <4>2, OneReservation
        <3> QED
            BY <3>4, <3>5
    <2> QED
        BY <2>3, <2>4
<1> QED
    BY <1>4, <1>5, EveryReservation

\* A request or observation that moves one membership, and with it the
\* reservations that stand for it.
LEMMA MembershipMoved ==
    ASSUME RegistryInv, NEW v \in Candidates, NEW entry, NEW from, NEW to,
           IsMember(v), from \subseteq LiveReservation,
           membership' = [membership EXCEPT ![v] = entry],
           reservation' = Reserve(v, from, to), schedule' = schedule,
           \/ /\ entry.state \in LiveMembership
              /\ to = ReservationFor(entry.state)
              /\ \/ ReservationFor(membership[v].state) \in from
                 \/ ReservationFor(membership[v].state) = to
           \/ /\ entry.state \notin LiveMembership
              /\ to = "CANCELLED" /\ ReservationFor(membership[v].state) \in from
    PROVE  RegistryInv'
<1>0. /\ v \in Wallets /\ to \in {"PENDING", "ACTIVE", "PENDING_LEAVE", "CANCELLED"}
      /\ \A r \in Rounds : reservation[r] \in [Wallets -> ReservationStatuses]
    BY LeagueAssumption, LiveReservations DEF LiveMembership, RegistryInv, RegistryTyped
<1>1. \A r \in Rounds :
          /\ reservation'[r][v] = IF reservation[r][v] \in from THEN to ELSE reservation[r][v]
          /\ \A w \in Wallets \ {v} : reservation'[r][w] = reservation[r][w]
          /\ reservation'[r] = [reservation[r] EXCEPT ![v] =
                                    IF reservation[r][v] \in from THEN to ELSE @]
    BY <1>0 DEF Reserve
<1>2. RegistryTyped'
    <2>1. DOMAIN membership' = Candidates
        BY DEF RegistryInv, RegistryTyped
    <2>2. to \in ReservationStatuses
        BY <1>0 DEF ReservationStatuses
    <2>3. \A r \in Rounds : [reservation[r] EXCEPT ![v] =
              IF @ \in from THEN to ELSE @] \in [Wallets -> ReservationStatuses]
        BY <1>0, <2>2
    <2>4. reservation' \in [Rounds -> [Wallets -> ReservationStatuses]]
        BY <2>3 DEF Reserve
    <2> QED
        BY <2>1, <2>4 DEF RegistryTyped
<1>3. /\ membership'[v] = entry
      /\ \A w \in Candidates \ {v} : membership'[w] = membership[w]
    BY DEF RegistryInv, RegistryTyped
<1>4. ASSUME NEW w \in Wallets, NEW r \in Rounds
      PROVE  /\ w \in Candidates /\ IsMember(w)' /\ Scheduled(r)' =>
                    /\ membership'[w].state = "PENDING_JOIN" => reservation'[r][w] = "PENDING"
                    /\ membership'[w].state = "ACTIVE" => reservation'[r][w] = "ACTIVE"
                    /\ membership'[w].state = "PENDING_LEAVE"
                           => reservation'[r][w] = "PENDING_LEAVE"
             /\ ~ (w \in Candidates /\ IsMember(w)' /\ Scheduled(r)')
                    => reservation'[r][w] \notin {"PENDING", "ACTIVE", "PENDING_LEAVE"}
    <2>1. Scheduled(r)' <=> Scheduled(r)
        BY DEF Scheduled
    <2>2. CASE w # v
        <3>1. w \in Candidates => (IsMember(w)' <=> IsMember(w))
            BY <1>3, <2>2 DEF IsMember
        <3>2. reservation'[r][w] = reservation[r][w]
            BY <1>1, <2>2
        <3>3. w \in Candidates => membership'[w] = membership[w]
            BY <1>3, <2>2
        <3> QED
            BY <2>1, <3>1, <3>2, <3>3, OneReservation
    <2>3. CASE w = v
        <3>1. Scheduled(r) => reservation[r][v] = ReservationFor(membership[v].state)
            BY <1>0 DEF RegistryInv, ReservationsFollowMembership
        <3>2. ~ Scheduled(r) => reservation[r][v] \notin {"PENDING", "ACTIVE", "PENDING_LEAVE"}
            BY <1>0, OneReservation
        <3>3. IsMember(v)' <=> entry.state \in LiveMembership
            BY <1>3 DEF IsMember
        <3>4. CASE Scheduled(r)
            <4>1. reservation'[r][v] = to
                BY <1>1, <3>1, <3>4
            <4>2. entry.state \in LiveMembership => to = ReservationFor(entry.state)
                OBVIOUS
            <4>3. entry.state \notin LiveMembership => to = "CANCELLED"
                OBVIOUS
            <4> QED
                BY <1>3, <2>1, <2>3, <3>3, <3>4, <4>1, <4>2, <4>3, LiveReservations
        <3>5. CASE ~ Scheduled(r)
            BY <1>1, <2>1, <2>3, <3>2, <3>5 DEF LiveReservation
        <3> QED
            BY <3>4, <3>5
    <2> QED
        BY <2>2, <2>3
<1> QED
    BY <1>2, <1>4, EveryReservation

LEMMA JoinConfirmed ==
    ASSUME RegistryInv, NEW v \in Candidates, ConfirmJoin(v)
    PROVE  RegistryInv'
<1>1. /\ membership[v].state \in {"PENDING_JOIN", "ACTIVE"}
      /\ membership' = [membership EXCEPT ![v] = Entry("ACTIVE")]
      /\ reservation' = Reserve(v, {"PENDING"}, "ACTIVE") /\ schedule' = schedule
    BY DEF ConfirmJoin
<1>2. Entry("ACTIVE").state = "ACTIVE" /\ "ACTIVE" \in LiveMembership /\ IsMember(v)
    BY <1>1 DEF Entry, LiveMembership, IsMember
<1>3. \/ ReservationFor(membership[v].state) \in {"PENDING"}
      \/ ReservationFor(membership[v].state) = "ACTIVE"
    BY <1>1, LiveReservations
<1>4. {"PENDING"} \subseteq LiveReservation
    BY DEF LiveReservation
<1> QED
    BY <1>1, <1>2, <1>3, <1>4, LiveReservations, MembershipMoved

LEMMA LeaveRequested ==
    ASSUME RegistryInv, NEW v \in Candidates, NEW at, RequestLeave(v, at)
    PROVE  RegistryInv'
<1>1. /\ membership[v].state = "ACTIVE"
      /\ membership' = [membership EXCEPT ![v] = Entry("PENDING_LEAVE")]
      /\ reservation' = Reserve(v, {"PENDING", "ACTIVE"}, "PENDING_LEAVE")
      /\ schedule' = schedule
    BY DEF RequestLeave
<1>2. /\ Entry("PENDING_LEAVE").state = "PENDING_LEAVE"
      /\ "PENDING_LEAVE" \in LiveMembership /\ IsMember(v)
    BY <1>1 DEF Entry, LiveMembership, IsMember
<1>3. ReservationFor(membership[v].state) \in {"PENDING", "ACTIVE"}
    BY <1>1, LiveReservations
<1>4. {"PENDING", "ACTIVE"} \subseteq LiveReservation
    BY DEF LiveReservation
<1> QED
    BY <1>1, <1>2, <1>3, <1>4, LiveReservations, MembershipMoved

LEMMA LeaveConfirmed ==
    ASSUME RegistryInv, NEW v \in Candidates, ConfirmLeave(v)
    PROVE  RegistryInv'
<1>1. /\ membership[v].state = "PENDING_LEAVE"
      /\ membership' = [membership EXCEPT ![v] = Entry("LEFT")]
      /\ reservation' = Reserve(v, {"PENDING_LEAVE"}, "CANCELLED")
      /\ schedule' = schedule
    BY DEF ConfirmLeave
<1>2. Entry("LEFT").state \notin LiveMembership /\ IsMember(v)
    BY <1>1 DEF Entry, LiveMembership, IsMember
<1>3. ReservationFor(membership[v].state) \in {"PENDING_LEAVE"}
    BY <1>1, LiveReservations
<1>4. {"PENDING_LEAVE"} \subseteq LiveReservation
    BY DEF LiveReservation
<1> QED
    BY <1>1, <1>2, <1>3, <1>4, MembershipMoved

\* The ranked queue and the battles of either mode read the reservations and
\* never change them.
LEMMA OthersLeaveRegistry ==
    ASSUME \/ Tick /\ UNCHANGED <<queueVars, reservation, chainVars, projectionVars,
                                  ledgerVars, leagueVars>>
           \/ ProgramStep /\ UNCHANGED <<tableVars, registryVars, roundVars>>
           \/ QueueStep /\ UNCHANGED leagueVars
           \/ /\ \E r \in Rounds, at \in Clocks : Matchmake(r, at)
              /\ UNCHANGED <<programVars, registryVars>>
           \/ PairStep /\ UNCHANGED <<tableVars, programVars, registryVars>>
           \/ /\ CreateStep
              /\ UNCHANGED <<now, queueVars, reservation, settling, projectionVars,
                             ledgerVars, programVars, registryVars>>
           \/ /\ \E p \in leaguePairings : ConfirmLeagueBattle(p)
              /\ UNCHANGED <<now, queueVars, reservation, chainVars, ledgerVars,
                             programVars, registryVars>>
    PROVE  UNCHANGED <<schedule, membership, reservation>>
<1>1. CASE QueueStep /\ UNCHANGED leagueVars
    BY <1>1 DEF QueueStep, JoinQueue, LeaveQueue, ConfirmCoordinatorBattle, IndexBattle,
                UpsertBattle, UpsertRatedExposure, leagueVars, registryVars
<1>2. CASE /\ \E r \in Rounds, at \in Clocks : Matchmake(r, at)
           /\ UNCHANGED <<programVars, registryVars>>
    BY <1>2 DEF Matchmake, RunMatchmaker, registryVars
<1> QED
    BY <1>1, <1>2 DEF leagueVars, registryVars, tableVars

LEMMA RegistryStep == RegistryInv /\ [Next]_vars => RegistryInv'
<1> SUFFICES ASSUME RegistryInv, [Next]_vars PROVE RegistryInv'
    OBVIOUS
<1>1. CASE UNCHANGED vars
    BY <1>1, RegistryUntouched DEF vars, tableVars, registryVars
<1>2. ASSUME NEW at, RegistryRequest(at)
      PROVE  RegistryInv'
    <2>1. CASE UpsertOfficialLeague(at)
        BY <2>1, RegistryUntouched DEF UpsertOfficialLeague
    <2>2. ASSUME NEW s, AssignSchedule(s, at)
          PROVE  RegistryInv'
        BY <2>2, ScheduleAssigned
    <2>3. ASSUME NEW w \in Candidates, RequestJoin(w, at)
          PROVE  RegistryInv'
        BY <2>3, JoinRequested
    <2>4. ASSUME NEW w \in Movers, RequestLeave(w, at)
          PROVE  RegistryInv'
        BY <2>4, SeasonAssumption, LeaveRequested
    <2>5. CASE ExpirePendingMemberships(at)
        BY <2>5, MembershipsExpired
    <2> QED
        BY <1>2, <2>1, <2>2, <2>3, <2>4, <2>5 DEF RegistryRequest
<1>3. CASE RegistryObservation
    <2>1. ASSUME NEW s, ReconcileLeagueState(s)
          PROVE  RegistryInv'
        BY <2>1, RegistryUntouched DEF ReconcileLeagueState
    <2> QED
        BY <1>3, <2>1, JoinConfirmed, LeaveConfirmed DEF RegistryObservation
<1> QED
    BY <1>1, <1>2, <1>3, OthersLeaveRegistry, RegistryUntouched DEF Next

(***************************************************************************)
(* A wallet holds a live reservation of a round exactly as long as a live  *)
(* membership of the league that plays it, and in the same state.          *)
(***************************************************************************)
THEOREM ReservationsAreExact == Spec => []ReservationsFollowMembership
<1>1. RegistryInv => ReservationsFollowMembership
    BY DEF RegistryInv
<1> QED
    BY <1>1, InitRegistryInv, RegistryStep, PTL DEF Spec

-----------------------------------------------------------------------------
(***************************************************************************)
(* The league rounds. Once a round is paired, registration is over by more *)
(* than any request may lag: the schedule is settled and every active      *)
(* member stays one, whatever an old observation makes of the league row.  *)
(***************************************************************************)
LeaguePairingRow ==
    [battle : Battles, number : Int, status : {"PENDING_COORDINATOR", "CREATED"},
     snapA : Int, snapB : Int]

RoundsTyped ==
    /\ leaguePairings \subseteq LeaguePairingRow
    /\ IsFiniteSet(runs) /\ IsFiniteSet(leaguePairings)
    /\ DOMAIN account = Battles

ScheduleInv ==
    /\ ValidSchedule(schedule)
    /\ \A n \in DOMAIN schedule :
           schedule[n] \in Rounds /\ StartAt[schedule[n]] > RegistrationCloseAt

PairedLate == runs # {} => RegistrationCloseAt + 1 < now

\* The pairings of a run are of its round, and match the members it had.
RunsInv ==
    /\ \A run \in runs : run.number \in DOMAIN schedule /\ run.bye \subseteq LeaguePlayers
    /\ \A run \in runs, p \in leaguePairings :
           p.number = run.number => Players(p.battle) \intersect run.bye = {}
    /\ \A p \in leaguePairings :
           /\ p.number \in RunNumbers /\ p.battle.round = schedule[p.number]
           /\ Players(p.battle) \subseteq LeaguePlayers
    /\ \A p, q \in leaguePairings :
           p.number = q.number /\ Players(p.battle) \intersect Players(q.battle) # {} => p = q

ModesApart ==
    \A w \in Wallets, r, q \in Rounds :
        reservation[r][w] \in LiveReservation /\ Overlap(r, q) =>
            queue[q][w] \notin {"QUEUED"} \union Paired

\* A battle on chain was made for a pairing, at an address of its own.
BattlesArePaired ==
    \A b \in Battles : chain[b] # "NONE" =>
        (\E p \in pairings : p.battle = b) \/ (\E p \in leaguePairings : p.battle = b)

AddressesDiffer ==
    \A b, c \in Battles : b # c /\ b.round = c.round /\ account[b] # NoAccount =>
        account[c] = NoAccount \/ account[c].id # account[b].id

AddressTellsMode ==
    \A b \in Battles : chain[b] # "NONE" =>
        account[b].mode = "LEAGUE" <=> \E p \in leaguePairings : p.battle = b

TablesInv == TypedTables /\ PairedInv /\ RegistryInv

RoundsInv == RoundsTyped /\ ScheduleInv /\ PairedLate /\ RunsInv /\ ModesApart

SeasonInv ==
    TablesInv /\ RoundsInv /\ BattlesArePaired /\ AddressesDiffer /\ AddressTellsMode

LEMMA InitSeasonInv == Init => SeasonInv
<1> SUFFICES ASSUME Init PROVE SeasonInv
    OBVIOUS
<1> USE DEF Init, InitTables, InitRegistry, InitRounds
<1>1. TypedTables
    BY TableAssumption DEF TypedTables, EntryStates
<1>2. PairedInv
    BY DEF PairedInv, PairedOnce, EntriesFollowPairings, Paired
<1>3. RoundsTyped
    BY FS_EmptySet DEF RoundsTyped
<1>4. ScheduleInv /\ PairedLate /\ RunsInv /\ ModesApart
    BY DEF ScheduleInv, ValidSchedule, PairedLate, RunsInv, ModesApart, Paired
<1>5. BattlesArePaired /\ AddressesDiffer /\ AddressTellsMode
    BY DEF BattlesArePaired, AddressesDiffer, AddressTellsMode
<1> QED BY <1>1, <1>2, <1>3, <1>4, <1>5, InitRegistryInv DEF SeasonInv, TablesInv, RoundsInv

-----------------------------------------------------------------------------
(***************************************************************************)
(* What the invariant says of one player of a pairing, of either mode.     *)
(***************************************************************************)
LEMMA LeaguePairingsAreTyped ==
    ASSUME RoundsTyped, NEW p \in leaguePairings
    PROVE  /\ p \in LeaguePairingRow /\ p.battle \in Battles /\ p.battle.round \in Rounds
           /\ p.snapA \in Int /\ p.snapB \in Int
           /\ Players(p.battle) \subseteq Wallets /\ Players(p.battle) # {}
BY BattlesAreTyped DEF RoundsTyped, LeaguePairingRow, Players

LEMMA MembersAreReserved ==
    ASSUME RegistryInv, ScheduleInv, NEW n \in DOMAIN schedule, NEW w \in LeaguePlayers
    PROVE  /\ w \in Wallets /\ schedule[n] \in Rounds
           /\ reservation[schedule[n]][w] = "ACTIVE"
<1>1. w \in Candidates /\ membership[w].state = "ACTIVE"
    BY DEF LeaguePlayers
<1>2. w \in Wallets /\ IsMember(w) /\ schedule[n] \in Rounds /\ Scheduled(schedule[n])
    BY <1>1, LeagueAssumption DEF IsMember, LiveMembership, ScheduleInv, Scheduled
<1> QED BY <1>1, <1>2, OneReservation

LEMMA RoundsOverlap ==
    /\ \A r \in Rounds : Overlap(r, r)
    /\ \A r, q \in Rounds : Overlap(r, q) <=> Overlap(q, r)
BY TableAssumption DEF Overlap

LEMMA MembersAreNotPaired ==
    ASSUME TablesInv, ScheduleInv, ModesApart,
           NEW n \in DOMAIN schedule, NEW w \in LeaguePlayers,
           NEW q \in pairings, q.battle.round = schedule[n], w \in Players(q.battle)
    PROVE  FALSE
<1> DEFINE r == schedule[n]
<1>1. w \in Wallets /\ r \in Rounds /\ reservation[r][w] = "ACTIVE"
    BY MembersAreReserved DEF TablesInv
<1>2. queue[r][w] \in Paired
    BY DEF TablesInv, PairedInv, EntriesFollowPairings, Paired
<1> QED BY <1>1, <1>2, RoundsOverlap DEF ModesApart, LiveReservation

LEMMA ModesDoNotMeet ==
    ASSUME TablesInv, RoundsInv, NEW p \in leaguePairings, NEW q \in pairings,
           p.battle.round = q.battle.round,
           Players(p.battle) \intersect Players(q.battle) # {}
    PROVE  FALSE
<1>1. PICK w \in Players(p.battle) : w \in Players(q.battle)
    OBVIOUS
<1>2. /\ p.number \in DOMAIN schedule /\ p.battle.round = schedule[p.number]
      /\ w \in LeaguePlayers
    BY DEF RoundsInv, RunsInv, RunNumbers
<1> QED BY <1>1, <1>2, MembersAreNotPaired DEF RoundsInv

\* So a round of the schedule is that of one number.
LEMMA NumberOfRound ==
    ASSUME ScheduleInv, NEW i \in DOMAIN schedule, NEW j \in DOMAIN schedule,
           schedule[i] = schedule[j]
    PROVE  i = j
BY DEF ScheduleInv, ValidSchedule

LEMMA LeaguePairedOnce ==
    ASSUME ScheduleInv, RunsInv, NEW p \in leaguePairings, NEW q \in leaguePairings,
           p.battle.round = q.battle.round,
           Players(p.battle) \intersect Players(q.battle) # {}
    PROVE  p = q
<1>1. /\ p.number \in DOMAIN schedule /\ p.battle.round = schedule[p.number]
      /\ q.number \in DOMAIN schedule /\ q.battle.round = schedule[q.number]
    BY DEF RunsInv, RunNumbers
<1>2. p.number = q.number
    BY <1>1, NumberOfRound
<1> QED BY <1>2 DEF RunsInv

-----------------------------------------------------------------------------
(***************************************************************************)
(* The tables of the ranked queue: a league battle writes the same rows a  *)
(* ranked one does, and no entry of the queue.                             *)
(***************************************************************************)
LEMMA SeasonTableStep ==
    ASSUME TablesInv, RoundsTyped, [Next]_vars
    PROVE  \/ QueueTableStep
           \/ UNCHANGED queueVars /\ TypedTables'
<1>0. TypedTables
    BY DEF TablesInv
<1>1. CASE QueueStep
    <2>1. Queuers \subseteq Wallets /\ Clocks \subseteq Int
        BY SeasonAssumption DEF Clocks
    <2>2. \A b \in Battles : Players(b) \subseteq Wallets
        BY BattlesAreTyped DEF Players
    <2> QED BY <1>1, <2>1, <2>2 DEF QueueStep, QueueTableStep
<1>2. ASSUME NEW r \in Rounds, NEW at \in Clocks, Matchmake(r, at)
      PROVE  QueueTableStep
    <2>1. at \in Int /\ RunMatchmaker(r, at)
        BY <1>2 DEF Matchmake, Clocks
    <2> QED BY <2>1 DEF QueueTableStep
<1>3. CASE UNCHANGED <<queueVars, chainVars, projectionVars, ledgerVars>> /\ now' \in Nat
    BY <1>0, <1>3 DEF TypedTables, queueVars, chainVars, projectionVars, ledgerVars
<1>4. CASE Tick /\ UNCHANGED <<queueVars, reservation, chainVars, projectionVars, ledgerVars,
                               leagueVars>>
    <2>1. now' \in Nat
        BY <1>0, <1>4 DEF Tick, TypedTables
    <2> QED BY <1>3, <1>4, <2>1 DEF queueVars
<1>5. CASE UNCHANGED <<now, queueVars, chainVars, projectionVars, ledgerVars>>
    <2>1. now' \in Nat
        BY <1>0, <1>5 DEF TypedTables
    <2> QED BY <1>3, <1>5, <2>1 DEF queueVars
<1>6. CASE CreateStep /\ UNCHANGED <<now, queueVars, reservation, settling, projectionVars,
                                     ledgerVars, programVars, registryVars>>
    <2>1. PICK b \in Battles : chain' = [chain EXCEPT ![b] = "OPEN"]
        <3>1. ASSUME NEW p \in pairings, CreateRankedBattle(p)
              PROVE  \E b \in Battles : chain' = [chain EXCEPT ![b] = "OPEN"]
            BY <1>0, <3>1, PairingsAreTyped DEF CreateRankedBattle, CreateRatedBattle
        <3>2. ASSUME NEW p \in leaguePairings, CreateLeagueBattle(p)
              PROVE  \E b \in Battles : chain' = [chain EXCEPT ![b] = "OPEN"]
            BY <3>2, LeaguePairingsAreTyped DEF CreateLeagueBattle, CreateRatedBattle
        <3> QED BY <1>6, <3>1, <3>2 DEF CreateStep
    <2>2. chain' \in [Battles -> {"NONE", "OPEN"} \union PossibleResults]
        BY <1>0, <2>1 DEF TypedTables
    <2>3. TypedTables'
        BY <1>0, <1>6, <2>2 DEF TypedTables, queueVars, projectionVars, ledgerVars
    <2> QED BY <1>6, <2>3 DEF queueVars
<1>7. CASE /\ \E p \in leaguePairings : ConfirmLeagueBattle(p)
           /\ UNCHANGED <<now, queueVars, reservation, chainVars, ledgerVars,
                          programVars, registryVars>>
    <2>1. PICK p \in leaguePairings : ConfirmLeagueBattle(p)
        BY <1>7
    <2> DEFINE b == p.battle
    <2>2. b \in Battles /\ b.round \in Rounds /\ ConfirmedRow(p) \in BattleRow
        BY <1>0, LeaguePairingsAreTyped, ConfirmedRowIsARow
    <2>3. /\ row' = [row EXCEPT ![b] = ConfirmedRow(p)]
          /\ exposure' = [exposure EXCEPT ![b.round] =
                 [w \in Wallets |-> IF w \in Players(b) THEN b ELSE exposure[b.round][w]]]
        BY <2>1 DEF ConfirmLeagueBattle
    <2>4. row' \in [Battles -> BattleRow \union {NoRow}]
        BY <1>0, <2>2, <2>3 DEF TypedTables
    <2>5. exposure' \in [Rounds -> [Wallets -> Battles \union {NoBattle}]]
        BY <1>0, <2>2, <2>3 DEF TypedTables
    <2>6. TypedTables'
        BY <1>0, <1>7, <2>4, <2>5 DEF TypedTables, queueVars, chainVars, ledgerVars
    <2> QED BY <1>7, <2>6 DEF queueVars
<1>8. CASE UNCHANGED vars
    BY <1>5, <1>8 DEF vars, tableVars
<1>9. CASE Next
    <2>1. CASE ProgramStep /\ UNCHANGED <<tableVars, registryVars, roundVars>>
        BY <1>5, <2>1 DEF tableVars
    <2>2. CASE PairStep /\ UNCHANGED <<tableVars, programVars, registryVars>>
        BY <1>5, <2>2 DEF tableVars
    <2> QED BY <1>1, <1>2, <1>4, <1>5, <1>6, <1>7, <1>9, <2>1, <2>2 DEF Next
<1> QED BY <1>8, <1>9

LEMMA TablesInvStep ==
    ASSUME TablesInv, RoundsTyped, [Next]_vars
    PROVE  TablesInv'
<1>1. RegistryInv'
    BY RegistryStep DEF TablesInv
<1>2. TypedTables' /\ PairedInv'
    BY SeasonTableStep, TypedByQueue, PairedByQueue, PairedUntouched DEF TablesInv
<1> QED BY <1>1, <1>2 DEF TablesInv

-----------------------------------------------------------------------------
(***************************************************************************)
(* After a round is paired, the schedule and the members stand.            *)
(***************************************************************************)
LEMMA NoLateRequests ==
    ASSUME TypedTables, PairedLate, runs # {}, NEW at \in Clocks
    PROVE  ~ Registering(at)
<1>1. now \in Nat /\ RegistrationCloseAt + 1 < now /\ RegistrationCloseAt \in Nat
    BY LeagueAssumption DEF TypedTables, PairedLate
<1>2. at = now \/ at = now - 1
    BY DEF Clocks
<1> QED BY <1>1, <1>2 DEF Registering

LEMMA MembersStand ==
    ASSUME TablesInv, RoundsInv, runs # {}, [Next]_vars
    PROVE  schedule' = schedule /\ LeaguePlayers \subseteq LeaguePlayers'
<1>0. TypedTables /\ RegistryInv /\ PairedLate
    BY DEF TablesInv, RoundsInv
<1>1. CASE UNCHANGED <<schedule, membership>>
    BY <1>1 DEF LeaguePlayers
<1>2. CASE RegistryObservation
    <2>1. ASSUME NEW v \in Candidates, ConfirmJoin(v) \/ ConfirmLeave(v)
          PROVE  schedule' = schedule /\ LeaguePlayers \subseteq LeaguePlayers'
        <3>1. PICK entry : /\ membership' = [membership EXCEPT ![v] = entry]
                           /\ membership[v].state = "ACTIVE" => entry.state = "ACTIVE"
            BY <2>1 DEF ConfirmJoin, ConfirmLeave, Entry
        <3>2. \A w \in LeaguePlayers : membership'[w].state = "ACTIVE"
            BY <1>0, <3>1 DEF RegistryInv, RegistryTyped, LeaguePlayers
        <3> QED BY <2>1, <3>2 DEF LeaguePlayers, ConfirmJoin, ConfirmLeave
    <2>2. ASSUME NEW s, ReconcileLeagueState(s)
          PROVE  UNCHANGED <<schedule, membership>>
        BY <2>2 DEF ReconcileLeagueState
    <2> QED BY <1>1, <1>2, <2>1, <2>2 DEF RegistryObservation
<1>3. ASSUME NEW at \in Clocks, RegistryRequest(at)
      PROVE  schedule' = schedule /\ LeaguePlayers \subseteq LeaguePlayers'
    <2>1. ~ Registering(at)
        BY <1>0, NoLateRequests
    <2>2. UpsertOfficialLeague(at) \/ ExpirePendingMemberships(at)
        BY <1>3, <2>1 DEF RegistryRequest, AssignSchedule, RequestJoin, RequestLeave
    <2>3. CASE UpsertOfficialLeague(at)
        BY <1>1, <2>3 DEF UpsertOfficialLeague
    <2>4. CASE ExpirePendingMemberships(at)
        <3>1. membership' = MembershipAfterExpiry(at) /\ schedule' = schedule
            BY <2>4 DEF ExpirePendingMemberships
        <3>2. \A w \in LeaguePlayers : membership'[w] = membership[w]
            BY <1>0, <3>1, Expired DEF LeaguePlayers
        <3> QED BY <3>1, <3>2 DEF LeaguePlayers
    <2> QED BY <2>2, <2>3, <2>4
<1> QED BY <1>1, <1>2, <1>3, OthersLeaveRegistry DEF Next, vars, registryVars

LEMMA ScheduleInvStep ==
    ASSUME ScheduleInv, [Next]_vars
    PROVE  ScheduleInv'
<1>1. CASE schedule' = schedule
    BY <1>1 DEF ScheduleInv, ValidSchedule
<1>2. ASSUME NEW s \in [1..TotalRounds -> Rounds], NEW at, AssignSchedule(s, at)
      PROVE  ScheduleInv'
    <2>1. /\ schedule' = s /\ ValidSchedule(s)
          /\ \A n \in DOMAIN s : s[n] \in Rounds /\ StartAt[s[n]] > RegistrationCloseAt
        BY <1>2 DEF AssignSchedule
    <2> QED BY <2>1 DEF ScheduleInv, ValidSchedule
<1>3. (RegistryObservation \/ \E at \in Clocks : RegistryRequest(at)) =>
          \/ schedule' = schedule
          \/ \E at \in Clocks, s \in [1..TotalRounds -> Rounds] : AssignSchedule(s, at)
    BY DEF RegistryObservation, RegistryRequest, ReconcileLeagueState, ConfirmJoin, ConfirmLeave,
           UpsertOfficialLeague, RequestJoin, RequestLeave, ExpirePendingMemberships
<1> QED BY <1>1, <1>2, <1>3, OthersLeaveRegistry DEF Next, vars, registryVars

-----------------------------------------------------------------------------
(***************************************************************************)
(* The pairs of a round and their battles.                                 *)
(***************************************************************************)
LEMMA PointsOrderPlayers ==
    ASSUME RoundsTyped, NEW key \in Keys
    PROVE  /\ DOMAIN PairingTable = LeaguePlayers /\ IsFiniteSet(LeaguePlayers)
           /\ RanksAll(PairingTable, key)
<1>1. LeaguePlayers \subseteq Candidates /\ IsFiniteSet(Candidates)
    BY LeagueAssumption, TableAssumption, FS_Subset DEF LeaguePlayers
<1>2. \A T \in SUBSET runs : Cardinality(T) \in Nat
    BY FS_Subset, FS_CardinalityType DEF RoundsTyped
<1>3. \A T \in SUBSET leaguePairings : Cardinality(T) \in Nat
    BY FS_Subset, FS_CardinalityType DEF RoundsTyped
<1>4. DOMAIN PairingTable = LeaguePlayers
    BY DEF PairingTable
<1>5. ASSUME NEW w \in LeaguePlayers
      PROVE  PairingTable[w].points \in Int
    <2> DEFINE byes == {run \in runs : run.bye = {w}}
               draws == {p \in leaguePairings :
                            RowExists(p.battle) /\ row[p.battle].result = "DRAW"
                            /\ w \in Players(p.battle)}
               wins == {p \in leaguePairings :
                          /\ RowExists(p.battle)
                          /\ \/ /\ row[p.battle].result \in {"PLAYER_A", "FORFEIT_B"}
                                /\ p.battle.a = w
                             \/ /\ row[p.battle].result \in {"PLAYER_B", "FORFEIT_A"}
                                /\ p.battle.b = w}
    <2>1. PairingTable[w].points
              = 3 * Cardinality(byes) + Cardinality(draws) + 3 * Cardinality(wins)
        BY DEF PairingTable
    <2>2. Cardinality(byes) \in Nat /\ Cardinality(draws) \in Nat /\ Cardinality(wins) \in Nat
        BY <1>2, <1>3
    <2> HIDE DEF byes, draws, wins
    <2> QED BY <2>1, <2>2
<1>6. \A v, w \in LeaguePlayers : key[v] \in Int /\ (v # w => key[v] # key[w])
    BY <1>1, KeysAssumption
<1>7. IsFiniteSet(LeaguePlayers)
    BY <1>1, FS_Subset
<1> QED BY <1>4, <1>5, <1>6, <1>7 DEF RanksAll

\* The pairings one call of create_league_pairings makes.
RoundPaired(n, bye, new) ==
    LET r == schedule[n]
    IN  /\ n \in DOMAIN schedule /\ n \notin RunNumbers
        /\ bye \subseteq LeaguePlayers
        /\ \A p \in new :
               /\ p \in LeaguePairingRow /\ p.number = n /\ p.battle.round = r
               /\ Players(p.battle) \subseteq LeaguePlayers \ bye
        /\ \A p, q \in new : Players(p.battle) \intersect Players(q.battle) # {} => p = q
        /\ IsFiniteSet(new)
        /\ runs' = runs \union {[number |-> n, bye |-> bye]}
        /\ leaguePairings' = leaguePairings \union new
        /\ account' = account

LEMMA LeaguePairingOfPair ==
    ASSUME TypedTables, NEW n \in Int, NEW r \in Rounds,
           NEW v \in LeaguePlayers, NEW w \in LeaguePlayers, v # w
    PROVE  LET p == LeaguePairing(n, r, {v, w})
           IN  /\ p \in LeaguePairingRow /\ p.number = n /\ p.battle.round = r
               /\ Players(p.battle) = {v, w}
<1> DEFINE b == BattleOf(r, {v, w})
<1>1. v \in Wallets /\ w \in Wallets
    BY LeagueAssumption DEF LeaguePlayers
<1>2. b \in Battles /\ b.round = r /\ Players(b) = {v, w}
    BY <1>1, BattleOfPair
<1>3. b.a \in LeaguePlayers /\ b.b \in LeaguePlayers
    BY <1>2 DEF Players
<1>4. \A x \in LeaguePlayers : PairingTable[x].rating \in Int
    <2> TAKE x \in LeaguePlayers
    <2>1. x \in Wallets /\ (rating[x] # NoRow => rating[x].rating \in Int)
        BY LeagueAssumption DEF LeaguePlayers, TypedTables, RatingRow
    <2> QED BY <2>1, TableAssumption DEF PairingTable
<1>5. LeaguePairing(n, r, {v, w}) =
          [battle |-> b, number |-> n, status |-> "PENDING_COORDINATOR",
           snapA |-> PairingTable[b.a].rating, snapB |-> PairingTable[b.b].rating]
    BY DEF LeaguePairing
<1> HIDE DEF b
<1> QED BY <1>2, <1>3, <1>4, <1>5 DEF LeaguePairingRow

LEMMA CreatedRoundIsPaired ==
    ASSUME TypedTables, RoundsTyped, ScheduleInv,
           NEW n \in Int, NEW key \in Keys, NEW at, CreateLeaguePairings(n, key, at)
    PROVE  \E bye, new : RoundPaired(n, bye, new)
<1>1. PICK pairing \in PairSwiss(PairingTable, key) :
          /\ runs' = runs \union {[number |-> n, bye |-> pairing.bye]}
          /\ leaguePairings' = leaguePairings
                 \union {LeaguePairing(n, schedule[n], pair) : pair \in pairing.pairs}
    BY DEF CreateLeaguePairings
<1> DEFINE P == pairing.pairs
           bye == pairing.bye
           r == schedule[n]
           new == {LeaguePairing(n, r, pair) : pair \in P}
<1>2. n \in DOMAIN schedule /\ r \in Rounds /\ n \notin RunNumbers /\ account' = account
    BY DEF CreateLeaguePairings, PairingWindow, ScheduleInv
<1>3. bye \subseteq LeaguePlayers /\ PerfectMatching(P, LeaguePlayers \ bye)
    BY PointsOrderPlayers, PairSwissIsMatching
<1>4. IsFiniteSet(LeaguePlayers)
    BY PointsOrderPlayers
<1> HIDE DEF P, bye, r
<1>5. IsFiniteSet(new)
    <2>1. P \subseteq SUBSET LeaguePlayers
        BY <1>3 DEF PerfectMatching
    <2>2. IsFiniteSet(P)
        BY <1>4, <2>1, FS_SUBSET, FS_Subset
    <2> DEFINE f == [pair \in P |-> LeaguePairing(n, r, pair)]
    <2>3. f \in Surjection(P, new)
        BY DEF Surjection
    <2> HIDE DEF f, new
    <2> QED BY <2>2, <2>3, FS_Surjection
<1>6. ASSUME NEW pair \in P
      PROVE  LET p == LeaguePairing(n, r, pair)
             IN  /\ p \in LeaguePairingRow /\ p.number = n /\ p.battle.round = r
                 /\ Players(p.battle) = pair /\ pair \subseteq LeaguePlayers \ bye
    <2>1. PICK v \in LeaguePlayers \ bye, w \in LeaguePlayers \ bye : v # w /\ pair = {v, w}
        BY <1>3 DEF PerfectMatching
    <2> QED BY <1>2, <2>1, LeaguePairingOfPair
<1>7. \A p \in new : /\ p \in LeaguePairingRow /\ p.number = n /\ p.battle.round = r
                     /\ Players(p.battle) \subseteq LeaguePlayers \ bye
                     /\ Players(p.battle) \in P /\ p = LeaguePairing(n, r, Players(p.battle))
    BY <1>6
<1>8. \A x, y \in P : x \intersect y # {} => x = y
    BY <1>3 DEF PerfectMatching
<1> HIDE DEF new
<1>9. \A p, q \in new : Players(p.battle) \intersect Players(q.battle) # {} => p = q
    BY <1>7, <1>8
<1>10. RoundPaired(n, bye, new)
    <2>1. /\ runs' = runs \union {[number |-> n, bye |-> bye]}
          /\ leaguePairings' = leaguePairings \union new
        BY <1>1 DEF bye, new, P, r
    <2>2. schedule[n] = r
        BY DEF r
    <2> QED BY <1>2, <1>3, <1>5, <1>7, <1>9, <2>1, <2>2 DEF RoundPaired
<1> QED BY <1>10

-----------------------------------------------------------------------------
(***************************************************************************)
(* What a step does to the league rounds: nothing, or a round is paired,   *)
(* or a battle of either mode is created, or a league battle is confirmed. *)
(***************************************************************************)
RoundsStand == UNCHANGED <<runs, leaguePairings, account, chain>>

BattleCreated(m, b) ==
    /\ CreateRatedBattle(m, b)
    /\ m = "RANKED" => \E p \in pairings : p.battle = b
    /\ m = "LEAGUE" => \E p \in leaguePairings : p.battle = b
    /\ UNCHANGED <<now, queueVars, reservation, runs, leaguePairings, schedule, membership>>

PairingConfirmed(p) ==
    /\ leaguePairings' = (leaguePairings \ {p}) \union {[p EXCEPT !.status = "CREATED"]}
    /\ UNCHANGED <<now, queueVars, reservation, chain, runs, account, schedule, membership>>

LEMMA RoundsCases ==
    ASSUME TypedTables, RoundsTyped, ScheduleInv, [Next]_vars
    PROVE  \/ RoundsStand
           \/ /\ \E n, bye, new : RoundPaired(n, bye, new)
              /\ PairStep /\ UNCHANGED <<tableVars, registryVars>>
           \/ \E b \in Battles : BattleCreated("RANKED", b) \/ BattleCreated("LEAGUE", b)
           \/ \E p \in leaguePairings : PairingConfirmed(p)
<1>1. CASE PairStep /\ UNCHANGED <<tableVars, programVars, registryVars>>
    <2>1. PICK n \in 1..TotalRounds :
              \/ \E key \in Keys, at \in Clocks : CreateLeaguePairings(n, key, at)
              \/ ReturnPairingRun(n)
        BY <1>1 DEF PairStep
    <2>2. CASE ReturnPairingRun(n)
        BY <1>1, <2>2 DEF ReturnPairingRun, RoundsStand, roundVars, tableVars, chainVars
    <2>3. CASE \E key \in Keys, at \in Clocks : CreateLeaguePairings(n, key, at)
        <3>1. n \in Int
            BY LeagueAssumption
        <3> QED BY <1>1, <2>3, <3>1, CreatedRoundIsPaired
    <2> QED BY <2>1, <2>2, <2>3
<1>2. CASE /\ CreateStep
           /\ UNCHANGED <<now, queueVars, reservation, settling, projectionVars, ledgerVars,
                          programVars, registryVars>>
    <2>1. ASSUME NEW p \in pairings, CreateRankedBattle(p)
          PROVE  p.battle \in Battles /\ BattleCreated("RANKED", p.battle)
        BY <1>2, <2>1, PairingsAreTyped DEF CreateRankedBattle, BattleCreated, registryVars
    <2>2. ASSUME NEW p \in leaguePairings, CreateLeagueBattle(p)
          PROVE  p.battle \in Battles /\ BattleCreated("LEAGUE", p.battle)
        BY <1>2, <2>2, LeaguePairingsAreTyped DEF CreateLeagueBattle, BattleCreated, registryVars
    <2> QED BY <1>2, <2>1, <2>2 DEF CreateStep
<1>3. CASE /\ \E p \in leaguePairings : ConfirmLeagueBattle(p)
           /\ UNCHANGED <<now, queueVars, reservation, chainVars, ledgerVars,
                          programVars, registryVars>>
    BY <1>3 DEF ConfirmLeagueBattle, PairingConfirmed, chainVars, registryVars
<1>4. CASE QueueStep /\ UNCHANGED leagueVars
    BY <1>4 DEF QueueStep, JoinQueue, LeaveQueue, ConfirmCoordinatorBattle, IndexBattle,
                UpsertBattle, UpsertRatedExposure, leagueVars, roundVars, RoundsStand, chainVars
<1>5. CASE \E r \in Rounds, at \in Clocks : Matchmake(r, at)
    BY <1>5 DEF Matchmake, RunMatchmaker, RoundsStand, chainVars
<1>6. CASE UNCHANGED <<roundVars, chainVars>>
    BY <1>6 DEF RoundsStand, roundVars, chainVars
<1> QED BY <1>1, <1>2, <1>3, <1>4, <1>5, <1>6 DEF Next, vars, leagueVars, tableVars

LEMMA TimeGoesOn ==
    ASSUME TypedTables, [Next]_vars
    PROVE  now' \in Nat /\ now <= now'
<1>1. now' = now \/ now' = now + 1
    <2>1. QueueStep => now' = now
        BY DEF QueueStep, JoinQueue, LeaveQueue, ConfirmCoordinatorBattle, IndexBattle,
               UpsertBattle, UpsertRatedExposure
    <2>2. (\E r \in Rounds, at \in Clocks : Matchmake(r, at)) => now' = now
        BY DEF Matchmake, RunMatchmaker
    <2> QED BY <2>1, <2>2 DEF Next, Tick, vars, tableVars
<1> QED BY <1>1 DEF TypedTables

LEMMA ConfirmedPairings ==
    ASSUME RoundsTyped, NEW p \in leaguePairings, PairingConfirmed(p)
    PROVE  /\ \A q \in leaguePairings' : \E s \in leaguePairings :
                  /\ q.battle = s.battle /\ q.number = s.number
                  /\ s = p => q = [p EXCEPT !.status = "CREATED"]
                  /\ s # p => q = s
           /\ \A s \in leaguePairings : \E q \in leaguePairings' :
                  q.battle = s.battle /\ q.number = s.number
<1> DEFINE made == [p EXCEPT !.status = "CREATED"]
<1>1. p \in LeaguePairingRow
    BY LeaguePairingsAreTyped
<1>2. made.battle = p.battle /\ made.number = p.number
    BY <1>1 DEF LeaguePairingRow
<1>3. leaguePairings' = (leaguePairings \ {p}) \union {made}
    BY DEF PairingConfirmed
<1> HIDE DEF made
<1>4. \A q \in leaguePairings' : q = made \/ (q \in leaguePairings /\ q # p)
    BY <1>3
<1>5. \A s \in leaguePairings : s = p \/ s \in leaguePairings'
    BY <1>3
<1> QED BY <1>2, <1>3, <1>4, <1>5 DEF made

LEMMA RoundsTypedStep ==
    ASSUME TypedTables, RoundsTyped, ScheduleInv, [Next]_vars
    PROVE  RoundsTyped'
<1>1. CASE RoundsStand
    BY <1>1 DEF RoundsStand, RoundsTyped
<1>2. ASSUME NEW n, NEW bye, NEW new, RoundPaired(n, bye, new)
      PROVE  RoundsTyped'
    <2>1. IsFiniteSet(runs') /\ IsFiniteSet(leaguePairings')
        BY <1>2, FS_AddElement, FS_Union DEF RoundPaired, RoundsTyped
    <2> QED BY <1>2, <2>1 DEF RoundPaired, RoundsTyped
<1>3. ASSUME NEW b \in Battles, NEW m, BattleCreated(m, b)
      PROVE  RoundsTyped'
    BY <1>3 DEF BattleCreated, CreateRatedBattle, RoundsTyped
<1>4. ASSUME NEW p \in leaguePairings, PairingConfirmed(p)
      PROVE  RoundsTyped'
    <2> DEFINE made == [p EXCEPT !.status = "CREATED"]
    <2>1. made \in LeaguePairingRow
        BY LeaguePairingsAreTyped DEF LeaguePairingRow
    <2>2. leaguePairings' = (leaguePairings \ {p}) \union {made}
        BY <1>4 DEF PairingConfirmed
    <2> HIDE DEF made
    <2>3. leaguePairings' \subseteq LeaguePairingRow
        BY <2>1, <2>2 DEF RoundsTyped
    <2>4. IsFiniteSet(leaguePairings')
        BY <2>2, FS_RemoveElement, FS_AddElement DEF RoundsTyped
    <2> QED BY <1>4, <2>3, <2>4 DEF PairingConfirmed, RoundsTyped
<1> QED BY <1>1, <1>2, <1>3, <1>4, RoundsCases

LEMMA PairedLateStep ==
    ASSUME PairingAfterRegistration, TypedTables, RoundsTyped, ScheduleInv, PairedLate,
           [Next]_vars
    PROVE  PairedLate'
<1>0. now \in Nat /\ now' \in Nat /\ now <= now' /\ RegistrationCloseAt \in Nat
    BY TimeGoesOn, LeagueAssumption DEF TypedTables
<1>1. CASE runs' = runs
    BY <1>0, <1>1 DEF PairedLate
<1>2. CASE PairStep
    <2>1. PICK n \in 1..TotalRounds :
              \/ \E key \in Keys, at \in Clocks : CreateLeaguePairings(n, key, at)
              \/ ReturnPairingRun(n)
        BY <1>2 DEF PairStep
    <2>2. CASE ReturnPairingRun(n)
        BY <1>1, <2>2 DEF ReturnPairingRun, roundVars
    <2>3. ASSUME NEW key \in Keys, NEW at \in Clocks, CreateLeaguePairings(n, key, at)
          PROVE  PairedLate'
        <3>1. n \in DOMAIN schedule /\ QueueCloseAt[schedule[n]] <= at
            BY <2>3 DEF CreateLeaguePairings, PairingWindow
        <3>2. /\ schedule[n] \in Rounds /\ QueueCloseAt[schedule[n]] > RegistrationCloseAt + 1
              /\ QueueCloseAt[schedule[n]] \in Nat
            BY <3>1, TableAssumption DEF ScheduleInv, PairingAfterRegistration
        <3>3. at \in Nat /\ at <= now
            BY <1>0 DEF Clocks
        <3>4. RegistrationCloseAt + 1 < now'
            BY <1>0, <3>1, <3>2, <3>3
        <3> QED BY <3>4 DEF PairedLate
    <2> QED BY <2>1, <2>2, <2>3
<1>3. runs' = runs \/ PairStep
    BY RoundsCases DEF RoundsStand, BattleCreated, PairingConfirmed
<1> QED BY <1>1, <1>2, <1>3

LEMMA RunsInvStep ==
    ASSUME TablesInv, RoundsInv, [Next]_vars
    PROVE  RunsInv'
<1>0. TypedTables /\ RoundsTyped /\ ScheduleInv /\ RunsInv
    BY DEF TablesInv, RoundsInv
<1>1. runs = {} => leaguePairings = {}
    BY <1>0 DEF RunsInv, RunNumbers
<1>2. runs # {} => schedule' = schedule /\ LeaguePlayers \subseteq LeaguePlayers'
    BY MembersStand
<1>3. CASE RoundsStand
    BY <1>0, <1>1, <1>2, <1>3 DEF RoundsStand, RunsInv, RunNumbers, Players
<1>4. ASSUME NEW b \in Battles, NEW m, BattleCreated(m, b)
      PROVE  RunsInv'
    BY <1>0, <1>4 DEF BattleCreated, RunsInv, RunNumbers, Players, LeaguePlayers
<1>5. ASSUME NEW p \in leaguePairings, PairingConfirmed(p)
      PROVE  RunsInv'
    <2>1. UNCHANGED <<runs, schedule, membership>>
        BY <1>5 DEF PairingConfirmed
    <2>2. \A q \in leaguePairings' : \E s \in leaguePairings :
              /\ q.battle = s.battle /\ q.number = s.number
              /\ s = p => q = [p EXCEPT !.status = "CREATED"]
              /\ s # p => q = s
        BY <1>0, <1>5, ConfirmedPairings
    <2>3. \A q \in leaguePairings' :
              /\ q.number \in RunNumbers /\ q.battle.round = schedule[q.number]
              /\ Players(q.battle) \subseteq LeaguePlayers
              /\ \A run \in runs :
                     q.number = run.number => Players(q.battle) \intersect run.bye = {}
        BY <1>0, <2>2 DEF RunsInv
    <2>4. ASSUME NEW q \in leaguePairings', NEW s \in leaguePairings', q.number = s.number,
                 Players(q.battle) \intersect Players(s.battle) # {}
          PROVE  q = s
        <3>1. PICK x \in leaguePairings :
                  /\ q.battle = x.battle /\ q.number = x.number
                  /\ x = p => q = [p EXCEPT !.status = "CREATED"]
                  /\ x # p => q = x
            BY <2>2
        <3>2. PICK y \in leaguePairings :
                  /\ s.battle = y.battle /\ s.number = y.number
                  /\ y = p => s = [p EXCEPT !.status = "CREATED"]
                  /\ y # p => s = y
            BY <2>2
        <3>3. x = y
            BY <1>0, <2>4, <3>1, <3>2 DEF RunsInv
        <3> QED BY <3>1, <3>2, <3>3
    <2>5. RunNumbers' = RunNumbers /\ LeaguePlayers' = LeaguePlayers
        BY <2>1 DEF RunNumbers, LeaguePlayers
    <2>6. \A run \in runs : run.number \in DOMAIN schedule /\ run.bye \subseteq LeaguePlayers
        BY <1>0 DEF RunsInv
    <2> QED BY <2>1, <2>3, <2>4, <2>5, <2>6 DEF RunsInv, Players
<1>6. ASSUME NEW n, NEW bye, NEW new, RoundPaired(n, bye, new),
             UNCHANGED <<schedule, membership>>
      PROVE  RunsInv'
    <2> USE DEF RoundPaired
    <2> DEFINE run0 == [number |-> n, bye |-> bye]
    <2>1. runs' = runs \union {run0} /\ run0.number = n /\ run0.bye = bye
        BY <1>6
    <2>2. RunNumbers' = RunNumbers \union {n} /\ LeaguePlayers' = LeaguePlayers
        BY <1>6, <2>1 DEF RunNumbers, LeaguePlayers
    <2> HIDE DEF run0
    <2>3. \A p \in leaguePairings : p.number # n
        BY <1>0, <1>6 DEF RunsInv
    <2>4. \A run \in runs : run.number # n
        BY <1>6 DEF RunNumbers
    <2>5. \A run \in runs' : run.number \in DOMAIN schedule' /\ run.bye \subseteq LeaguePlayers'
        BY <1>0, <1>6, <2>1, <2>2 DEF RunsInv
    <2>6. ASSUME NEW run \in runs', NEW p \in leaguePairings', p.number = run.number
          PROVE  Players(p.battle) \intersect run.bye = {}
        <3>1. CASE p \in leaguePairings
            <4>1. run \in runs
                BY <2>1, <2>3, <2>6, <3>1
            <4> QED BY <1>0, <2>6, <3>1, <4>1 DEF RunsInv
        <3>2. CASE p \in new
            <4>1. run = run0
                BY <1>6, <2>1, <2>4, <2>6, <3>2
            <4> QED BY <1>6, <2>1, <3>2, <4>1
        <3> QED BY <1>6, <3>1, <3>2
    <2>7. \A p \in leaguePairings' :
              /\ p.number \in RunNumbers' /\ p.battle.round = schedule'[p.number]
              /\ Players(p.battle) \subseteq LeaguePlayers'
        BY <1>0, <1>6, <2>2 DEF RunsInv
    <2>8. ASSUME NEW p \in leaguePairings', NEW q \in leaguePairings', p.number = q.number,
                 Players(p.battle) \intersect Players(q.battle) # {}
          PROVE  p = q
        <3>1. p \in leaguePairings /\ q \in leaguePairings => p = q
            BY <1>0, <2>8 DEF RunsInv
        <3>2. p \in new /\ q \in new => p = q
            BY <1>6, <2>8
        <3> QED BY <1>6, <2>3, <2>8, <3>1, <3>2
    <2> QED BY <2>5, <2>6, <2>7, <2>8 DEF RunsInv, Players
<1> QED BY <1>0, <1>3, <1>4, <1>5, <1>6, RoundsCases DEF tableVars, registryVars

(***************************************************************************)
(* The two modes stay apart. A reservation is made only by a request to    *)
(* join, which looks for entries of the queue, and an entry of the queue   *)
(* only by JoinQueue, which looks for reservations; what comes of either   *)
(* later comes of one that was live.                                       *)
(***************************************************************************)
LEMMA ReservationsComeOfRequests ==
    ASSUME RegistryInv, [Next]_vars, NEW w \in Wallets, NEW r \in Rounds,
           reservation'[r][w] \in LiveReservation,
           reservation[r][w] \notin LiveReservation
    PROVE  /\ \A q \in Rounds : Overlap(q, r) => queue[q][w] \notin {"QUEUED"} \union Paired
           /\ UNCHANGED queueVars
<1>1. ~ UNCHANGED reservation
    OBVIOUS
<1>2. ASSUME NEW v \in Candidates, NEW from, NEW to, from \subseteq LiveReservation,
             reservation' = Reserve(v, from, to)
      PROVE  FALSE
    <2>1. reservation[r] \in [Wallets -> ReservationStatuses]
        BY DEF RegistryInv, RegistryTyped
    <2>2. reservation'[r][w] = IF w = v /\ reservation[r][v] \in from THEN to
                               ELSE reservation[r][w]
        BY <1>2, <2>1 DEF Reserve
    <2> QED BY <1>2, <2>2
<1>3. ~ RegistryObservation
    BY <1>1, <1>2 DEF RegistryObservation, ReconcileLeagueState, ConfirmJoin, ConfirmLeave,
                      LiveReservation
<1>4. PICK at \in Clocks : RegistryRequest(at) /\ UNCHANGED queueVars
    BY <1>1, <1>3, OthersLeaveRegistry DEF Next, vars, tableVars
<1>5. ~ (\E v \in Movers : RequestLeave(v, at))
    <2>1. {"PENDING", "ACTIVE"} \subseteq LiveReservation
        BY DEF LiveReservation
    <2> QED BY <1>2, <2>1, SeasonAssumption DEF RequestLeave
<1>6. \A q \in Rounds, v \in Wallets :
          ReservationAfterExpiry(at)[q][v] \in LiveReservation =>
              reservation[q][v] \in LiveReservation
    BY Expired DEF LiveReservation
<1>7. ~ ExpirePendingMemberships(at)
    BY <1>6 DEF ExpirePendingMemberships
<1>8. PICK v \in Candidates : RequestJoin(v, at)
    BY <1>1, <1>4, <1>5, <1>7 DEF RegistryRequest, UpsertOfficialLeague, AssignSchedule
<1>9. v = w /\ Scheduled(r)
    <2>1. ReservationAfterExpiry(at)[r] \in [Wallets -> ReservationStatuses]
        BY Expired
    <2>2. reservation'[r] =
              IF Scheduled(r) THEN [ReservationAfterExpiry(at)[r] EXCEPT ![v] = "PENDING"]
              ELSE ReservationAfterExpiry(at)[r]
        BY <1>8 DEF RequestJoin
    <2> QED BY <1>6, <2>1, <2>2
<1>10. ~ OverlappingQueueEntry(w, r)
    BY <1>8, <1>9 DEF RequestJoin
<1> QED BY <1>4, <1>10 DEF OverlappingQueueEntry, Paired

LEMMA EntriesComeOfJoins ==
    ASSUME TypedTables, PairedInv, [Next]_vars, NEW w \in Wallets, NEW q \in Rounds,
           queue'[q][w] \in {"QUEUED"} \union Paired,
           queue[q][w] \notin {"QUEUED"} \union Paired
    PROVE  /\ \A r \in Rounds : Overlap(r, q) => reservation[r][w] \notin LiveReservation
           /\ UNCHANGED reservation
<1>1. ~ UNCHANGED queue
    OBVIOUS
<1>2. queue \in [Rounds -> [Wallets -> EntryStates]]
    BY DEF TypedTables
<1>3. ASSUME NEW r \in Rounds, NEW at, RunMatchmaker(r, at)
      PROVE  FALSE
    <2>1. PICK P : queue' = [queue EXCEPT ![r] = QueueAfterMatch(r, P)]
        BY <1>3 DEF RunMatchmaker
    <2>2. q = r /\ QueueAfterMatch(r, P)[w] \in {"QUEUED"} \union Paired
        BY <1>2, <2>1
    <2>3. w \notin Queued(r)
        BY <2>2 DEF Queued
    <2>4. QueueAfterMatch(r, P)[w] = queue[r][w]
        BY <2>3 DEF QueueAfterMatch
    <2> QED BY <2>2, <2>4
<1>4. ASSUME NEW p \in pairings, ConfirmCoordinatorBattle(p)
      PROVE  FALSE
    <2>1. queue' = [queue EXCEPT ![p.battle.round] =
              [v \in Wallets |-> IF v \in Players(p.battle) THEN "BATTLE_CREATED"
                                 ELSE queue[p.battle.round][v]]]
        BY <1>4 DEF ConfirmCoordinatorBattle
    <2>2. q = p.battle.round /\ w \in Players(p.battle)
        BY <1>2, <2>1
    <2>3. queue[q][w] \in Paired
        BY <2>2 DEF PairedInv, EntriesFollowPairings, Paired
    <2> QED BY <2>3
<1>5. ASSUME NEW r \in Rounds, NEW v, NEW at, LeaveQueue(r, v, at)
      PROVE  FALSE
    BY <1>2, <1>5 DEF LeaveQueue, Paired
<1>6. PICK r \in Rounds, v \in Queuers, at \in Clocks : JoinQueue(r, v, at)
    BY <1>1, <1>3, <1>4, <1>5
    DEF Next, QueueStep, PairStep, CreateStep, Matchmake, IndexBattle, UpsertBattle,
        UpsertRatedExposure, vars, tableVars, queueVars
<1>7. r = q /\ v = w
    BY <1>2, <1>6 DEF JoinQueue
<1> QED BY <1>6, <1>7 DEF JoinQueue, Barred, HasLeagueReservation

LEMMA ModesApartStep ==
    ASSUME TablesInv, ModesApart, [Next]_vars
    PROVE  ModesApart'
<1>0. TypedTables /\ PairedInv /\ RegistryInv
    BY DEF TablesInv
<1>1. SUFFICES ASSUME NEW w \in Wallets, NEW r \in Rounds, NEW q \in Rounds,
                      reservation'[r][w] \in LiveReservation, Overlap(r, q),
                      queue'[q][w] \in {"QUEUED"} \union Paired
               PROVE  FALSE
    BY DEF ModesApart
<1>2. Overlap(q, r)
    BY <1>1, RoundsOverlap
<1>3. CASE reservation[r][w] \notin LiveReservation
    BY <1>0, <1>1, <1>2, <1>3, ReservationsComeOfRequests DEF queueVars
<1>4. CASE queue[q][w] \notin {"QUEUED"} \union Paired
    BY <1>0, <1>1, <1>4, EntriesComeOfJoins
<1> QED BY <1>1, <1>3, <1>4 DEF ModesApart

LEMMA RoundsInvStep ==
    ASSUME PairingAfterRegistration, TablesInv, RoundsInv, [Next]_vars
    PROVE  RoundsInv'
BY RoundsTypedStep, ScheduleInvStep, PairedLateStep, RunsInvStep, ModesApartStep
DEF TablesInv, RoundsInv

-----------------------------------------------------------------------------
(***************************************************************************)
(* Battles on chain. The addresses of two never agree, as a transaction    *)
(* needs a free one; which mode an address is of follows from the pairing, *)
(* as no battle is paired in both.                                         *)
(***************************************************************************)
LEMMA NoBattleOfBothModes ==
    ASSUME TablesInv, RoundsInv, NEW p \in leaguePairings, NEW q \in pairings
    PROVE  p.battle # q.battle
<1>1. Players(p.battle) # {}
    BY LeaguePairingsAreTyped DEF RoundsInv
<1> QED BY <1>1, ModesDoNotMeet

LEMMA PairingsGoOn ==
    ASSUME TablesInv, RoundsInv, [Next]_vars, NEW b \in Battles
    PROVE  /\ (\E p \in pairings : p.battle = b) => \E p \in pairings' : p.battle = b
           /\ (\E p \in leaguePairings : p.battle = b) => \E p \in leaguePairings' : p.battle = b
<1>0. TypedTables /\ RoundsTyped /\ ScheduleInv
    BY DEF TablesInv, RoundsInv
<1>1. ASSUME NEW p \in leaguePairings, p.battle = b
      PROVE  \E q \in leaguePairings' : q.battle = b
    <2>1. ASSUME NEW s \in leaguePairings, PairingConfirmed(s)
          PROVE  \E q \in leaguePairings' : q.battle = b
        BY <1>0, <1>1, <2>1, ConfirmedPairings
    <2> QED BY <1>0, <1>1, <2>1, RoundsCases DEF RoundsStand, RoundPaired, BattleCreated
<1>2. ASSUME NEW p \in pairings, p.battle = b
      PROVE  \E q \in pairings' : q.battle = b
    <2>1. ASSUME NEW s \in pairings, ConfirmCoordinatorBattle(s)
          PROVE  \E q \in pairings' : q.battle = b
        <3> DEFINE made == [s EXCEPT !.status = "CREATED"]
        <3>1. made.battle = s.battle
            BY <1>0, PairingsAreTyped DEF PairingRow
        <3>2. pairings' = (pairings \ {s}) \union {made}
            BY <2>1 DEF ConfirmCoordinatorBattle
        <3> HIDE DEF made
        <3> QED BY <1>2, <3>1, <3>2
    <2>2. CASE pairings \subseteq pairings'
        BY <1>2, <2>2
    <2>3. \/ pairings \subseteq pairings'
          \/ \E s \in pairings : ConfirmCoordinatorBattle(s)
        <3>1. CASE UNCHANGED queueVars
            BY <3>1 DEF queueVars
        <3>2. CASE QueueTableStep
            BY <3>2 DEF QueueTableStep, JoinQueue, LeaveQueue, RunMatchmaker, IndexBattle,
                        IndexStaleBattle, UpsertBattle, UpsertRatedExposure, queueVars
        <3> QED BY <1>0, <3>1, <3>2, SeasonTableStep
    <2> QED BY <2>1, <2>2, <2>3
<1> QED BY <1>1, <1>2

LEMMA ChainStep ==
    ASSUME TypedTables, RoundsTyped, ScheduleInv, [Next]_vars
    PROVE  \/ chain' = chain /\ account' = account
           \/ \E b \in Battles : BattleCreated("RANKED", b) \/ BattleCreated("LEAGUE", b)
BY RoundsCases DEF RoundsStand, RoundPaired, PairingConfirmed, tableVars, chainVars

LEMMA BattlesArePairedStep ==
    ASSUME TablesInv, RoundsInv, BattlesArePaired, [Next]_vars
    PROVE  BattlesArePaired'
<1>0. TypedTables /\ RoundsTyped /\ ScheduleInv
    BY DEF TablesInv, RoundsInv
<1>1. SUFFICES ASSUME NEW b \in Battles, chain'[b] # "NONE"
               PROVE  (\E p \in pairings : p.battle = b) \/ (\E p \in leaguePairings : p.battle = b)
    BY PairingsGoOn DEF BattlesArePaired
<1>2. CASE chain' = chain
    BY <1>1, <1>2 DEF BattlesArePaired
<1>3. ASSUME NEW c \in Battles, NEW m \in {"RANKED", "LEAGUE"}, BattleCreated(m, c)
      PROVE  (\E p \in pairings : p.battle = b) \/ (\E p \in leaguePairings : p.battle = b)
    <2>1. /\ chain' = [chain EXCEPT ![c] = "OPEN"]
          /\ chain \in [Battles -> {"NONE", "OPEN"} \union PossibleResults]
        BY <1>0, <1>3 DEF BattleCreated, CreateRatedBattle, TypedTables
    <2>2. b = c \/ chain[b] # "NONE"
        BY <1>1, <2>1
    <2> QED BY <1>3, <2>2 DEF BattleCreated, BattlesArePaired
<1> QED BY <1>0, <1>2, <1>3, ChainStep

LEMMA AddressesDifferStep ==
    ASSUME TypedTables, RoundsTyped, ScheduleInv, AddressesDiffer, [Next]_vars
    PROVE  AddressesDiffer'
<1>1. CASE account' = account
    BY <1>1 DEF AddressesDiffer
<1>2. ASSUME NEW b \in Battles, NEW m, BattleCreated(m, b)
      PROVE  AddressesDiffer'
    <2> DEFINE id == pairingId[m][b]
    <2>1. /\ account' = [account EXCEPT ![b] = [mode |-> m, id |-> id]]
          /\ AccountFree(b.round, id)
        BY <1>2 DEF BattleCreated, CreateRatedBattle
    <2>2. /\ account'[b].id = id
          /\ \A c \in Battles \ {b} : account'[c] = account[c]
        BY <2>1 DEF RoundsTyped
    <2>3. \A c \in Battles : c.round = b.round /\ account[c] # NoAccount => account[c].id # id
        BY <2>1 DEF AccountFree
    <2> HIDE DEF id
    <2>4. ASSUME NEW c \in Battles, NEW d \in Battles, c # d, c.round = d.round,
                 account'[c] # NoAccount, account'[d] # NoAccount
          PROVE  account'[d].id # account'[c].id
        <3>1. CASE c = b
            BY <2>2, <2>3, <2>4, <3>1
        <3>2. CASE d = b
            BY <2>2, <2>3, <2>4, <3>2
        <3>3. CASE c # b /\ d # b
            BY <2>2, <2>4, <3>3 DEF AddressesDiffer
        <3> QED BY <3>1, <3>2, <3>3
    <2> QED BY <2>4 DEF AddressesDiffer
<1> QED BY <1>1, <1>2, ChainStep

LEMMA AddressTellsModeStep ==
    ASSUME PairingAfterRegistration, SeasonInv, [Next]_vars
    PROVE  AddressTellsMode'
<1>0. /\ TablesInv /\ RoundsInv /\ TypedTables /\ RoundsTyped /\ ScheduleInv /\ RunsInv
      /\ BattlesArePaired /\ AddressTellsMode /\ TablesInv' /\ RoundsInv'
    BY TablesInvStep, RoundsInvStep DEF SeasonInv, TablesInv, RoundsInv
<1> DEFINE ofLeague(b) == \E p \in leaguePairings : p.battle = b
<1>1. CASE RoundsStand
    BY <1>0, <1>1 DEF RoundsStand, AddressTellsMode
<1>2. ASSUME NEW b \in Battles, NEW m \in {"RANKED", "LEAGUE"}, BattleCreated(m, b)
      PROVE  AddressTellsMode'
    <2>1. /\ account' = [account EXCEPT ![b] = [mode |-> m, id |-> pairingId[m][b]]]
          /\ chain' = [chain EXCEPT ![b] = "OPEN"] /\ leaguePairings' = leaguePairings
        BY <1>2 DEF BattleCreated, CreateRatedBattle
    <2>2. /\ account'[b].mode = m
          /\ \A c \in Battles \ {b} : account'[c] = account[c] /\ chain'[c] = chain[c]
        BY <1>0, <2>1 DEF RoundsTyped, TypedTables
    <2>3. m = "LEAGUE" <=> ofLeague(b)
        BY <1>0, <1>2, NoBattleOfBothModes DEF BattleCreated
    <2> QED BY <1>0, <2>1, <2>2, <2>3 DEF AddressTellsMode
<1>3. ASSUME NEW p \in leaguePairings, PairingConfirmed(p)
      PROVE  AddressTellsMode'
    <2>1. \A b : (\E q \in leaguePairings' : q.battle = b) <=> ofLeague(b)
        BY <1>0, <1>3, ConfirmedPairings
    <2>2. chain' = chain /\ account' = account
        BY <1>3 DEF PairingConfirmed
    <2> HIDE DEF ofLeague
    <2>3. AddressTellsMode = \A b \in Battles : chain[b] # "NONE" =>
                                    (account[b].mode = "LEAGUE" <=> ofLeague(b))
        BY DEF AddressTellsMode, ofLeague
    <2> QED BY <1>0, <2>1, <2>2, <2>3 DEF AddressTellsMode
<1>4. ASSUME NEW n, NEW bye, NEW new, RoundPaired(n, bye, new),
             PairStep, UNCHANGED <<tableVars, registryVars>>
      PROVE  AddressTellsMode'
    <2>1. /\ chain' = chain /\ account' = account /\ pairings' = pairings
          /\ schedule' = schedule /\ leaguePairings' = leaguePairings \union new
        BY <1>4 DEF RoundPaired, tableVars, chainVars, queueVars, registryVars
    <2>2. ASSUME NEW b \in Battles, chain[b] # "NONE", NEW p \in new, p.battle = b
          PROVE  ofLeague(b)
        <3>1. /\ n \in DOMAIN schedule /\ b.round = schedule[n]
              /\ Players(b) \subseteq LeaguePlayers /\ Players(b) # {}
            BY <1>4, <2>2 DEF RoundPaired, Players
        <3>2. \A q \in pairings : q.battle # b
            BY <1>0, <3>1, MembersAreNotPaired DEF RoundsInv
        <3> QED BY <1>0, <2>2, <3>2 DEF BattlesArePaired
    <2> QED BY <1>0, <2>1, <2>2 DEF AddressTellsMode
<1> QED BY <1>0, <1>1, <1>2, <1>3, <1>4, RoundsCases

LEMMA SeasonInvStep ==
    ASSUME PairingAfterRegistration, SeasonInv, [Next]_vars
    PROVE  SeasonInv'
<1>1. TablesInv' /\ RoundsInv'
    BY TablesInvStep, RoundsInvStep DEF SeasonInv, RoundsInv
<1>2. BattlesArePaired' /\ AddressesDiffer' /\ AddressTellsMode'
    BY BattlesArePairedStep, AddressesDifferStep, AddressTellsModeStep
    DEF SeasonInv, TablesInv, RoundsInv
<1> QED BY <1>1, <1>2 DEF SeasonInv

-----------------------------------------------------------------------------
(***************************************************************************)
(* Of all battles that exist or will, of either mode, a wallet has one a   *)
(* round.                                                                  *)
(***************************************************************************)
PairedBattles(r, w) ==
    {b \in Battles : /\ b.round = r /\ w \in Players(b)
                     /\ \/ chain[b] # "NONE"
                        \/ \E p \in pairings : p.battle = b
                        \/ \E p \in leaguePairings : p.battle = b}

LEMMA OneBattleARound ==
    ASSUME SeasonInv, NEW r \in Rounds, NEW w \in Wallets
    PROVE  Cardinality(PairedBattles(r, w)) <= 1
<1> DEFINE S == PairedBattles(r, w)
<1>0. TablesInv /\ RoundsInv /\ ScheduleInv /\ RunsInv /\ PairedInv /\ BattlesArePaired
    BY DEF SeasonInv, TablesInv, RoundsInv
<1>1. \A b \in S : /\ b.round = r /\ w \in Players(b)
                   /\ (\E p \in pairings : p.battle = b) \/ (\E p \in leaguePairings : p.battle = b)
    BY <1>0 DEF PairedBattles, BattlesArePaired
<1>2. ASSUME NEW b \in S, NEW c \in S
      PROVE  b = c
    <2>1. b.round = c.round /\ Players(b) \intersect Players(c) # {}
        BY <1>1
    <2>2. ASSUME NEW p \in pairings, NEW q \in pairings, p.battle = b, q.battle = c
          PROVE  b = c
        BY <1>0, <2>1, <2>2 DEF PairedInv, PairedOnce
    <2>3. ASSUME NEW p \in leaguePairings, NEW q \in leaguePairings, p.battle = b, q.battle = c
          PROVE  b = c
        <3>1. p = q
            BY <1>0, <2>1, <2>3, LeaguePairedOnce
        <3> QED BY <2>3, <3>1
    <2>4. ASSUME NEW p \in leaguePairings, NEW q \in pairings,
                 {p.battle, q.battle} = {b, c}
          PROVE  FALSE
        <3>1. /\ p.battle.round = q.battle.round
              /\ Players(p.battle) \intersect Players(q.battle) # {}
            BY <1>1, <2>4
        <3> QED BY <1>0, <3>1, ModesDoNotMeet
    <2> HIDE DEF S
    <2> QED BY <1>1, <2>2, <2>3, <2>4
<1> HIDE DEF S
<1>3. CASE S = {}
    BY <1>3, FS_EmptySet DEF S
<1>4. ASSUME NEW b \in S
      PROVE  Cardinality(S) <= 1
    <2>1. S = {b}
        BY <1>2
    <2> QED BY <2>1, FS_Singleton
<1> QED BY <1>3, <1>4 DEF S

LEMMA SeasonInvExcludes ==
    ASSUME SeasonInv
    PROVE  CrossModeExclusion
<1>1. ModesApart
    BY DEF SeasonInv, RoundsInv
<1>2. \A w \in Wallets, r \in Rounds : Cardinality(PairedBattles(r, w)) <= 1
    BY OneBattleARound
<1> QED BY <1>1, <1>2 DEF CrossModeExclusion, ModesApart, PairedBattles

\* The players of a run are two for each pairing, as a and as b.
LEMMA TwoPlayersAPairing ==
    ASSUME RoundsTyped, NEW own \in SUBSET leaguePairings,
           \A p, q \in own : Players(p.battle) \intersect Players(q.battle) # {} => p = q
    PROVE  Cardinality(UNION {Players(p.battle) : p \in own}) = 2 * Cardinality(own)
<1> DEFINE A == {p.battle.a : p \in own}
           B == {p.battle.b : p \in own}
           f == [p \in own |-> p.battle.a]
           g == [p \in own |-> p.battle.b]
<1>1. IsFiniteSet(own) /\ Cardinality(own) \in Nat
    BY FS_Subset, FS_CardinalityType DEF RoundsTyped
<1>2. \A p \in own : p.battle.a \in Nat /\ p.battle.b \in Nat /\ p.battle.a < p.battle.b
    BY LeaguePairingsAreTyped, BattlesAreTyped
<1>3. f \in Bijection(own, A) /\ g \in Bijection(own, B)
    <2>1. \A p, q \in own : (p.battle.a = q.battle.a => p = q) /\ (p.battle.b = q.battle.b => p = q)
        BY DEF Players
    <2>2. f \in Injection(own, A) /\ f \in Surjection(own, A)
        BY <2>1 DEF Injection, IsInjective, Surjection
    <2>3. g \in Injection(own, B) /\ g \in Surjection(own, B)
        BY <2>1 DEF Injection, IsInjective, Surjection
    <2> HIDE DEF f, g, A, B
    <2> QED BY <2>2, <2>3 DEF Bijection
<1>4. A \intersect B = {}
    <2>1. ASSUME NEW p \in own, NEW q \in own, p.battle.a = q.battle.b
          PROVE  FALSE
        <3>1. p = q
            BY <2>1 DEF Players
        <3> QED BY <1>2, <2>1, <3>1
    <2> QED BY <2>1
<1>5. UNION {Players(p.battle) : p \in own} = A \union B
    BY DEF Players
<1> HIDE DEF A, B, f, g
<1>6. /\ IsFiniteSet(A) /\ Cardinality(A) = Cardinality(own)
      /\ IsFiniteSet(B) /\ Cardinality(B) = Cardinality(own)
    BY <1>1, <1>3, FS_Bijection DEF ExistsBijection
<1>7. Cardinality(A \union B) = 2 * Cardinality(own)
    <2>1. Cardinality(A \union B) = Cardinality(A) + Cardinality(B) - Cardinality(A \intersect B)
        BY <1>6, FS_Union
    <2>2. Cardinality(A \intersect B) = 0
        BY <1>4, FS_EmptySet
    <2> QED BY <1>1, <1>6, <2>1, <2>2
<1> QED BY <1>5, <1>7, Zenon

LEMMA SeasonInvIsWhole ==
    ASSUME SeasonInv
    PROVE  LeaguePairedWhole
<1>0. RegistryInv /\ RoundsTyped /\ ScheduleInv /\ RunsInv /\ AddressesDiffer /\ AddressTellsMode
    BY DEF SeasonInv, TablesInv, RoundsInv
<1>1. ASSUME NEW run \in runs
      PROVE  LET own == {p \in leaguePairings : p.number = run.number}
                 playing == UNION {Players(p.battle) : p \in own}
             IN  /\ Cardinality(playing) = 2 * Cardinality(own)
                 /\ playing \intersect run.bye = {}
                 /\ playing \union run.bye \subseteq LeaguePlayers
                 /\ \A w \in playing : reservation[schedule[run.number]][w] = "ACTIVE"
    <2> DEFINE own == {p \in leaguePairings : p.number = run.number}
               playing == UNION {Players(p.battle) : p \in own}
    <2>1. \A p, q \in own : Players(p.battle) \intersect Players(q.battle) # {} => p = q
        BY <1>0 DEF RunsInv
    <2>2. Cardinality(playing) = 2 * Cardinality(own)
        <3>1. own \in SUBSET leaguePairings
            OBVIOUS
        <3> HIDE DEF own
        <3> QED BY <1>0, <2>1, <3>1, TwoPlayersAPairing
    <2>3. playing \intersect run.bye = {} /\ playing \union run.bye \subseteq LeaguePlayers
        BY <1>0 DEF RunsInv
    <2>4. \A w \in playing : reservation[schedule[run.number]][w] = "ACTIVE"
        <3>1. run.number \in DOMAIN schedule
            BY <1>0 DEF RunsInv
        <3> QED BY <1>0, <2>3, <3>1, MembersAreReserved
    <2> QED BY <2>2, <2>3, <2>4
<1> QED BY <1>0, <1>1 DEF LeaguePairedWhole, AddressesDiffer, AddressTellsMode

(***************************************************************************)
(* The tables of both modes keep their types, and the schedule its order,  *)
(* without the premise of the theorems below: what is lost without it is   *)
(* the agreement of pairings and members, not the shape of the tables.     *)
(***************************************************************************)
THEOREM SeasonTypeCorrect ==
    Spec => [](TypedTables /\ RegistryTyped /\ RoundsTyped /\ ValidSchedule(schedule))
<1> DEFINE I == TablesInv /\ RoundsTyped /\ ScheduleInv
<1>1. Init => I
    BY InitSeasonInv DEF SeasonInv, RoundsInv
<1>2. I /\ [Next]_vars => I'
    BY TablesInvStep, RoundsTypedStep, ScheduleInvStep DEF TablesInv
<1>3. I => TypedTables /\ RegistryTyped /\ RoundsTyped /\ ValidSchedule(schedule)
    BY DEF TablesInv, RegistryInv, ScheduleInv
<1> QED BY <1>1, <1>2, <1>3, PTL DEF Spec

(***************************************************************************)
(* No wallet is in the ranked queue and in a league for rounds that        *)
(* overlap, and no wallet has two battles in a round, whatever the order   *)
(* of requests, observations, pairings and confirmations.                  *)
(***************************************************************************)
THEOREM ModesExcludeEachOther ==
    ASSUME PairingAfterRegistration
    PROVE  Spec => []CrossModeExclusion
<1>1. SeasonInv /\ [Next]_vars => SeasonInv'
    BY SeasonInvStep
<1>2. SeasonInv => CrossModeExclusion
    BY SeasonInvExcludes
<1> QED BY <1>1, <1>2, InitSeasonInv, PTL DEF Spec

(***************************************************************************)
(* A paired league round stays whole: its players stay active members with *)
(* the round reserved, each in one pairing or with the bye, and its        *)
(* battles have addresses of their own.                                    *)
(***************************************************************************)
THEOREM PairedRoundsStayWhole ==
    ASSUME PairingAfterRegistration
    PROVE  Spec => []LeaguePairedWhole
<1>1. SeasonInv /\ [Next]_vars => SeasonInv'
    BY SeasonInvStep
<1>2. SeasonInv => LeaguePairedWhole
    BY SeasonInvIsWhole
<1> QED BY <1>1, <1>2, InitSeasonInv, PTL DEF Spec

=============================================================================
