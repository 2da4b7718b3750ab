----------------------------- MODULE LeagueRegistry -----------------------------
(***************************************************************************)
(* The backend's side of one official league: its row, its schedule, the   *)
(* memberships and the reservations that keep its members out of the       *)
(* ranked queue. Wallets ask, the indexer confirms what it sees on chain,  *)
(* and a request that is not confirmed in time expires. What the indexer   *)
(* sees may be old: it retries, and nothing here compares slots.           *)
(***************************************************************************)
EXTENDS LeagueProgram

CONSTANTS
    PendingJoinTtl,
    NoLeague

ASSUME RegistryAssumption == PendingJoinTtl \in Nat \ {0}

VARIABLES
    leagueRow,     \* leagues: NoLeague or [status, round]
    schedule,      \* league_round_schedule: the market round of each round
    membership     \* league_memberships: [state, until]

registryVars == <<leagueRow, schedule, membership>>

LiveMembership == {"PENDING_JOIN", "ACTIVE", "PENDING_LEAVE"}

NoExpiry == -1

Entry(state) == [state |-> state, until |-> NoExpiry]

InitRegistry ==
    /\ leagueRow = NoLeague
    /\ schedule = << >>
    /\ membership = [w \in Candidates |-> Entry("NONE")]

IsMember(w) == membership[w].state \in LiveMembership

(* The row is that of the league, open to joins and leaves at this time.   *)
Registering(at) ==
    /\ leagueRow # NoLeague /\ leagueRow.status = "REGISTRATION"
    /\ at <= RegistrationCloseAt

UpsertOfficialLeague(at) ==
    /\ leagueRow = NoLeague
    /\ at < RegistrationCloseAt
    /\ leagueRow' = [status |-> "REGISTRATION", round |-> 0]
    /\ UNCHANGED <<schedule, membership, reservation>>

(* The states of the League account so far; any of them may be what an     *)
(* observation carries.                                                    *)
LeagueStatesShown ==
    {s \in {[status |-> "REGISTRATION", round |-> 0], [status |-> "ACTIVE", round |-> 1],
            [status |-> "CANCELLED", round |-> league.round]} :
        /\ league.state # "NONE"
        /\ s.status = "ACTIVE" => league.round = 1
        /\ s.status = "CANCELLED" => league.state = "CANCELLED"}

ReconcileLeagueState(s) ==
    /\ leagueRow # NoLeague
    /\ s \in LeagueStatesShown
    /\ leagueRow' = s
    /\ UNCHANGED <<schedule, membership, reservation>>

(* validate_schedule. A round that overlaps none of the others is another. *)
ValidSchedule(s) ==
    \A i, j \in DOMAIN s : i # j => s[i] # s[j] /\ ~ Overlap(s[i], s[j])

AssignSchedule(s, at) ==
    /\ ValidSchedule(s)
    /\ Registering(at)
    /\ DOMAIN s = 1..TotalRounds
    /\ \A w \in Candidates : ~ IsMember(w)
    /\ \A n \in DOMAIN s : StartAt[s[n]] > at /\ StartAt[s[n]] > RegistrationCloseAt
    /\ schedule' = s
    /\ UNCHANGED <<leagueRow, membership, reservation>>

-----------------------------------------------------------------------------
Scheduled(r) == \E n \in DOMAIN schedule : schedule[n] = r

(* Every reservation of a wallet with one of the statuses gets another.    *)
Reserve(w, from, to) ==
    [r \in Rounds |->
        [reservation[r] EXCEPT ![w] = IF @ \in from THEN to ELSE @]]

Lapsed(at) ==
    {w \in Candidates : membership[w].state = "PENDING_JOIN" /\ membership[w].until <= at}

MembershipAfterExpiry(at) ==
    [w \in Candidates |-> IF w \in Lapsed(at) THEN Entry("EXPIRED") ELSE membership[w]]

ReservationAfterExpiry(at) ==
    [r \in Rounds |-> [w \in Wallets |->
        IF w \in Lapsed(at) /\ reservation[r][w] = "PENDING" THEN "EXPIRED"
        ELSE reservation[r][w]]]

ExpirePendingMemberships(at) ==
    /\ Lapsed(at) # {}
    /\ membership' = MembershipAfterExpiry(at)
    /\ reservation' = ReservationAfterExpiry(at)
    /\ UNCHANGED <<leagueRow, schedule>>

OverlappingReservation(w, r, reserved) ==
    \E q \in Rounds : reserved[q][w] \in LiveReservation /\ Overlap(q, r)

(* Mutated form: only a battle that is being made counts, as if an entry   *)
(* still in the queue were nothing yet.                                    *)
OverlappingMatch(w, r) ==
    \E q \in Rounds : queue[q][w] \in Paired /\ Overlap(q, r)

OverlappingQueueEntry(w, r) ==
    \E q \in Rounds : /\ queue[q][w] \notin {"NONE", "CANCELLED", "UNMATCHED", "BLOCKED"}
                      /\ Overlap(q, r)

(* Requests that have lapsed make room first, in the same transaction.     *)
RequestJoin(w, at) ==
    LET members == MembershipAfterExpiry(at)
        reserved == ReservationAfterExpiry(at)
    IN  /\ Registering(at)
        /\ DOMAIN schedule = 1..TotalRounds
        /\ members[w].state \notin LiveMembership
        /\ Cardinality({v \in Candidates : members[v].state \in LiveMembership}) < MaxPlayers
        /\ \A r \in Rounds : Scheduled(r) =>
               ~ OverlappingReservation(w, r, reserved) /\ ~ OverlappingQueueEntry(w, r)
        /\ membership' = [members EXCEPT ![w] =
               [state |-> "PENDING_JOIN", until |-> at + PendingJoinTtl]]
        /\ reservation' = [r \in Rounds |->
               IF Scheduled(r) THEN [reserved[r] EXCEPT ![w] = "PENDING"] ELSE reserved[r]]
        /\ UNCHANGED <<leagueRow, schedule>>

RequestLeave(w, at) ==
    /\ Registering(at)
    /\ membership[w].state = "ACTIVE"
    /\ membership' = [membership EXCEPT ![w] = Entry("PENDING_LEAVE")]
    /\ reservation' = Reserve(w, {"PENDING", "ACTIVE"}, "PENDING_LEAVE")
    /\ UNCHANGED <<leagueRow, schedule>>

(* Mutated form: a request that expired is confirmed when its account does *)
(* appear.                                                                 *)
ConfirmLateJoin(w) ==
    /\ "ACTIVE" \in shown[w]
    /\ membership[w].state \in {"PENDING_JOIN", "ACTIVE", "EXPIRED"}
    /\ membership' = [membership EXCEPT ![w] = Entry("ACTIVE")]
    /\ reservation' = Reserve(w, {"PENDING"}, "ACTIVE")
    /\ UNCHANGED <<leagueRow, schedule>>

(* An observed member account confirms the request it belongs to; one that *)
(* belongs to none is refused.                                             *)
ConfirmJoin(w) ==
    /\ "ACTIVE" \in shown[w]
    /\ membership[w].state \in {"PENDING_JOIN", "ACTIVE"}
    /\ membership' = [membership EXCEPT ![w] = Entry("ACTIVE")]
    /\ reservation' = Reserve(w, {"PENDING"}, "ACTIVE")
    /\ UNCHANGED <<leagueRow, schedule>>

ConfirmLeave(w) ==
    /\ "INACTIVE" \in shown[w]
    /\ membership[w].state = "PENDING_LEAVE"
    /\ membership' = [membership EXCEPT ![w] = Entry("LEFT")]
    /\ reservation' = Reserve(w, {"PENDING_LEAVE"}, "CANCELLED")
    /\ UNCHANGED <<leagueRow, schedule>>

=============================================================================
