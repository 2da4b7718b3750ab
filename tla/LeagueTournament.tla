---------------------------- MODULE LeagueTournament ----------------------------
(***************************************************************************)
(* A league round by round: the round is paired from the standings of the  *)
(* rounds before it, its battles end one by one, and the next round is     *)
(* paired when all have ended. The program never opens a second round (see *)
(* league.rs:89 of the program), so this is what the backend is written    *)
(* for, and what its simulation of five rounds does.                       *)
(***************************************************************************)
EXTENDS SwissPairing, LeagueStandings

CONSTANTS
    TotalRounds,
    Ratings,        \* the ratings of the members
    Keys,           \* the orders a seed may give the members
    Outcomes        \* the [result, margin] a battle may end with

ASSUME TournamentAssumption ==
    /\ TotalRounds \in Nat \ {0} /\ \A o \in Outcomes : o.margin \in Int
    /\ Ratings \in [Members -> Int]

(* A key is what the hash of a seed with each wallet comes to. Two that    *)
(* come to the same 64 bits are left out.                                  *)
ASSUME KeysAssumption ==
    \A key \in Keys : key \in [Members -> Int] /\ IsInjective(key)

VARIABLES
    pairings,   \* league_pairings with the result of their battle
    byes        \* the byes of league_pairing_runs: [round, wallet]

tournamentVars == <<pairings, byes>>

TournamentInit == pairings = {} /\ byes = {}

Unfinished == {p \in pairings : p.result = "PENDING"}

Finished == pairings \ Unfinished

RoundsPaired == {p.round : p \in pairings}

(* A bye is earned when every battle of its round has ended.               *)
EarnedByes == {y \in byes : \A p \in Unfinished : p.round # y.round}

(* load_pairing_candidates.                                                *)
Table == [w \in Members |->
    [points |-> LeaguePoints(Finished, byes, w),
     rating |-> Ratings[w],
     byes |-> Cardinality({y \in byes : y.wallet = w}),
     met |-> UNION {{p.a, p.b} \ {w} : p \in {q \in pairings : w \in {q.a, q.b}}}]]

PairRound(key) ==
    /\ Unfinished = {}
    /\ Cardinality(RoundsPaired) < TotalRounds
    /\ Cardinality(Members) >= 2
    /\ \E new \in PairSwiss(Table, key) :
           LET n == Cardinality(RoundsPaired) + 1
           IN  /\ pairings' = pairings \union
                      {[round |-> n, a |-> Min(pair), b |-> Max(pair),
                        result |-> "PENDING", margin |-> 0] : pair \in new.pairs}
               /\ byes' = byes \union {[round |-> n, wallet |-> w] : w \in new.bye}

(* validate_battle: a battle that was played has the scores its result     *)
(* says.                                                                   *)
ScoresExplain(o) ==
    /\ o.result = "PLAYER_A" => o.margin > 0
    /\ o.result = "PLAYER_B" => o.margin < 0
    /\ o.result = "DRAW" => o.margin = 0

(* The battle of a pairing is shown as ended.                              *)
EndBattle(p, o) ==
    /\ p \in Unfinished
    /\ ScoresExplain(o)
    /\ pairings' = (pairings \ {p})
                       \union {[p EXCEPT !.result = o.result, !.margin = o.margin]}
    /\ UNCHANGED byes

TournamentNext ==
    \/ \E key \in Keys : PairRound(key)
    \/ \E p \in Unfinished, o \in Outcomes : EndBattle(p, o)

TournamentSpec == TournamentInit /\ [][TournamentNext]_tournamentVars

-----------------------------------------------------------------------------
(* All the ways to divide a set into pairs.                               *)
PerfectPairings(S) ==
    {P \in SUBSET kSubset(2, S) :
        UNION P = S /\ \A x, y \in P : x \intersect y # {} => x = y}

PairsOfRound(n) == {{p.a, p.b} : p \in {q \in pairings : q.round = n}}

MetBefore(n) == UNION {PairsOfRound(m) : m \in 1..(n - 1)}

(***************************************************************************)
(* Two members meet again only in a round whose players cannot be paired   *)
(* without that: the search gives a candidate up for the next one when the *)
(* rest has no pairing left. Every member is in one battle or has the bye. *)
(***************************************************************************)
RepeatsOnlyWhenForced ==
    \A n \in RoundsPaired :
        LET playing == UNION PairsOfRound(n)
        IN  /\ Cardinality(playing) = 2 * Cardinality(PairsOfRound(n))
            /\ {y.wallet : y \in {z \in byes : z.round = n}} = Members \ playing
            /\ PairsOfRound(n) \intersect MetBefore(n) # {} =>
                   \A pairs \in PerfectPairings(playing) : pairs \intersect MetBefore(n) # {}

(***************************************************************************)
(* Byes go around: nobody gets a second one while another member has had   *)
(* none, whatever the points do to the order of the candidates.            *)
(***************************************************************************)
ByesGoAround ==
    LET count(w) == Cardinality({y \in byes : y.wallet = w})
    IN  (\E v \in Members : count(v) > 1) => \A w \in Members : count(w) > 0

(***************************************************************************)
(* The standings add up at any moment, also within a round: three points   *)
(* for every win and earned bye and two for a draw, opponents counted for  *)
(* both sides or for neither (so that the sums of opponents' points agree),*)
(* no margin won that another did not lose, and ranks without gaps.        *)
(***************************************************************************)
PointsAddUp ==
    LET decided == {p \in Finished : \E w \in {p.a, p.b} : WinsOf(w, p)}
        drawn == {p \in Finished : p.result = "DRAW"}
    IN  SumFunction([w \in Members |-> LeaguePoints(Finished, EarnedByes, w)]) =
            3 * Cardinality(decided) + 2 * Cardinality(drawn) + 3 * Cardinality(EarnedByes)

OpponentsAddUp ==
    SumFunction([w \in Members |-> BuchholzSos(Finished, EarnedByes, w)]) =
        SumFunction([w \in Members |-> LeaguePoints(Finished, EarnedByes, w)
                                           * Cardinality(Opponents(Finished, w))])

MarginsAddUp == SumFunction([w \in Members |-> CumulativeMargin(Finished, w)]) = 0

RanksHaveNoGaps ==
    \A key \in Keys :
        {Rank(Finished, EarnedByes, key, w) : w \in Members} = 1..Cardinality(Members)

StandingsAddUp ==
    /\ ~ Inconsistent(Finished, EarnedByes)
    /\ \A p \in Finished : p.result \in {"FORFEIT_A", "FORFEIT_B"} =>
           ~ WinsOf(IF p.result = "FORFEIT_A" THEN p.a ELSE p.b, p)
    /\ PointsAddUp /\ OpponentsAddUp /\ MarginsAddUp /\ RanksHaveNoGaps

=============================================================================
