----------------------------- MODULE LeagueStandings -----------------------------
(***************************************************************************)
(* calculate_standings of standings.rs. A fact is a finished battle        *)
(* [round, a, b, result, margin], where margin is score a minus score b    *)
(* and 0 for a result without scores; a bye is [round, wallet].            *)
(***************************************************************************)
EXTENDS Integers, Sequences, FiniteSets, FiniteSetsExt

CONSTANTS
    Members,        \* the active members, as numbers
    MarginCap       \* LEAGUE_SCORE_MARGIN_CAP_Q9

ASSUME MembersAssumption == Members \subseteq Nat /\ IsFiniteSet(Members)
ASSUME MarginAssumption == MarginCap \in Nat

WinsOf(w, f) ==
    \/ f.result \in {"PLAYER_A", "FORFEIT_B"} /\ f.a = w
    \/ f.result \in {"PLAYER_B", "FORFEIT_A"} /\ f.b = w

Plays(w, f) == w \in {f.a, f.b}

PointsFrom(w, f) ==
    IF WinsOf(w, f) THEN 3 ELSE IF f.result = "DRAW" /\ Plays(w, f) THEN 1 ELSE 0

LeaguePoints(facts, byes, w) ==
    SumFunction([f \in facts |-> PointsFrom(w, f)]) + 3 * Cardinality({y \in byes : y.wallet = w})

(* Mutated form: a voided battle counts as one against an opponent for the *)
(* player on the first side.                                               *)
OpponentsAndVoided(facts, w) ==
    {IF f.a = w THEN f.b ELSE f.a :
        f \in {g \in facts : Plays(w, g) /\ (g.result # "VOIDED" \/ g.a = w)}}

(* A voided battle does not count as one against an opponent.              *)
Opponents(facts, w) ==
    {IF f.a = w THEN f.b ELSE f.a :
        f \in {g \in facts : Plays(w, g) /\ g.result # "VOIDED"}}

(* Each opponent counts once, however often they met.                      *)
BuchholzSos(facts, byes, w) ==
    SumFunction([v \in Opponents(facts, w) |-> LeaguePoints(facts, byes, v)])

Clamp(x) == IF x > MarginCap THEN MarginCap ELSE IF x < -MarginCap THEN -MarginCap ELSE x

CumulativeMargin(facts, w) ==
    SumFunction([f \in {g \in facts : g.a = w} |-> Clamp(f.margin)])
        - SumFunction([f \in {g \in facts : g.b = w} |-> Clamp(f.margin)])

HeadToHead(facts, group, w) ==
    SumFunction([f \in {g \in facts : Plays(w, g) /\ {g.a, g.b} \subseteq group} |->
                    PointsFrom(w, f)])

TieGroup(facts, byes, w) ==
    {v \in Members : /\ LeaguePoints(facts, byes, v) = LeaguePoints(facts, byes, w)
                     /\ BuchholzSos(facts, byes, v) = BuchholzSos(facts, byes, w)}

(* The order of two members: points, then the points of the opponents,     *)
(* then within the group that these leave tied the points against each     *)
(* other, the margin and the hash of the final seed.                       *)
Above(facts, byes, key, v, w) ==
    LET points(x) == LeaguePoints(facts, byes, x)
        sos(x) == BuchholzSos(facts, byes, x)
        group == TieGroup(facts, byes, v)
        own(x) == HeadToHead(facts, group, x)
        margin(x) == CumulativeMargin(facts, x)
    IN  \/ points(v) > points(w)
        \/ points(v) = points(w) /\ sos(v) > sos(w)
        \/ /\ points(v) = points(w) /\ sos(v) = sos(w)
           /\ \/ own(v) > own(w)
              \/ own(v) = own(w) /\ margin(v) > margin(w)
              \/ own(v) = own(w) /\ margin(v) = margin(w) /\ key[v] < key[w]

Rank(facts, byes, key, w) ==
    1 + Cardinality({v \in Members \ {w} : Above(facts, byes, key, v, w)})

(* What calculate_standings refuses as inconsistent.                       *)
Inconsistent(facts, byes) ==
    \/ \E f \in facts : ~ {f.a, f.b} \subseteq Members \/ f.a = f.b
    \/ \E y \in byes : y.wallet \notin Members
    \/ \E f, g \in facts : f # g /\ f.round = g.round /\ {f.a, f.b} \intersect {g.a, g.b} # {}
    \/ \E f \in facts, y \in byes : f.round = y.round /\ y.wallet \in {f.a, f.b}
    \/ \E f \in facts : \/ f.result = "PLAYER_A" /\ f.margin <= 0
                        \/ f.result = "PLAYER_B" /\ f.margin >= 0
                        \/ f.result = "DRAW" /\ f.margin # 0

=============================================================================
