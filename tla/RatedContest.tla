----------------------------- MODULE RatedContest -----------------------------
(***************************************************************************)
(* What a market round promises to the players of its rated battles,       *)
(* whatever its price source: nobody is in two contests, lineups are       *)
(* sealed before any of them is opened, all of them are opened before any  *)
(* price is known, what is opened is what was sealed, and each contest     *)
(* gets one verdict: by score only when both sides are open, by forfeit    *)
(* only against a side that stayed shut.                                   *)
(***************************************************************************)
CONSTANTS Contests, Players, Lineups, NoPlayer, NoLineup

VARIABLES
    stage,      \* "Sealing", "Opening" or "Settling", of the whole round
    priced,     \* whether some price is known
    entrant,    \* the player of each side of a contest
    sealed,     \* the lineup a side is bound to
    shown,      \* the lineup a side has opened
    verdict     \* "Absent", "Pending" or how it was decided

contestVars == <<stage, priced, entrant, sealed, shown, verdict>>

Sides == {"A", "B"}

Empty(v) == [c \in Contests |-> [s \in Sides |-> v]]

Init ==
    /\ stage = "Sealing"
    /\ priced = FALSE
    /\ entrant = Empty(NoPlayer)
    /\ sealed = Empty(NoLineup)
    /\ shown = Empty(NoLineup)
    /\ verdict = [c \in Contests |-> "Absent"]

MoveOn ==
    /\ \/ stage = "Sealing" /\ stage' \in {"Opening", "Settling"}
       \/ stage = "Opening" /\ stage' = "Settling"
    /\ UNCHANGED <<priced, entrant, sealed, shown, verdict>>

LearnPrice ==
    /\ stage = "Settling"
    /\ priced' = TRUE
    /\ UNCHANGED <<stage, entrant, sealed, shown, verdict>>

Free(i) == \A c \in Contests, s \in Sides : entrant[c][s] # i

Enter(c, i, j) ==
    /\ stage = "Sealing"
    /\ verdict[c] = "Absent"
    /\ i # j /\ Free(i) /\ Free(j)
    /\ entrant' = [entrant EXCEPT ![c] = [s \in Sides |-> IF s = "A" THEN i ELSE j]]
    /\ verdict' = [verdict EXCEPT ![c] = "Pending"]
    /\ UNCHANGED <<stage, priced, sealed, shown>>

Seal(c, s, l) ==
    /\ stage = "Sealing"
    /\ verdict[c] = "Pending"
    /\ sealed[c][s] = NoLineup
    /\ sealed' = [sealed EXCEPT ![c][s] = l]
    /\ UNCHANGED <<stage, priced, entrant, shown, verdict>>

Open(c, s) ==
    /\ stage = "Opening"
    /\ verdict[c] = "Pending"
    /\ sealed[c][s] # NoLineup /\ shown[c][s] = NoLineup
    /\ shown' = [shown EXCEPT ![c][s] = sealed[c][s]]
    /\ UNCHANGED <<stage, priced, entrant, sealed, verdict>>

Shut(c) == {s \in Sides : shown[c][s] = NoLineup}

ByScore(c) == priced /\ Shut(c) = {}

ByForfeit(c, v) ==
    /\ stage = "Settling"
    /\ \/ v = "ForfeitA" /\ Shut(c) = {"A"}
       \/ v = "ForfeitB" /\ Shut(c) = {"B"}
       \/ v = "BothForfeit" /\ Shut(c) = Sides

\* A contest may be called off at any time before its verdict.
Decide(c, v) ==
    /\ verdict[c] = "Pending"
    /\ \/ v \in {"PlayerA", "PlayerB", "Draw"} /\ ByScore(c)
       \/ ByForfeit(c, v)
       \/ v = "Voided"
    /\ verdict' = [verdict EXCEPT ![c] = v]
    /\ UNCHANGED <<stage, priced, entrant, sealed, shown>>

Verdicts ==
    {"PlayerA", "PlayerB", "Draw", "ForfeitA", "ForfeitB", "BothForfeit", "Voided"}

Next ==
    \/ MoveOn \/ LearnPrice
    \/ \E c \in Contests :
           \/ \E i, j \in Players : Enter(c, i, j)
           \/ \E s \in Sides : Open(c, s) \/ \E l \in Lineups : Seal(c, s, l)
           \/ \E v \in Verdicts : Decide(c, v)

Spec == Init /\ [][Next]_contestVars

=============================================================================
