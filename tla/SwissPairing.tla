------------------------------ MODULE SwissPairing ------------------------------
(***************************************************************************)
(* pair_swiss of the protocol crate: the pairs of one league round and, of *)
(* an odd number of players, the one who gets the bye. What the code takes *)
(* from a hash of the seed is `key` here, a rank for every player; where   *)
(* only the hash of a pair decides, any of the pairs may come out, so that *)
(* the result is a set of pairings. A table of players is a function from  *)
(* wallets to [points, rating, byes, met].                                 *)
(***************************************************************************)
EXTENDS Integers, FiniteSets

Apart(i, j) == IF i < j THEN j - i ELSE i - j

HasMet(table, v, w) == w \in table[v].met \/ v \in table[w].met

(* The best player of the rest: most points, then the hash.                *)
FirstOf(table, key, S) ==
    CHOOSE v \in S : \A w \in S \ {v} :
        \/ table[v].points > table[w].points
        \/ table[v].points = table[w].points /\ key[v] < key[w]

(* Opponents of `first`, compared by points and then by rating.            *)
CloserMatch(table, first, v, w) ==
    LET points(x) == Apart(table[first].points, table[x].points)
        rating(x) == Apart(table[first].rating, table[x].rating)
    IN  \/ points(v) < points(w)
        \/ points(v) = points(w) /\ rating(v) < rating(w)

(* Mutated form: a candidate that leaves the rest without pairs is not     *)
(* given up for the next one.                                              *)
NearestOnly(table, first, open, completing) ==
    {v \in completing : \A w \in open : ~ CloserMatch(table, first, w, v)}

(* The candidates the search may stop at: the rest can be paired, and it   *)
(* cannot with any candidate that comes before.                            *)
FirstThatCompletes(table, first, open, completing) ==
    {v \in completing : \A w \in completing : ~ CloserMatch(table, first, w, v)}

(* search_pairing: the complete pairings it may find, none if it fails.    *)
SearchPairing(table, key, players, avoidRepeats) ==
    LET found[S \in SUBSET players] ==
            IF S = {} THEN {{}}
            ELSE IF Cardinality(S) % 2 = 1 THEN {}
            ELSE LET first == FirstOf(table, key, S)
                     rest(w) == found[S \ {first, w}]
                     open == {w \in S \ {first} :
                                 avoidRepeats => ~ HasMet(table, first, w)}
                     completing == {w \in open : rest(w) # {}}
                 IN  UNION {{{{first, w}} \union pairs : pairs \in rest(w)} :
                               w \in FirstThatCompletes(table, first, open, completing)}
    IN  found[players]

(* Mutated form: the lowest score alone decides who may get the bye.       *)
LowestGetBye(table) ==
    {v \in DOMAIN table : \A w \in DOMAIN table : table[v].points <= table[w].points}

(* Who may get the bye: of the lowest points the ones without a bye, else  *)
(* any other without one, else everybody.                                  *)
ByeCandidates(table) ==
    LET lowest == {v \in DOMAIN table :
                      \A w \in DOMAIN table : table[v].points <= table[w].points}
        without == {v \in DOMAIN table : table[v].byes = 0}
    IN  IF lowest \intersect without # {} THEN lowest \intersect without
        ELSE IF without # {} THEN without ELSE DOMAIN table

ByeBefore(table, key, v, w) ==
    \/ table[v].points < table[w].points
    \/ table[v].points = table[w].points /\ key[v] < key[w]

(* Every candidate for the bye is tried without repeats before the first   *)
(* of them is taken with repeats.                                          *)
PairSwiss(table, key) ==
    LET players == DOMAIN table
        odd == Cardinality(players) % 2 = 1
        byes == IF odd THEN {{v} : v \in ByeCandidates(table)} ELSE {{}}
        before(B, C) == \E v \in B, w \in C : ByeBefore(table, key, v, w)
        search(B, avoid) == SearchPairing(table, key, players \ B, avoid)
        firstBye(S) == CHOOSE B \in S : \A C \in S \ {B} : before(B, C)
        fair == {B \in byes : search(B, TRUE) # {}}
        bye == firstBye(IF fair # {} THEN fair ELSE byes)
    IN  {[pairs |-> pairs, bye |-> bye] : pairs \in search(bye, fair # {})}

=============================================================================
