------------------------------ MODULE LeagueRounds ------------------------------
(***************************************************************************)
(* A league round: its members are paired once, the coordinator creates a  *)
(* battle for each pairing on chain and confirms it. Ranked and league     *)
(* pairings are numbered by their own tables; the number of a pairing is   *)
(* the battle id its account is derived from, in the same market round.    *)
(***************************************************************************)
EXTENDS RankedQueue, LeagueRegistry, SwissPairing

CONSTANTS
    Keys,           \* the orders a seed may give the members
    NoAccount

(* A key is what the hash of a seed with each wallet comes to. Two that    *)
(* come to the same 64 bits are left out.                                  *)
ASSUME KeysAssumption ==
    \A key \in Keys : \A v, w \in Candidates :
        key[v] \in Int /\ (v # w => key[v] # key[w])

VARIABLES
    runs,            \* league_pairing_runs: [number, bye]
    leaguePairings,  \* league_pairings
    pairingId,       \* the id of a pairing, per mode and battle
    account          \* the mode and id of the battle's account

roundVars == <<runs, leaguePairings, pairingId, account>>

Modes == {"RANKED", "LEAGUE"}

InitRounds ==
    /\ runs = {}
    /\ leaguePairings = {}
    /\ pairingId = [m \in Modes |-> << >>]
    /\ account = [b \in Battles |-> NoAccount]

(* The serial of a table goes on where it stands, in the order the rows    *)
(* are written.                                                            *)
Numberings(m, S) ==
    LET last == Cardinality(DOMAIN pairingId[m])
        ids == (last + 1)..(last + Cardinality(S))
    IN  {f \in [S -> ids] : \A b, c \in S : b # c => f[b] # f[c]}

Numbered(m, f) ==
    [pairingId EXCEPT ![m] =
        [b \in DOMAIN @ \union DOMAIN f |-> IF b \in DOMAIN f THEN f[b] ELSE @[b]]]

Matchmake(r, at) ==
    /\ RunMatchmaker(r, at)
    /\ \E f \in Numberings("RANKED", {p.battle : p \in pairings' \ pairings}) :
           pairingId' = Numbered("RANKED", f)
    /\ UNCHANGED <<runs, leaguePairings, account>>

-----------------------------------------------------------------------------
RunNumbers == {run.number : run \in runs}

(* Mutated form: a wallet that is leaving is still one of the players.     *)
PlayersAndLeavers == {w \in Candidates : IsMember(w)}

LeaguePlayers == {w \in Candidates : membership[w].state = "ACTIVE"}

(* load_pairing_candidates: the points, byes and opponents of the rounds   *)
(* before, and the rating of now.                                          *)
PairingTable ==
    [w \in LeaguePlayers |->
        [points |-> 3 * Cardinality({run \in runs : run.bye = {w}})
                    + Cardinality({p \in leaguePairings :
                          RowExists(p.battle) /\ row[p.battle].result = "DRAW"
                          /\ w \in Players(p.battle)})
                    + 3 * Cardinality({p \in leaguePairings :
                          /\ RowExists(p.battle)
                          /\ \/ /\ row[p.battle].result \in {"PLAYER_A", "FORFEIT_B"}
                                /\ p.battle.a = w
                             \/ /\ row[p.battle].result \in {"PLAYER_B", "FORFEIT_A"}
                                /\ p.battle.b = w}),
         rating |-> IF rating[w] = NoRow THEN InitialRating ELSE rating[w].rating,
         byes |-> Cardinality({run \in runs : run.bye = {w}}),
         met |-> UNION {Players(p.battle) \ {w} :
                           p \in {q \in leaguePairings : w \in Players(q.battle)}}]]

PreviousRoundResolved(n) ==
    n > 1 =>
        /\ n - 1 \in RunNumbers
        /\ \A p \in leaguePairings : p.number = n - 1 =>
               /\ p.status = "CREATED"
               /\ row[p.battle].state \in {"FINALIZED", "VOIDED"}

(* The candidates are loaded in the order of their wallets and a search     *)
(* that takes the later of two first swaps them, so player A of a pairing   *)
(* is the lower wallet, as in BattleOf.                                     *)
LeaguePairing(n, r, pair) ==
    LET b == BattleOf(r, pair)
    IN  [battle |-> b, number |-> n, status |-> "PENDING_COORDINATOR",
         snapA |-> PairingTable[b.a].rating, snapB |-> PairingTable[b.b].rating]

(* load_pairing_market_round: pairing takes place between the close of the *)
(* round's queue and its start.                                            *)
PairingWindow(n, at) ==
    /\ n \in DOMAIN schedule
    /\ QueueCloseAt[schedule[n]] <= at /\ at < StartAt[schedule[n]]

CreateLeaguePairings(n, key, at) ==
    /\ n \notin RunNumbers
    /\ leagueRow # NoLeague
    /\ leagueRow.status = "ACTIVE" /\ leagueRow.round = n
    /\ PairingWindow(n, at)
    /\ PreviousRoundResolved(n)
    /\ Cardinality(LeaguePlayers) >= 2
    /\ \E pairing \in PairSwiss(PairingTable, key) :
           LET new == {LeaguePairing(n, schedule[n], pair) : pair \in pairing.pairs}
           IN  /\ runs' = runs \union {[number |-> n, bye |-> pairing.bye]}
               /\ leaguePairings' = leaguePairings \union new
               /\ \E f \in Numberings("LEAGUE", {p.battle : p \in new}) :
                      pairingId' = Numbered("LEAGUE", f)
    /\ UNCHANGED account

(* A call for a round that is paired already gets the run there is.        *)
ReturnPairingRun(n) == n \in RunNumbers /\ UNCHANGED roundVars

-----------------------------------------------------------------------------
(* The address of a battle is its market round and its id.                 *)
AccountFree(r, id) ==
    \A c \in Battles : c.round = r /\ account[c] # NoAccount => account[c].id # id

SlotsFree(b) ==
    \A c \in Battles : c.round = b.round /\ chain[c] # "NONE" => Players(c) \intersect Players(b) = {}

(* create_rated_battle: the battle and both slots, or nothing.             *)
CreateRatedBattle(m, b) ==
    /\ now < StartAt[b.round]
    /\ SlotsFree(b)
    /\ AccountFree(b.round, pairingId[m][b])
    /\ chain' = [chain EXCEPT ![b] = "OPEN"]
    /\ account' = [account EXCEPT ![b] = [mode |-> m, id |-> pairingId[m][b]]]

CreateRankedBattle(p) ==
    /\ p.status = "PENDING_COORDINATOR"
    /\ CreateRatedBattle("RANKED", p.battle)
    /\ UNCHANGED <<runs, leaguePairings, pairingId>>

(* The transaction made of league_coordinator_battle_plan. A plan is read   *)
(* from the database as soon as there is a pairing (the run that made the   *)
(* pairing saw the league active in that round and both players its         *)
(* members) and is sent at any later time, when rows and members may have   *)
(* changed: what stops it then is the program alone.                        *)
CreateLeagueBattle(p) ==
    /\ p.status = "PENDING_COORDINATOR"
    /\ league.state = "ACTIVE" /\ league.round = p.number
    /\ \A w \in Players(p.battle) : member[w] = "ACTIVE"
    /\ CreateRatedBattle("LEAGUE", p.battle)
    /\ UNCHANGED <<runs, leaguePairings, pairingId>>

(* confirm_league_coordinator_battle: as in ranked play, without a queue.  *)
(* The function checks the address and the rows; that the account is there  *)
(* is what its caller answers for, which calls it after the transaction is  *)
(* finalized.                                                               *)
ConfirmLeagueBattle(p) ==
    LET b == p.battle
    IN  /\ p.status = "PENDING_COORDINATOR"
        /\ chain[b] # "NONE" /\ account[b].mode = "LEAGUE"
        /\ \A w \in Players(b) : ~ HasRatedExposure(b.round, w)
        /\ row' = [row EXCEPT ![b] = ConfirmedRow(p)]
        /\ exposure' = [exposure EXCEPT ![b.round] =
               [w \in Wallets |-> IF w \in Players(b) THEN b ELSE exposure[b.round][w]]]
        /\ leaguePairings' = (leaguePairings \ {p}) \union {[p EXCEPT !.status = "CREATED"]}
        /\ UNCHANGED <<runs, pairingId, account>>

=============================================================================
