---------------------------- MODULE BattleProjection ----------------------------
(***************************************************************************)
(* The battle accounts on chain, and the indexer that copies them into the *)
(* database. An observation carries the second at which the account was    *)
(* read, and a retried one may arrive after a later one. Of that second    *)
(* only its order to the settlement of the battle matters: a row is after  *)
(* settlement when it was read in a later second.                          *)
(***************************************************************************)
EXTENDS RankedTables

(* The coordinator's transaction for a pairing, and the settlement of the  *)
(* battle on chain: a forfeit or a void needs no price, so it may come     *)
(* before the round ends.                                                  *)
CreateOnChain(b) ==
    /\ \E p \in pairings : p.battle = b /\ p.status = "PENDING_COORDINATOR"
    /\ now < StartAt[b.round]
    /\ chain[b] = "NONE"
    /\ chain' = [chain EXCEPT ![b] = "OPEN"]
    /\ UNCHANGED <<now, queueVars, reservation, settling, projectionVars, ledgerVars>>

ResolveOnChain(b, result) ==
    /\ chain[b] = "OPEN"
    /\ now >= (IF result \in Played THEN EndAt[b.round] ELSE QueueCloseAt[b.round])
    /\ chain' = [chain EXCEPT ![b] = result]
    /\ settling' = settling \union {b}
    /\ UNCHANGED <<now, queueVars, reservation, projectionVars, ledgerVars>>

-----------------------------------------------------------------------------
(* What the reader makes of an account: the state, and the result with it. *)
StateOf(account) ==
    CASE account = "OPEN" -> "CREATED"
      [] account = "VOIDED" -> "VOIDED"
      [] OTHER -> "FINALIZED"

ResultOf(account) == IF account = "OPEN" THEN "PENDING" ELSE account

Observed(b, account, after) ==
    [state |-> StateOf(account), result |-> ResultOf(account), after |-> after,
     snapA |-> IF RowExists(b) THEN row[b].snapA ELSE NoRating,
     snapB |-> IF RowExists(b) THEN row[b].snapB ELSE NoRating]

(* An observation older than the row changes nothing; one of the same      *)
(* second replaces it, whichever was made first.                           *)
UpsertBattle(b, account, after) ==
    /\ RowExists(b) => (row[b].after => after)
    /\ row' = [row EXCEPT ![b] = Observed(b, account, after)]
    /\ UNCHANGED <<now, queueVars, reservation, chainVars, exposure, ledgerVars>>

IndexBattle(b) ==
    /\ chain[b] # "NONE"
    /\ UpsertBattle(b, chain[b], SettledBefore(b))

(* A reading of the account from before its settlement arrives late; the   *)
(* most that can be is of the same second.                                 *)
IndexStaleBattle(b) ==
    /\ chain[b] \in PossibleResults
    /\ UpsertBattle(b, "OPEN", FALSE)

(* A rated slot the indexer found: the same battle again changes nothing,  *)
(* another one is refused.                                                 *)
UpsertRatedExposure(b, w) ==
    /\ chain[b] # "NONE" /\ RowExists(b) /\ w \in Players(b)
    /\ exposure[b.round][w] = NoBattle
    /\ exposure' = [exposure EXCEPT ![b.round][w] = b]
    /\ UNCHANGED <<now, queueVars, reservation, chainVars, row, ledgerVars>>

=============================================================================
