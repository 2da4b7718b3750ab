-------------------------- MODULE MCPriceSettlement --------------------------
(***************************************************************************)
(* The Jupiter price path at both of its ends: the attestor process that   *)
(* makes a report, and the program that settles a price on the reports.    *)
(* Each moves from its own initial states while the other does not run.    *)
(*                                                                         *)
(* Program: three attestors and three prices such that 100 and 102, 102    *)
(* and 105 are compatible but 100 and 105 are not, with two distinct       *)
(* spreads: all the cases of the selection (triple, two pairs, one pair,   *)
(* none) occur.                                                            *)
(*                                                                         *)
(* Process: the second of three attestors, with two assets in a request    *)
(* each, polls at the instants 1 and 4 of a window of five slots. It needs *)
(* two blocks, and the lag lets the first poll drop out of the report when *)
(* a rerun sees a later block. Two runs, so that a crash anywhere and a    *)
(* rerun in the window and after it occur.                                 *)
(***************************************************************************)
EXTENDS PriceSettlement, AttestorWorker

MCAttestors == {1, 2, 3}
MCPrices == {100, 102, 105}

\* Prices of two digits after the point of which one is kept; and one of the
\* odd blocks with nothing left when it is cut off.
MCQuotesAt ==
    [b \in 0..LastInstant |->
        {Decimal(15 + 10 * ((b * b) % 5), -2, FALSE)}
            \cup (IF b % 2 = 1 THEN {Decimal(1, -2, FALSE)} ELSE {})]

PricePathInit == Init /\ WorkerInit

PricePathNext ==
    \/ clock = 0 /\ starts = 0 /\ Next /\ UNCHANGED workerVars
    \/ now = 0 /\ WorkerNext /\ UNCHANGED vars

PricePathSpec == PricePathInit /\ [][PricePathNext]_<<vars, workerVars>>

=============================================================================
