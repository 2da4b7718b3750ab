------------------------------ MODULE AssetPrices ------------------------------
(***************************************************************************)
(* The price phases of the round's assets (price.rs), with the reports     *)
(* reduced to the one fact the rest of the round depends on: whether a     *)
(* compatible quorum of them is on chain. A finalizer that supplies a      *)
(* quorum may choose which, so the return is any of Returns.               *)
(***************************************************************************)
EXTENDS RoundLedger

InitPrices ==
    /\ quorum = [a \in Assets |-> {}]
    /\ finalized = [a \in Assets |-> {}]
    /\ unavailable = [a \in Assets |-> {}]
    /\ returnQ9 = [a \in Assets |-> 0]

\* The report that completes a quorum, in the submission window.
ReachQuorum(a, p) ==
    /\ now >= WindowEnd(p) /\ now <= Deadline(p)
    /\ p \notin quorum[a]
    /\ quorum' = [quorum EXCEPT ![a] = @ \cup {p}]
    /\ UNCHANGED <<now, paused, roundVars, finalized, unavailable, returnQ9, battleVars>>

\* Mutated form: a resolver may act before the last report can arrive.
OpenFromWindowEnd(a, p) ==
    /\ now >= WindowEnd(p)
    /\ p \notin finalized[a] \cup unavailable[a]

\* The phase is unresolved and no report can arrive any more.
OpenForResolution(a, p) ==
    /\ now > Deadline(p)
    /\ p \notin finalized[a] \cup unavailable[a]

CanFinalizePricePhase(a, p) ==
    /\ OpenForResolution(a, p)
    /\ p \in quorum[a]
    /\ p = "End" => "Start" \in finalized[a]

FinalizePricePhase(a, p) ==
    /\ CanFinalizePricePhase(a, p)
    /\ finalized' = [finalized EXCEPT ![a] = @ \cup {p}]
    /\ IF p = "End"
       THEN \E r \in Returns : returnQ9' = [returnQ9 EXCEPT ![a] = r]
       ELSE UNCHANGED returnQ9
    /\ UNCHANGED <<now, paused, roundVars, quorum, unavailable, battleVars>>

CanMarkPricePhaseUnavailable(a, p) == OpenForResolution(a, p) /\ p \notin quorum[a]

MarkPricePhaseUnavailable(a, p) ==
    /\ CanMarkPricePhaseUnavailable(a, p)
    /\ unavailable' = [unavailable EXCEPT ![a] = @ \cup {p}]
    /\ UNCHANGED <<now, paused, roundVars, quorum, finalized, returnQ9, battleVars>>

=============================================================================
