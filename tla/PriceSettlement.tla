--------------------------- MODULE PriceSettlement ---------------------------
(***************************************************************************)
(* The Jupiter price path of one round asset: attestors submit one report  *)
(* each per phase while the submission window is open; once the window is  *)
(* over anyone may finalize the phase from a quorum of reports, or mark it *)
(* unavailable by showing that all report accounts hold none (price.rs).   *)
(* Three transactions of three different signers race on the same account. *)
(***************************************************************************)
EXTENDS CompatibleQuorum

CONSTANTS
    Prices,             \* the median prices an attestor may report
    StartTarget,        \* start_target_at of the round
    EndTarget,          \* end_target_at of the round
    ObservationWindow,  \* observation_window_secs
    Grace,              \* attestation_grace_secs
    ReturnScale,        \* RETURN_SCALE_Q9
    MaxReturn,          \* i64::MAX, where return_q9 overflows
    MaxTime             \* bound on the modelled clock

ASSUME PricesAssumption == Prices \subseteq Nat \ {0} /\ IsFiniteSet(Prices)
ASSUME TimingAssumption ==
    /\ StartTarget \in Nat /\ EndTarget \in Nat /\ MaxTime \in Nat
    /\ ObservationWindow \in Nat \ {0} /\ Grace \in Nat \ {0}
    /\ StartTarget < EndTarget
ASSUME ReturnAssumption == ReturnScale \in Nat \ {0} /\ MaxReturn \in Nat

VARIABLES
    now,            \* Clock::get()?.unix_timestamp
    reports,        \* the PriceAttestation accounts, by phase and attestor
    finalized,      \* start_finalized and end_finalized, as a set of phases
    unavailable,    \* start_unavailable and end_unavailable
    price,          \* start_price_q9 and end_price_q9
    returnQ9,       \* return_q9
    available       \* available

assetVars == <<finalized, unavailable, price, returnQ9, available>>
vars == <<now, reports, finalized, unavailable, price, returnQ9, available>>

Phases == {"Start", "End"}

-----------------------------------------------------------------------------

Target(p) == IF p = "Start" THEN StartTarget ELSE EndTarget
WindowEnd(p) == Target(p) + ObservationWindow
Deadline(p) == WindowEnd(p) + Grace

\* Mutated form: the end of the grace period is not enforced.
SubmissionNeverCloses(p) == now >= WindowEnd(p)

SubmissionOpen(p) == now >= WindowEnd(p) /\ now <= Deadline(p)

\* Mutated form: off by one at the deadline, when a report may still arrive.
ResolutionAtDeadline(p) == now >= Deadline(p)

ResolutionOpen(p) == now > Deadline(p)

\* Mutated form: only the unavailable flag is checked.
UnresolvedIgnoringFinalized(p) == p \notin unavailable

\* The PricePhaseResolved guard.
Unresolved(p) == p \notin finalized /\ p \notin unavailable

\* Integer division that rounds toward zero, as checked_div does.
TruncDiv(n, d) == IF n >= 0 THEN n \div d ELSE -((-n) \div d)

ReturnQ9(start, end) == TruncDiv((end - start) * ReturnScale, start)

\* i64::try_from.
ReturnFits(r) == r \in (-MaxReturn - 1)..MaxReturn

Reports == [Attestors -> Prices \cup {NoReport}]

(***************************************************************************)
(* Every account field keeps its type, and the stored return is in the     *)
(* range of an i64: prices far enough apart block the finalization of the  *)
(* end phase, they do not wrap. PriceBackedByTwoAttestors bounds prices.   *)
(***************************************************************************)
TypeOK ==
    /\ now \in 0..MaxTime
    /\ reports \in [Phases -> Reports]
    /\ finalized \subseteq Phases
    /\ unavailable \subseteq Phases
    /\ DOMAIN price = Phases
    /\ returnQ9 \in (-MaxReturn - 1)..MaxReturn
    /\ available \in BOOLEAN

Init ==
    /\ now = 0
    /\ reports = [p \in Phases |-> [a \in Attestors |-> NoReport]]
    /\ finalized = {}
    /\ unavailable = {}
    /\ price = [p \in Phases |-> 0]
    /\ returnQ9 = 0
    /\ available = FALSE

\* The report account is a PDA of (asset, phase, attestor), so init fails on
\* a second report.
SubmitPriceAttestation(p, a, q) ==
    /\ SubmissionOpen(p)
    /\ reports[p][a] = NoReport
    /\ reports' = [reports EXCEPT ![p][a] = q]
    /\ UNCHANGED <<now, assetVars>>

\* The finalizer chooses which report accounts S it supplies.
CanFinalizeStart(S) ==
    /\ ResolutionOpen("Start")
    /\ Unresolved("Start")
    /\ HasQuorum(Supplied(reports["Start"], S))

FinalizeStart(S) ==
    LET seen == Supplied(reports["Start"], S) IN
    /\ CanFinalizeStart(S)
    /\ price' = [price EXCEPT !["Start"] = QuorumPrice(seen)]
    /\ finalized' = finalized \cup {"Start"}
    /\ available' = (available \/ "End" \in finalized)
    /\ UNCHANGED <<now, reports, unavailable, returnQ9>>

FinalizeEnd(S) ==
    LET seen == Supplied(reports["End"], S)
        end == QuorumPrice(seen)
        return == ReturnQ9(price["Start"], end)
    IN
    /\ ResolutionOpen("End")
    /\ Unresolved("End")
    /\ "Start" \in finalized
    /\ HasQuorum(seen)
    /\ ReturnFits(return)
    /\ price' = [price EXCEPT !["End"] = end]
    /\ finalized' = finalized \cup {"End"}
    /\ returnQ9' = return
    /\ available' = TRUE
    /\ UNCHANGED <<now, reports, unavailable>>

\* Mutated form: an account of a missing report is not accepted.
NoQuorumAndNoneMissing(p) ==
    /\ Reporters(reports[p]) = Attestors
    /\ ~ HasQuorum(reports[p])

\* All report accounts must be supplied; a missing one counts as no report.
ShownWithoutQuorum(p) == ~ HasQuorum(reports[p])

CanMarkPricePhaseUnavailable(p) ==
    /\ ResolutionOpen(p)
    /\ Unresolved(p)
    /\ ShownWithoutQuorum(p)

MarkPricePhaseUnavailable(p) ==
    /\ CanMarkPricePhaseUnavailable(p)
    /\ unavailable' = unavailable \cup {p}
    /\ available' = FALSE
    /\ UNCHANGED <<now, reports, finalized, price, returnQ9>>

Tick ==
    /\ now < MaxTime
    /\ now' = now + 1
    /\ UNCHANGED <<reports, assetVars>>

Next ==
    \/ Tick
    \/ \E p \in Phases, a \in Attestors, q \in Prices :
           SubmitPriceAttestation(p, a, q)
    \/ \E S \in SUBSET Attestors : FinalizeStart(S) \/ FinalizeEnd(S)
    \/ \E p \in Phases : MarkPricePhaseUnavailable(p)

Spec == Init /\ [][Next]_vars

-----------------------------------------------------------------------------
(***************************************************************************)
(* A finalized price lies between the reports of two different attestors   *)
(* that agree within the spread: no finalizer, whatever subset of the      *)
(* reports it supplies, can settle a phase on one attestor's word.         *)
(***************************************************************************)
PriceBackedByTwoAttestors ==
    \A p \in finalized :
        \E a, b \in Reporters(reports[p]) :
            /\ a # b
            /\ reports[p][a] <= price[p] /\ price[p] <= reports[p][b]
            /\ SpreadBps(reports[p], {a, b}) <= MaxSpreadBps

(***************************************************************************)
(* The verdict of a phase agrees with all the reports on chain, not only   *)
(* with those the resolver saw: an unavailable phase never has a           *)
(* compatible quorum, so no report can arrive after the verdict, and a     *)
(* finalized phase always has one.                                         *)
(***************************************************************************)
VerdictMatchesEvidence ==
    /\ \A p \in unavailable : ~ HasQuorum(reports[p])
    /\ \A p \in finalized : HasQuorum(reports[p])

(***************************************************************************)
(* The return that lineups are scored with is the return between the two   *)
(* prices stored beside it, and the asset is available exactly when both   *)
(* were finalized: neither price changes after the return was computed.    *)
(***************************************************************************)
ReturnMatchesPrices ==
    /\ available <=> finalized = Phases
    /\ available => returnQ9 = ReturnQ9(price["Start"], price["End"])

(***************************************************************************)
(* Once its window is over, an unresolved start phase can always be        *)
(* resolved, one way or the other, by anyone: finalize_price_phase and     *)
(* mark_price_phase_unavailable leave no gap between them.                 *)
(***************************************************************************)
StartPhaseDecidable ==
    ResolutionOpen("Start") /\ Unresolved("Start") =>
        \/ \E S \in SUBSET Attestors : CanFinalizeStart(S)
        \/ CanMarkPricePhaseUnavailable("Start")

(***************************************************************************)
(* A resolved phase keeps its verdict and its price for ever: a retried or *)
(* late finalization never replaces them.                                  *)
(***************************************************************************)
ResolutionIsFinal ==
    [][\A p \in Phases :
          /\ p \in finalized => p \in finalized' /\ price'[p] = price[p]
          /\ p \in unavailable => p \in unavailable' /\ p \notin finalized'
      ]_vars

(***************************************************************************)
(* The reports, prices and clock of one asset implement the abstract       *)
(* promise: each phase resolved once, after its window, on the evidence    *)
(* the window left behind.                                                 *)
(***************************************************************************)
StatusOf(p) ==
    IF p \in finalized THEN "Finalized"
    ELSE IF p \in unavailable THEN "Unavailable" ELSE "Open"

Abstract == INSTANCE AssetResolution WITH
    closed <- {p \in Phases : ResolutionOpen(p)},
    quorum <- {p \in Phases : HasQuorum(reports[p])},
    status <- [p \in Phases |-> StatusOf(p)]

ImplementsAssetResolution == Abstract!Spec

(***************************************************************************)
(* "The deterministic report subset selected by on-chain quorum            *)
(* finalization" (protocol/src/lib.rs): the finalized price is the one     *)
(* that the selection rule yields on the reports of the phase.             *)
(***************************************************************************)
FinalizedPriceIsCanonical ==
    \A p \in finalized : price[p] = QuorumPrice(reports[p])

=============================================================================
