---------------------------- MODULE PricePathProofs ----------------------------
(***************************************************************************)
(* Proofs about the price path of one asset, at both of its ends.          *)
(*                                                                         *)
(* Program, for any attestor set, prices, spread bound, windows and clock: *)
(* everything rests on three facts. Evidence is monotone: whatever quorum  *)
(* a finalizer sees in the reports it supplies exists among all reports,   *)
(* and a new report never destroys a quorum. Evidence is settled when a    *)
(* verdict is given: a resolved phase is past its submission deadline. And *)
(* the selection always selects a price between two reports.               *)
(*                                                                         *)
(* Process, whatever its crashes, its reruns and the evidence they add: it *)
(* contradicts no report of its own, and every report it signed can be     *)
(* made again from its evidence file.                                      *)
(***************************************************************************)
EXTENDS PriceSettlement, AttestorWorker, SelectionProofs, SequenceTheorems

-----------------------------------------------------------------------------
LEMMA DeadlineIsInteger ==
    /\ \A p \in Phases : Deadline(p) \in Int /\ WindowEnd(p) \in Int
    /\ Deadline("Start") < Deadline("End")
    BY TimingAssumption DEF Phases, Deadline, WindowEnd, Target

(***************************************************************************)
(* The inductive invariant. The verdicts agree with the evidence because   *)
(* they are given after the deadline, when no report changes any more; the *)
(* return agrees with the prices because an end price is only set once the *)
(* start price is there, and a resolved phase is never touched again; its  *)
(* price stays between two reports because these are never touched either. *)
(***************************************************************************)
ResolvedAfterDeadline == \A p \in finalized \cup unavailable : ResolutionOpen(p)

Inv ==
    /\ TypeOK
    /\ ResolvedAfterDeadline
    /\ VerdictMatchesEvidence
    /\ finalized \cap unavailable = {}
    /\ "End" \in finalized => "Start" \in finalized
    /\ ReturnMatchesPrices
    /\ PriceBackedByTwoAttestors

LEMMA InitInv == Init => Inv
<1> SUFFICES ASSUME Init PROVE Inv
    OBVIOUS
<1>1. TypeOK
    <2>1. 0 \in (-MaxReturn - 1)..MaxReturn
        BY ReturnAssumption
    <2>2. now \in 0..MaxTime
        BY TimingAssumption DEF Init
    <2> QED
        BY <2>1, <2>2 DEF Init, TypeOK, Reports
<1>2. Phases # {}
    BY DEF Phases
<1> QED
    BY <1>1, <1>2 DEF Init, Inv, ResolvedAfterDeadline, VerdictMatchesEvidence,
                      ReturnMatchesPrices, PriceBackedByTwoAttestors

LEMMA TypeStep == TypeOK /\ [Next]_vars => TypeOK'
<1> SUFFICES ASSUME TypeOK, [Next]_vars PROVE TypeOK'
    OBVIOUS
<1> USE DEF TypeOK
<1>1. CASE Tick
    BY <1>1, TimingAssumption DEF Tick, assetVars
<1>2. ASSUME NEW p \in Phases, NEW a \in Attestors, NEW q \in Prices,
             SubmitPriceAttestation(p, a, q)
      PROVE  TypeOK'
    BY <1>2 DEF SubmitPriceAttestation, assetVars, Reports
<1>3. ASSUME NEW S \in SUBSET Attestors, FinalizeStart(S)
      PROVE  TypeOK'
    BY <1>3 DEF FinalizeStart, CanFinalizeStart, Phases
<1>4. ASSUME NEW S \in SUBSET Attestors, FinalizeEnd(S)
      PROVE  TypeOK'
    BY <1>4 DEF FinalizeEnd, Phases, ReturnFits
<1>5. ASSUME NEW p \in Phases, MarkPricePhaseUnavailable(p)
      PROVE  TypeOK'
    BY <1>5 DEF MarkPricePhaseUnavailable, CanMarkPricePhaseUnavailable
<1>6. CASE UNCHANGED vars
    BY <1>6 DEF vars
<1> QED
    BY <1>1, <1>2, <1>3, <1>4, <1>5, <1>6 DEF Next

(***************************************************************************)
(* The part of the invariant that is about resolved phases is undisturbed  *)
(* by time, by reports and by the resolution of the other phase.           *)
(***************************************************************************)
LEMMA EvidenceStep ==
    ASSUME Inv, [Next]_vars, TypeOK'
    PROVE  /\ ResolvedAfterDeadline'
           /\ VerdictMatchesEvidence'
           /\ (finalized \cap unavailable = {})'
           /\ ("End" \in finalized => "Start" \in finalized)'
<1> DEFINE Goal == /\ ResolvedAfterDeadline'
                   /\ VerdictMatchesEvidence'
                   /\ (finalized \cap unavailable = {})'
                   /\ ("End" \in finalized => "Start" \in finalized)'
<1> USE DEF Inv
<1>1. CASE Tick
    <2>1. now \in Int /\ now' = now + 1
        BY <1>1 DEF Tick, TypeOK
    <2>2. ResolvedAfterDeadline'
        BY <1>1, <2>1, DeadlineIsInteger
        DEF Tick, assetVars, ResolvedAfterDeadline, ResolutionOpen, TypeOK
    <2> QED
        BY <1>1, <2>2 DEF Tick, assetVars, VerdictMatchesEvidence
<1>2. ASSUME NEW p \in Phases, NEW a \in Attestors, NEW q \in Prices,
             SubmitPriceAttestation(p, a, q)
      PROVE  Goal
    <2>1. p \notin finalized \cup unavailable
        BY <1>2, DeadlineIsInteger
        DEF SubmitPriceAttestation, SubmissionOpen, ResolvedAfterDeadline,
            ResolutionOpen, TypeOK
    <2>2. \A o \in Phases \ {p} : reports'[o] = reports[o]
        BY <1>2 DEF SubmitPriceAttestation, TypeOK
    <2>3. VerdictMatchesEvidence'
        BY <1>2, <2>1, <2>2
        DEF SubmitPriceAttestation, assetVars, VerdictMatchesEvidence, TypeOK
    <2> QED
        BY <1>2, <2>3
        DEF SubmitPriceAttestation, assetVars, ResolvedAfterDeadline, ResolutionOpen
<1>3. ASSUME NEW S \in SUBSET Attestors, FinalizeStart(S)
      PROVE  Goal
    <2>1. HasQuorum(reports["Start"])
        BY <1>3, SuppliedQuorumExists DEF FinalizeStart, CanFinalizeStart
    <2> QED
        BY <1>3, <2>1
        DEF FinalizeStart, CanFinalizeStart, Unresolved, ResolvedAfterDeadline,
            ResolutionOpen,
            VerdictMatchesEvidence
<1>4. ASSUME NEW S \in SUBSET Attestors, FinalizeEnd(S)
      PROVE  Goal
    <2>1. HasQuorum(reports["End"])
        BY <1>4, SuppliedQuorumExists DEF FinalizeEnd
    <2> QED
        BY <1>4, <2>1
        DEF FinalizeEnd, Unresolved, ResolvedAfterDeadline, ResolutionOpen,
            VerdictMatchesEvidence
<1>5. ASSUME NEW p \in Phases, MarkPricePhaseUnavailable(p)
      PROVE  Goal
    BY <1>5
    DEF MarkPricePhaseUnavailable, CanMarkPricePhaseUnavailable, Unresolved,
        ShownWithoutQuorum,
        ResolvedAfterDeadline, ResolutionOpen, VerdictMatchesEvidence
<1>6. CASE UNCHANGED vars
    BY <1>6 DEF vars, ResolvedAfterDeadline, ResolutionOpen, VerdictMatchesEvidence
<1> QED
    BY <1>1, <1>2, <1>3, <1>4, <1>5, <1>6 DEF Next

(***************************************************************************)
(* The return is computed from both prices at once and neither changes     *)
(* after that.                                                             *)
(***************************************************************************)
LEMMA ReturnStep ==
    ASSUME Inv, [Next]_vars, TypeOK'
    PROVE  ReturnMatchesPrices'
<1> USE DEF Inv, ReturnMatchesPrices
<1>1. CASE Tick
    BY <1>1 DEF Tick, assetVars
<1>2. ASSUME NEW p \in Phases, NEW a \in Attestors, NEW q \in Prices,
             SubmitPriceAttestation(p, a, q)
      PROVE  ReturnMatchesPrices'
    BY <1>2 DEF SubmitPriceAttestation, assetVars
<1>3. ASSUME NEW S \in SUBSET Attestors, FinalizeStart(S)
      PROVE  ReturnMatchesPrices'
    <2>1. "End" \notin finalized /\ "End" \notin finalized'
        BY <1>3 DEF FinalizeStart, CanFinalizeStart, Unresolved
    <2>2. finalized # Phases /\ finalized' # Phases
        BY <2>1 DEF Phases
    <2>3. available' = (available \/ "End" \in finalized)
        BY <1>3 DEF FinalizeStart, CanFinalizeStart
    <2>4. ~ available'
        BY <2>1, <2>2, <2>3
    <2> QED
        BY <2>2, <2>4
<1>4. ASSUME NEW S \in SUBSET Attestors, FinalizeEnd(S)
      PROVE  ReturnMatchesPrices'
    <2>1. price'["Start"] = price["Start"]
        BY <1>4 DEF FinalizeEnd, TypeOK, Phases
    <2>2. price'["End"] = QuorumPrice(Supplied(reports["End"], S))
        BY <1>4 DEF FinalizeEnd, TypeOK, Phases
    <2>3. returnQ9' = ReturnQ9(price["Start"], QuorumPrice(Supplied(reports["End"], S)))
        BY <1>4 DEF FinalizeEnd
    <2>4. finalized' = Phases /\ available' = TRUE
        BY <1>4 DEF FinalizeEnd, TypeOK, Phases
    <2> QED
        BY <2>1, <2>2, <2>3, <2>4
<1>5. ASSUME NEW p \in Phases, MarkPricePhaseUnavailable(p)
      PROVE  ReturnMatchesPrices'
    BY <1>5 DEF MarkPricePhaseUnavailable, CanMarkPricePhaseUnavailable, Unresolved
<1>6. CASE UNCHANGED vars
    BY <1>6 DEF vars
<1> QED
    BY <1>1, <1>2, <1>3, <1>4, <1>5, <1>6 DEF Next

(***************************************************************************)
(* The price of whatever reports a finalizer supplies is backed by two     *)
(* attestors among all the reports of the phase.                           *)
(***************************************************************************)
LEMMA SuppliedPriceIsBacked ==
    ASSUME NEW r \in Reports, NEW S, HasQuorum(Supplied(r, S))
    PROVE  \E a, b \in Reporters(r) :
               /\ a # b
               /\ r[a] <= QuorumPrice(Supplied(r, S))
               /\ QuorumPrice(Supplied(r, S)) <= r[b]
               /\ SpreadBps(r, {a, b}) <= MaxSpreadBps
<1> DEFINE seen == Supplied(r, S)
           best == BestQuorum(seen)
<1>1. seen \in ReportFunctions
    <2>1. NoReport \in Nat /\ Prices \subseteq Nat
        BY PricesAssumption DEF NoReport
    <2>2. \A a \in Attestors : r[a] \in Nat
        BY <2>1 DEF Reports
    <2> QED BY <2>1, <2>2 DEF Supplied, ReportFunctions
<1>2. best \in CompatibleSets(seen) /\ QuorumPrice(seen) = PriceOf(seen, best)
    BY <1>1, SelectionIsDeterministic DEF QuorumPrice
<1>3. PICK a, b \in best :
          /\ a # b
          /\ seen[a] <= QuorumPrice(seen) /\ QuorumPrice(seen) <= seen[b]
          /\ SpreadBps(seen, {a, b}) <= MaxSpreadBps
    <2> HIDE DEF seen, best
    <2> QED BY <1>1, <1>2, QuorumPriceIsBacked
<1>4. \A x \in best : x \in Reporters(r) /\ seen[x] = r[x]
    BY <1>2 DEF CompatibleSets, Reporters, Supplied
<1>5. SpreadBps(r, {a, b}) = SpreadBps(seen, {a, b})
    <2>1. \A x \in {a, b} : r[x] = seen[x]
        BY <1>3, <1>4
    <2> HIDE DEF seen
    <2> QED BY <2>1, SameReportsSameVerdict
<1> QED BY <1>3, <1>4, <1>5

(***************************************************************************)
(* A finalized price and the reports behind it stay as they are.           *)
(***************************************************************************)
LEMMA BackedStep ==
    ASSUME Inv, [Next]_vars, TypeOK'
    PROVE  PriceBackedByTwoAttestors'
<1> DEFINE Backed(r, q) ==
        \E a, b \in Reporters(r) :
            /\ a # b
            /\ r[a] <= q /\ q <= r[b]
            /\ SpreadBps(r, {a, b}) <= MaxSpreadBps
<1>1. PriceBackedByTwoAttestors <=> \A p \in finalized : Backed(reports[p], price[p])
    BY DEF PriceBackedByTwoAttestors
<1>2. PriceBackedByTwoAttestors' <=> \A p \in finalized' : Backed(reports'[p], price'[p])
    BY DEF PriceBackedByTwoAttestors
<1>3. ASSUME NEW p \in Phases, NEW S, HasQuorum(Supplied(reports[p], S))
      PROVE  Backed(reports[p], QuorumPrice(Supplied(reports[p], S)))
    <2>1. reports[p] \in Reports
        BY DEF Inv, TypeOK
    <2> QED BY <1>3, <2>1, SuppliedPriceIsBacked
<1> USE DEF Inv
<1> HIDE DEF Backed
<1>4. CASE Tick
    BY <1>1, <1>2, <1>4 DEF Tick, assetVars
<1>5. ASSUME NEW p \in Phases, NEW a \in Attestors, NEW q \in Prices,
             SubmitPriceAttestation(p, a, q)
      PROVE  PriceBackedByTwoAttestors'
    <2>1. p \notin finalized
        BY <1>5, DeadlineIsInteger
        DEF SubmitPriceAttestation, SubmissionOpen, ResolvedAfterDeadline,
            ResolutionOpen, TypeOK
    <2>2. \A o \in Phases \ {p} : reports'[o] = reports[o]
        BY <1>5 DEF SubmitPriceAttestation, TypeOK
    <2>3. finalized' = finalized /\ price' = price /\ finalized \subseteq Phases
        BY <1>5 DEF SubmitPriceAttestation, assetVars, TypeOK
    <2> QED
        BY <1>1, <1>2, <2>1, <2>2, <2>3
<1>6. ASSUME NEW S \in SUBSET Attestors, FinalizeStart(S)
      PROVE  PriceBackedByTwoAttestors'
    <2>1. /\ finalized' = finalized \cup {"Start"} /\ reports' = reports
          /\ price'["Start"] = QuorumPrice(Supplied(reports["Start"], S))
          /\ \A p \in Phases \ {"Start"} : price'[p] = price[p]
          /\ HasQuorum(Supplied(reports["Start"], S))
        BY <1>6 DEF FinalizeStart, CanFinalizeStart, TypeOK, Phases
    <2>2. Backed(reports["Start"], price'["Start"])
        BY <1>3, <2>1 DEF Phases
    <2> QED
        BY <1>1, <1>2, <2>1, <2>2 DEF TypeOK
<1>7. ASSUME NEW S \in SUBSET Attestors, FinalizeEnd(S)
      PROVE  PriceBackedByTwoAttestors'
    <2>1. /\ finalized' = finalized \cup {"End"} /\ reports' = reports
          /\ price'["End"] = QuorumPrice(Supplied(reports["End"], S))
          /\ \A p \in Phases \ {"End"} : price'[p] = price[p]
          /\ HasQuorum(Supplied(reports["End"], S))
        BY <1>7 DEF FinalizeEnd, TypeOK, Phases
    <2>2. Backed(reports["End"], price'["End"])
        BY <1>3, <2>1 DEF Phases
    <2> QED
        BY <1>1, <1>2, <2>1, <2>2 DEF TypeOK
<1>8. ASSUME NEW p \in Phases, MarkPricePhaseUnavailable(p)
      PROVE  PriceBackedByTwoAttestors'
    BY <1>1, <1>2, <1>8 DEF MarkPricePhaseUnavailable, CanMarkPricePhaseUnavailable
<1>9. CASE UNCHANGED vars
    BY <1>1, <1>2, <1>9 DEF vars
<1> QED
    BY <1>4, <1>5, <1>6, <1>7, <1>8, <1>9 DEF Next

LEMMA InvStep == Inv /\ [Next]_vars => Inv'
<1> SUFFICES ASSUME Inv, [Next]_vars PROVE Inv'
    OBVIOUS
<1>1. TypeOK'
    BY TypeStep DEF Inv
<1> QED
    BY <1>1, EvidenceStep, ReturnStep, BackedStep DEF Inv

(***************************************************************************)
(* Type correctness of the price path, the range of the return included.   *)
(***************************************************************************)
THEOREM TypeCorrect == Spec => []TypeOK
<1>1. Init => TypeOK
    BY InitInv DEF Inv
<1> QED
    BY <1>1, TypeStep, PTL DEF Spec

THEOREM InvHolds == Spec => []Inv
    BY InitInv, InvStep, PTL DEF Spec

(***************************************************************************)
(* A verdict of price.rs agrees with all the reports on chain, whichever   *)
(* of them its resolver supplied.                                          *)
(***************************************************************************)
THEOREM VerdictsAgreeWithEvidence == Spec => []VerdictMatchesEvidence
<1>1. Inv => VerdictMatchesEvidence
    BY DEF Inv
<1> QED
    BY <1>1, InvHolds, PTL

(***************************************************************************)
(* The stored return is always that of the stored prices, and an asset is  *)
(* available exactly when both of its phases are finalized.                *)
(***************************************************************************)
THEOREM ReturnsAgreeWithPrices == Spec => []ReturnMatchesPrices
<1>1. Inv => ReturnMatchesPrices
    BY DEF Inv
<1> QED
    BY <1>1, InvHolds, PTL

(***************************************************************************)
(* A finalized price lies between the reports of two different attestors   *)
(* that agree within the spread, whatever subset of the reports the        *)
(* finalizer supplied and whichever attestors and prices there are.        *)
(***************************************************************************)
THEOREM PricesAreBacked == Spec => []PriceBackedByTwoAttestors
<1>1. Inv => PriceBackedByTwoAttestors
    BY DEF Inv
<1> QED
    BY <1>1, InvHolds, PTL

(***************************************************************************)
(* The two resolutions leave no gap: a phase whose window is over is shown *)
(* without a quorum, or has one that a finalizer of all reports supplies.  *)
(***************************************************************************)
LEMMA AllSuppliedAreAll ==
    ASSUME NEW p \in Phases, TypeOK
    PROVE  Supplied(reports[p], Attestors) = reports[p]
<1>1. reports[p] \in [Attestors -> Prices \cup {NoReport}]
    BY DEF TypeOK, Reports
<1>2. \A a \in Attestors : reports[p][a] = IF a \in Attestors THEN reports[p][a]
                                                            ELSE NoReport
    OBVIOUS
<1> QED
    BY <1>1, <1>2 DEF Supplied

THEOREM StartPhasesAreDecidable == Spec => []StartPhaseDecidable
<1>1. TypeOK => StartPhaseDecidable
    <2> SUFFICES ASSUME TypeOK, ResolutionOpen("Start"), Unresolved("Start"),
                        ~ CanMarkPricePhaseUnavailable("Start")
                 PROVE  \E S \in SUBSET Attestors : CanFinalizeStart(S)
        BY DEF StartPhaseDecidable
    <2>1. HasQuorum(reports["Start"])
        BY DEF CanMarkPricePhaseUnavailable, ShownWithoutQuorum
    <2>2. Supplied(reports["Start"], Attestors) = reports["Start"]
        BY AllSuppliedAreAll DEF Phases
    <2>3. CanFinalizeStart(Attestors)
        BY <2>1, <2>2 DEF CanFinalizeStart
    <2> QED
        BY <2>3
<1> QED
    BY <1>1, TypeCorrect, PTL

(***************************************************************************)
(* No late, retried or competing resolution replaces a verdict.            *)
(***************************************************************************)
THEOREM VerdictsAreFinal == Spec => ResolutionIsFinal
<1> DEFINE Kept == \A p \in Phases :
          /\ p \in finalized => p \in finalized' /\ price'[p] = price[p]
          /\ p \in unavailable => p \in unavailable' /\ p \notin finalized'
<1>1. Inv /\ [Next]_vars => [Kept]_vars
    <2> SUFFICES ASSUME Inv, Next PROVE Kept
        OBVIOUS
    <2> USE DEF Inv, TypeOK
    <2>1. CASE Tick
        BY <2>1 DEF Tick, assetVars
    <2>2. ASSUME NEW p \in Phases, NEW a \in Attestors, NEW q \in Prices,
                 SubmitPriceAttestation(p, a, q)
          PROVE  Kept
        BY <2>2 DEF SubmitPriceAttestation, assetVars
    <2>3. ASSUME NEW S \in SUBSET Attestors, FinalizeStart(S)
          PROVE  Kept
        BY <2>3 DEF FinalizeStart, CanFinalizeStart, Unresolved
    <2>4. ASSUME NEW S \in SUBSET Attestors, FinalizeEnd(S)
          PROVE  Kept
        BY <2>4 DEF FinalizeEnd, Unresolved
    <2>5. ASSUME NEW p \in Phases, MarkPricePhaseUnavailable(p)
          PROVE  Kept
        BY <2>5 DEF MarkPricePhaseUnavailable, CanMarkPricePhaseUnavailable, Unresolved
    <2> QED
        BY <2>1, <2>2, <2>3, <2>4, <2>5 DEF Next
<1> QED
    BY <1>1, InvHolds, PTL DEF Spec, ResolutionIsFinal

-----------------------------------------------------------------------------
(***************************************************************************)
(* The refinement. Time closes one window at a time, as the start deadline *)
(* comes first; a report adds a quorum or stutters; a resolution is the    *)
(* abstract one on the phases that are closed.                             *)
(***************************************************************************)
Closed == {p \in Phases : ResolutionOpen(p)}
WithQuorum == {p \in Phases : HasQuorum(reports[p])}
Statuses == [p \in Phases |-> StatusOf(p)]

LEMMA AbstractInit == Init => Abstract!Init
<1> SUFFICES ASSUME Init PROVE Abstract!Init
    OBVIOUS
<1>1. Closed = {}
    BY DeadlineIsInteger, TimingAssumption
    DEF Init, Closed, ResolutionOpen, Phases, Deadline, WindowEnd, Target
<1>2. WithQuorum = {}
    BY NoQuorumOfNothing DEF Init, WithQuorum
<1>3. Statuses = [p \in Phases |-> "Open"]
    BY DEF Init, Statuses, StatusOf
<1> QED
    BY <1>1, <1>2, <1>3 DEF Abstract!Init, Abstract!Phases, Closed, WithQuorum, Statuses,
                            Phases

LEMMA AbstractStep ==
    ASSUME Inv, [Next]_vars
    PROVE  [Abstract!Next]_(Abstract!vars)
<1> DEFINE Simulates == [Abstract!Next]_(Abstract!vars)
<1> USE DEF Inv, TypeOK
<1>0. /\ Closed = {p \in Phases : ResolutionOpen(p)}
      /\ Phases = Abstract!Phases
    BY DEF Closed, Phases, Abstract!Phases
<1>1. CASE Tick
    <2>1. WithQuorum' = WithQuorum /\ Statuses' = Statuses
        BY <1>1 DEF Tick, assetVars, WithQuorum, Statuses, StatusOf
    <2>2. CASE Closed' = Closed
        BY <2>1, <2>2 DEF Abstract!vars, Closed, WithQuorum, Statuses
    <2>3. CASE Closed' # Closed
        <3>1. now \in Int /\ now' = now + 1
            BY <1>1 DEF Tick
        <3>2. PICK p \in Phases : p \notin Closed /\ Closed' = Closed \cup {p}
            BY <2>3, <3>1, DeadlineIsInteger DEF Closed, ResolutionOpen, Phases
        <3>3. p = "End" => "Start" \in Closed
            BY <3>1, <3>2, DeadlineIsInteger DEF Closed, ResolutionOpen, Phases
        <3>4. Abstract!CloseWindow(p)
            BY <2>1, <3>2, <3>3 DEF Abstract!CloseWindow, Closed, WithQuorum, Statuses
        <3> QED
            BY <1>0, <3>4 DEF Abstract!Next
    <2> QED
        BY <2>2, <2>3
<1>2. ASSUME NEW p \in Phases, NEW a \in Attestors, NEW q \in Prices,
             SubmitPriceAttestation(p, a, q)
      PROVE  Simulates
    <2>1. Closed' = Closed /\ Statuses' = Statuses
        BY <1>2 DEF SubmitPriceAttestation, assetVars, Closed, ResolutionOpen,
                    Statuses, StatusOf
    <2>2. p \notin Closed
        BY <1>2, DeadlineIsInteger
        DEF SubmitPriceAttestation, SubmissionOpen, Closed, ResolutionOpen
    <2>3. \A o \in Phases \ {p} : reports'[o] = reports[o]
        BY <1>2 DEF SubmitPriceAttestation
    <2>4. HasQuorum(reports[p]) => HasQuorum(reports'[p])
        <3>1. \A b \in Attestors : reports[p][b] # NoReport => reports'[p][b] = reports[p][b]
            BY <1>2 DEF SubmitPriceAttestation, Reports
        <3> QED
            BY <3>1, QuorumIsMonotone
    <2>5. CASE HasQuorum(reports[p]) \/ ~ HasQuorum(reports'[p])
        <3>1. WithQuorum' = WithQuorum
            BY <2>3, <2>4, <2>5 DEF WithQuorum
        <3> QED
            BY <2>1, <3>1 DEF Abstract!vars, Closed, WithQuorum, Statuses
    <2>6. CASE ~ HasQuorum(reports[p]) /\ HasQuorum(reports'[p])
        <3>1. p \notin WithQuorum /\ WithQuorum' = WithQuorum \cup {p}
            BY <2>3, <2>6 DEF WithQuorum
        <3>2. Abstract!GatherQuorum(p)
            BY <2>1, <2>2, <3>1
            DEF Abstract!GatherQuorum, Closed, WithQuorum, Statuses
        <3> QED
            BY <1>0, <3>2 DEF Abstract!Next
    <2> QED
        BY <2>5, <2>6
<1>3. ASSUME NEW S \in SUBSET Attestors, FinalizeStart(S)
      PROVE  Simulates
    <2>1. Closed' = Closed /\ WithQuorum' = WithQuorum
        BY <1>3 DEF FinalizeStart, CanFinalizeStart, Closed, ResolutionOpen, WithQuorum
    <2>2. "Start" \in Closed /\ "Start" \in WithQuorum
        BY <1>3, SuppliedQuorumExists DEF FinalizeStart, CanFinalizeStart, Closed,
                                          WithQuorum, Phases
    <2>3. /\ Statuses["Start"] = "Open"
          /\ Statuses' = [Statuses EXCEPT !["Start"] = "Finalized"]
        BY <1>3 DEF FinalizeStart, CanFinalizeStart, Unresolved, Statuses, StatusOf, Phases
    <2>4. Abstract!Finalize("Start")
        BY <2>1, <2>2, <2>3 DEF Abstract!Finalize, Closed, WithQuorum, Statuses
    <2> QED
        BY <2>4 DEF Abstract!Next, Abstract!Phases
<1>4. ASSUME NEW S \in SUBSET Attestors, FinalizeEnd(S)
      PROVE  Simulates
    <2>1. Closed' = Closed /\ WithQuorum' = WithQuorum
        BY <1>4 DEF FinalizeEnd, Closed, ResolutionOpen, WithQuorum
    <2>2. "End" \in Closed /\ "End" \in WithQuorum
        BY <1>4, SuppliedQuorumExists DEF FinalizeEnd, Closed, WithQuorum, Phases
    <2>3. /\ Statuses["End"] = "Open" /\ Statuses["Start"] = "Finalized"
          /\ Statuses' = [Statuses EXCEPT !["End"] = "Finalized"]
        BY <1>4 DEF FinalizeEnd, Unresolved, Statuses, StatusOf, Phases
    <2>4. Abstract!Finalize("End")
        BY <2>1, <2>2, <2>3 DEF Abstract!Finalize, Closed, WithQuorum, Statuses
    <2> QED
        BY <2>4 DEF Abstract!Next, Abstract!Phases
<1>5. ASSUME NEW p \in Phases, MarkPricePhaseUnavailable(p)
      PROVE  Simulates
    <2>1. Closed' = Closed /\ WithQuorum' = WithQuorum
        BY <1>5 DEF MarkPricePhaseUnavailable, CanMarkPricePhaseUnavailable, Closed,
                    ResolutionOpen, WithQuorum
    <2>2. p \in Closed /\ p \notin WithQuorum
        BY <1>5 DEF MarkPricePhaseUnavailable, CanMarkPricePhaseUnavailable,
                    ShownWithoutQuorum, Closed, WithQuorum
    <2>3. /\ Statuses[p] = "Open"
          /\ Statuses' = [Statuses EXCEPT ![p] = "Unavailable"]
        BY <1>5 DEF MarkPricePhaseUnavailable, CanMarkPricePhaseUnavailable, Unresolved,
                    Statuses, StatusOf
    <2>4. Abstract!MarkUnavailable(p)
        BY <2>1, <2>2, <2>3 DEF Abstract!MarkUnavailable, Closed, WithQuorum, Statuses
    <2> QED
        BY <1>0, <2>4 DEF Abstract!Next
<1>6. CASE UNCHANGED vars
    BY <1>6 DEF vars, Abstract!vars, ResolutionOpen, StatusOf
<1> QED
    BY <1>1, <1>2, <1>3, <1>4, <1>5, <1>6 DEF Next

(***************************************************************************)
(* price.rs keeps the promise of AssetResolution: each phase is resolved   *)
(* once, after its window, on the evidence the window left behind.         *)
(***************************************************************************)
THEOREM PricePathImplementsAssetResolution == Spec => ImplementsAssetResolution
<1>1. Inv /\ [Next]_vars => [Abstract!Next]_(Abstract!vars)
    BY AbstractStep
<1> QED
    BY <1>1, AbstractInit, InvHolds, PTL DEF Spec, ImplementsAssetResolution, Abstract!Spec

-----------------------------------------------------------------------------
\* What the two files are: sequences that only grow at their end.
FilesAreLogs ==
    /\ \E S : evidence \in Seq(S)
    /\ \E S : signed \in Seq(S)
    /\ DOMAIN relayed = RoundAssets

LEMMA AppendedLog ==
    ASSUME NEW s, NEW x, \E S : s \in Seq(S)
    PROVE  /\ \E S : Append(s, x) \in Seq(S)
           /\ Len(Append(s, x)) = Len(s) + 1
           /\ Len(s) \in Nat /\ DOMAIN s = 1..Len(s)
           /\ DOMAIN Append(s, x) = 1..(Len(s) + 1)
           /\ \A i \in 1..Len(s) : Append(s, x)[i] = s[i]
           /\ Append(s, x)[Len(s) + 1] = x
           /\ ToSet(Append(s, x)) = ToSet(s) \cup {x}
<1>1. PICK S : s \in Seq(S)
    OBVIOUS
<1>2. s \in Seq(S \cup {x})
    BY <1>1, SeqMonotonic
<1>3. /\ Append(s, x) \in Seq(S \cup {x})
      /\ Len(Append(s, x)) = Len(s) + 1
      /\ \A i \in 1..Len(s) : Append(s, x)[i] = s[i]
      /\ Append(s, x)[Len(s) + 1] = x
    BY <1>2, AppendProperties
<1>4. Len(s) \in Nat /\ DOMAIN s = 1..Len(s) /\ DOMAIN Append(s, x) = 1..(Len(s) + 1)
    BY <1>2, <1>3, LenProperties
<1>5. ToSet(Append(s, x)) = ToSet(s) \cup {x}
    BY <1>3, <1>4 DEF ToSet
<1> QED
    BY <1>3, <1>4, <1>5

LEMMA PrefixOfAppended ==
    ASSUME NEW s, NEW x, \E S : s \in Seq(S), NEW n \in 1..Len(s)
    PROVE  SubSeq(Append(s, x), 1, n) = SubSeq(s, 1, n)
<1>1. PICK S : s \in Seq(S)
    OBVIOUS
<1>2. s \in Seq(S \cup {x}) /\ Append(s, x) \in Seq(S \cup {x})
    BY <1>1, SeqMonotonic, AppendProperties
<1>3. /\ Len(s) \in Nat /\ Len(Append(s, x)) = Len(s) + 1
      /\ \A i \in 1..Len(s) : Append(s, x)[i] = s[i]
    BY <1>2, AppendProperties, LenProperties
<1> QED
    BY <1>2, <1>3, SubSeqProperties

LEMMA WholeLog ==
    ASSUME NEW s, \E S : s \in Seq(S)
    PROVE  SubSeq(s, 1, Len(s)) = s
    BY SubSeqFull

LEMMA InitLogs == WorkerInit => FilesAreLogs
<1>1. <<>> \in Seq({})
    OBVIOUS
<1> QED
    BY <1>1 DEF WorkerInit, FilesAreLogs

\* How a step may change the evidence and the reports.
EvidenceGrows ==
    \/ evidence' = evidence
    \/ \E x : evidence' = Append(evidence, x)

ReportIsNew ==
    /\ Reportable(toReport, evidence)
    /\ Earlier(Report(toReport, evidence)) = {}
    /\ signed' = Append(signed, Report(toReport, evidence))
    /\ evidence' = evidence
    /\ relayed' = relayed

ReportsGrow == signed' = signed \/ ReportIsNew

ReportsRelayed ==
    \/ relayed' = relayed
    \/ \E r \in ToSet(signed) :
           relayed' = [relayed EXCEPT ![r.asset] = r] /\ signed' = signed

LEMMA StepsOfTheWorker ==
    [WorkerNext]_workerVars => EvidenceGrows /\ ReportsGrow /\ ReportsRelayed
<1> SUFFICES ASSUME [WorkerNext]_workerVars
             PROVE  EvidenceGrows /\ ReportsGrow /\ ReportsRelayed
    OBVIOUS
<1> USE DEF EvidenceGrows, ReportsGrow, ReportsRelayed, evidenceVars, reportVars
<1>1. CASE UNCHANGED workerVars
    BY <1>1 DEF workerVars
<1>2. CASE TickSlot
    BY <1>2 DEF TickSlot
<1>3. CASE StartRun
    BY <1>3 DEF StartRun, KeptOnOpen
<1>4. CASE BeginPoll
    BY <1>4 DEF BeginPoll
<1>5. CASE RecordAnswer
    <2>1. PICK record : evidence' = Append1(evidence, evidenceFile, record)
        BY <1>5 DEF RecordAnswer
    <2> QED
        BY <1>5, <2>1 DEF RecordAnswer, Append1
<1>6. CASE EndCollection
    BY <1>6 DEF EndCollection
<1>7. CASE EmitReport
    BY <1>7 DEF EmitReport, Append1, ReportIsNew
<1>8. CASE KeepReport
    BY <1>8 DEF KeepReport
<1>9. CASE FailReport
    BY <1>9 DEF FailReport
<1>10. CASE CrashBetween
    BY <1>10 DEF CrashBetween
<1>11. CASE CrashInEvidence
    BY <1>11 DEF CrashInEvidence
<1>12. CASE CrashInReport
    BY <1>12 DEF CrashInReport, ReportIsNew
<1>13. CASE \E r \in ToSet(signed) : RelayReport(r)
    BY <1>13 DEF RelayReport, SubmitSignedReport
<1> QED
    BY <1>1, <1>2, <1>3, <1>4, <1>5, <1>6, <1>7, <1>8, <1>9, <1>10, <1>11, <1>12, <1>13
    DEF WorkerNext

LEMMA LogsStep == FilesAreLogs /\ [WorkerNext]_workerVars => FilesAreLogs'
<1> SUFFICES ASSUME FilesAreLogs, [WorkerNext]_workerVars PROVE FilesAreLogs'
    OBVIOUS
<1>1. EvidenceGrows /\ ReportsGrow /\ ReportsRelayed
    BY StepsOfTheWorker
<1>2. \E S : evidence' \in Seq(S)
    <2>1. ASSUME NEW x, evidence' = Append(evidence, x)
          PROVE  \E S : evidence' \in Seq(S)
        <3>1. \E S : Append(evidence, x) \in Seq(S)
            BY AppendedLog DEF FilesAreLogs
        <3> QED
            BY <2>1, <3>1
    <2> QED
        BY <1>1, <2>1 DEF FilesAreLogs, EvidenceGrows
<1>3. \E S : signed' \in Seq(S)
    <2>1. ASSUME NEW x, signed' = Append(signed, x)
          PROVE  \E S : signed' \in Seq(S)
        <3>1. \E S : Append(signed, x) \in Seq(S)
            BY AppendedLog DEF FilesAreLogs
        <3> QED
            BY <2>1, <3>1
    <2> QED
        BY <1>1, <2>1 DEF FilesAreLogs, ReportsGrow, ReportIsNew
<1>4. DOMAIN relayed' = RoundAssets
    BY <1>1 DEF FilesAreLogs, ReportsRelayed
<1> QED
    BY <1>2, <1>3, <1>4 DEF FilesAreLogs

------------------------------------------------------------------------------
LEMMA InitOneStatement == WorkerInit => AttestorNeverContradictsItself
    BY DEF WorkerInit, AttestorNeverContradictsItself

LEMMA OneStatementStep ==
    FilesAreLogs /\ AttestorNeverContradictsItself /\ [WorkerNext]_workerVars
        => AttestorNeverContradictsItself'
<1> SUFFICES ASSUME FilesAreLogs, AttestorNeverContradictsItself, [WorkerNext]_workerVars
             PROVE  AttestorNeverContradictsItself'
    OBVIOUS
<1>1. ReportsGrow /\ ReportsRelayed
    BY StepsOfTheWorker
<1>2. CASE ReportIsNew
    <2> DEFINE r == Report(toReport, evidence)
    <2>1. signed' = Append(signed, r) /\ Earlier(r) = {} /\ relayed' = relayed
        BY <1>2 DEF ReportIsNew
    <2> HIDE DEF r
    <2>2. \A q \in ToSet(signed) : q.asset # r.asset
        BY <2>1 DEF Earlier, SameLogicalReport
    <2>3. /\ Len(signed) \in Nat /\ DOMAIN signed = 1..Len(signed)
          /\ DOMAIN signed' = 1..(Len(signed) + 1)
          /\ \A i \in 1..Len(signed) : signed'[i] = signed[i]
          /\ signed'[Len(signed) + 1] = r
          /\ ToSet(signed') = ToSet(signed) \cup {r}
        BY <2>1, AppendedLog DEF FilesAreLogs
    <2>4. \A i, j \in DOMAIN signed' : signed'[i].asset = signed'[j].asset => i = j
        <3> SUFFICES ASSUME NEW i \in DOMAIN signed', NEW j \in DOMAIN signed',
                            signed'[i].asset = signed'[j].asset
                     PROVE  i = j
            OBVIOUS
        <3>1. \A k \in 1..Len(signed) : signed[k] \in ToSet(signed)
            BY <2>3 DEF ToSet
        <3>2. CASE i \in 1..Len(signed) /\ j \in 1..Len(signed)
            BY <2>3, <3>2 DEF AttestorNeverContradictsItself
        <3>3. CASE i = Len(signed) + 1 /\ j \in 1..Len(signed)
            BY <2>2, <2>3, <3>1, <3>3
        <3>4. CASE i \in 1..Len(signed) /\ j = Len(signed) + 1
            BY <2>2, <2>3, <3>1, <3>4
        <3> QED
            BY <2>3, <3>2, <3>3, <3>4
    <2> QED
        BY <2>1, <2>3, <2>4 DEF AttestorNeverContradictsItself
<1>3. CASE signed' = signed
    <2>1. \A a \in RoundAssets :
              relayed'[a] = relayed[a] \/ relayed'[a] \in ToSet(signed)
        BY <1>1 DEF ReportsRelayed, FilesAreLogs
    <2> QED
        BY <1>3, <2>1 DEF AttestorNeverContradictsItself
<1> QED
    BY <1>1, <1>2, <1>3 DEF ReportsGrow

(***************************************************************************)
(* Whatever the crashes and reruns, the report file of an attestor holds   *)
(* one report per asset, and the program got no other from it.             *)
(***************************************************************************)
THEOREM OneStatementPerAsset == WorkerSpec => []AttestorNeverContradictsItself
<1>1. WorkerInit => FilesAreLogs /\ AttestorNeverContradictsItself
    BY InitLogs, InitOneStatement
<1>2. FilesAreLogs /\ AttestorNeverContradictsItself /\ [WorkerNext]_workerVars
          => (FilesAreLogs /\ AttestorNeverContradictsItself)'
    BY LogsStep, OneStatementStep
<1> QED
    BY <1>1, <1>2, PTL DEF WorkerSpec

------------------------------------------------------------------------------
LEMMA InitReplay == WorkerInit => ReportsReplayFromEvidence
    BY DEF WorkerInit, ReportsReplayFromEvidence, ToSet

\* A report is about the asset that was asked for.
LEMMA ReportNamesItsAsset ==
    ASSUME NEW asset, NEW records
    PROVE  Report(asset, records).asset = asset
    BY DEF Report, CanonicalReport

\* Without a record there is nothing to report.
LEMMA EvidenceNeeded ==
    ASSUME NEW asset, NEW records, \E S : records \in Seq(S), Reportable(asset, records)
    PROVE  Len(records) \in 1..Len(records)
<1>1. PICK S : records \in Seq(S)
    OBVIOUS
<1>2. DOMAIN records # {}
    BY DEF Reportable, BlocksSeen
<1> QED
    BY <1>1, <1>2, LenProperties

LEMMA ReplayStep ==
    FilesAreLogs /\ ReportsReplayFromEvidence /\ [WorkerNext]_workerVars
        => ReportsReplayFromEvidence'
<1> SUFFICES ASSUME FilesAreLogs, ReportsReplayFromEvidence, [WorkerNext]_workerVars
             PROVE  ReportsReplayFromEvidence'
    OBVIOUS
<1> DEFINE Replays(r, records) ==
               \E n \in 1..Len(records) :
                   /\ Reportable(r.asset, SubSeq(records, 1, n))
                   /\ r = Report(r.asset, SubSeq(records, 1, n))
<1>1. EvidenceGrows /\ ReportsGrow
    BY StepsOfTheWorker
<1>2. \A r \in ToSet(signed) : Replays(r, evidence)
    BY DEF ReportsReplayFromEvidence
<1>3. \A r \in ToSet(signed) : Replays(r, evidence')
    <2> SUFFICES ASSUME NEW r \in ToSet(signed) PROVE Replays(r, evidence')
        OBVIOUS
    <2>1. PICK n \in 1..Len(evidence) :
              /\ Reportable(r.asset, SubSeq(evidence, 1, n))
              /\ r = Report(r.asset, SubSeq(evidence, 1, n))
        BY <1>2
    <2>2. CASE evidence' = evidence
        BY <2>1, <2>2
    <2>3. ASSUME NEW x, evidence' = Append(evidence, x)
          PROVE  Replays(r, evidence')
        <3>1. n \in 1..Len(evidence')
            BY <2>3, AppendedLog DEF FilesAreLogs
        <3>2. SubSeq(evidence', 1, n) = SubSeq(evidence, 1, n)
            BY <2>3, PrefixOfAppended DEF FilesAreLogs
        <3> QED
            BY <2>1, <3>1, <3>2
    <2> QED
        BY <1>1, <2>2, <2>3 DEF EvidenceGrows
<1>4. CASE signed' = signed
    BY <1>3, <1>4 DEF ReportsReplayFromEvidence
<1>5. CASE ReportIsNew
    <2> DEFINE new == Report(toReport, evidence)
    <2>1. /\ ToSet(signed') = ToSet(signed) \cup {new}
          /\ evidence' = evidence /\ Reportable(toReport, evidence)
        BY <1>5, AppendedLog DEF FilesAreLogs, ReportIsNew
    <2>2. new.asset = toReport
        BY ReportNamesItsAsset
    <2>3. Len(evidence) \in 1..Len(evidence) /\ SubSeq(evidence, 1,
                                 Len(evidence)) = evidence
        BY <2>1, EvidenceNeeded, WholeLog DEF FilesAreLogs
    <2>4. Replays(new, evidence')
        <3> HIDE DEF new
        <3>1. Reportable(new.asset, SubSeq(evidence', 1, Len(evidence')))
            BY <2>1, <2>2, <2>3
        <3>2. new = Report(new.asset, SubSeq(evidence', 1, Len(evidence')))
            BY <2>1, <2>2, <2>3 DEF new
        <3>3. Len(evidence') \in 1..Len(evidence')
            BY <2>1, <2>3
        <3> QED
            BY <3>1, <3>2, <3>3
    <2> QED
        BY <1>3, <2>1, <2>4 DEF ReportsReplayFromEvidence
<1> QED
    BY <1>1, <1>4, <1>5 DEF ReportsGrow

(***************************************************************************)
(* Every report on file is what some beginning of the evidence file gives, *)
(* so that anyone who holds the file can check it.                         *)
(***************************************************************************)
THEOREM ReportsAreReplayable == WorkerSpec => []ReportsReplayFromEvidence
<1>1. WorkerInit => FilesAreLogs /\ ReportsReplayFromEvidence
    BY InitLogs, InitReplay
<1>2. FilesAreLogs /\ ReportsReplayFromEvidence /\ [WorkerNext]_workerVars
          => (FilesAreLogs /\ ReportsReplayFromEvidence)'
    BY LogsStep, ReplayStep
<1> QED
    BY <1>1, <1>2, PTL DEF WorkerSpec

=============================================================================
