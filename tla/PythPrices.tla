------------------------------ MODULE PythPrices ------------------------------
(***************************************************************************)
(* The price phases of a round that settles from Pyth Pro (pyth.rs). A     *)
(* relayer records one verified reading for an asset and phase; anyone may *)
(* turn it into the price, and anyone may mark a phase unavailable once    *)
(* its tolerance has passed. Neither looks at the state of the round, and  *)
(* a marked phase can still be given its price.                            *)
(*                                                                         *)
(* `quorum` holds the phases whose evidence account exists, `evidence` the *)
(* recorded readings. The publisher signs a reading at its own time, which *)
(* is the one thing assumed of it.                                         *)
(***************************************************************************)
EXTENDS RoundLedger

CONSTANTS
    Readings,           \* what relayers may send
    MicrosPerSecond,
    NoEvidence,
    Q9Digits,           \* the decimals of a settlement price: 9
    MaxShift,           \* the largest power of ten of a conversion: 38
    I64Max,
    MaxPayloadDelta, MaxFeedAge, MaxConfidenceBps

ASSUME PythBoundsAssumption ==
    /\ Q9Digits \in Nat /\ MaxShift \in Nat /\ I64Max \in Nat \ {0}
    /\ MaxPayloadDelta \in Nat \ {0} /\ MaxFeedAge \in Nat \ {0}
    /\ MaxConfidenceBps \in 1..10000

ASSUME PythUnitsAssumption ==
    /\ MicrosPerSecond \in Nat \ {0}
    /\ NoEvidence \notin Readings
    /\ Readings \subseteq [payloadAt : Int, feedAt : Int, price : Int, exponent : Int,
                          confidence : Nat, normalized : Int]

\* The return of a finalized asset is an i64.
ASSUME PythReturnsAssumption == Returns = -(I64Max + 1)..I64Max

-----------------------------------------------------------------------------
(* What a reading must satisfy. Its times are offsets in microseconds from *)
(* the target of its phase; its mantissa and exponent are converted to the *)
(* nine-decimal price that settles the round.                              *)

Magnitude(n) == IF n < 0 THEN -n ELSE n

PowerOfTen(n) == 10 ^ n

CeilDiv(n, d) == (n + d - 1) \div d

\* checked_div rounds toward zero.
QuotientTowardZero(n, d) == IF n >= 0 THEN n \div d ELSE -((-n) \div d)

\* confidence_bps rounds up, so that a ratio above the limit cannot pass.
ConfidenceBps(r) == CeilDiv(r.confidence * 10000, r.price)

\* pyth_mantissa_to_q9: a fraction below the last decimal is dropped.
ToQ9(r) ==
    LET shift == r.exponent + Q9Digits IN
    IF shift >= 0 THEN r.price * PowerOfTen(shift) ELSE r.price \div PowerOfTen(-shift)

ConvertibleToQ9(r) ==
    /\ Magnitude(r.exponent + Q9Digits) <= MaxShift
    /\ ToQ9(r) \in 1..I64Max

FreshReading(r) ==
    /\ Magnitude(r.payloadAt) <= MaxPayloadDelta
    /\ r.feedAt <= r.payloadAt
    /\ r.payloadAt - r.feedAt <= MaxFeedAge

\* validate_pyth_semantics.
ValidReading(r) ==
    /\ FreshReading(r)
    /\ r.price > 0
    /\ ConfidenceBps(r) <= MaxConfidenceBps
    /\ ConvertibleToQ9(r)
    /\ ToQ9(r) = r.normalized

\* return_q9 of two settled prices; it fails when the quotient does not fit.
ReturnOf(start, end) == QuotientTowardZero((end - start) * PowerOfTen(Q9Digits), start)

ReturnFits(start, end) == ReturnOf(start, end) \in -(I64Max + 1)..I64Max

-----------------------------------------------------------------------------
VARIABLE evidence       \* PythPriceEvidence, by asset and phase

InitPythPrices ==
    /\ quorum = [a \in Assets |-> {}]
    /\ finalized = [a \in Assets |-> {}]
    /\ unavailable = [a \in Assets |-> {}]
    /\ returnQ9 = [a \in Assets |-> 0]
    /\ evidence = [a \in Assets |-> [p \in Phases |-> NoEvidence]]

Published(p, r) == now * MicrosPerSecond >= Target(p) * MicrosPerSecond + r.payloadAt

\* The evidence account is created by `init`: a second reading is refused.
SubmitOrRecordPythEvidence(a, p, r) ==
    /\ Published(p, r)
    /\ p \notin quorum[a] \cup finalized[a]
    /\ ValidReading(r)
    /\ evidence' = [evidence EXCEPT ![a][p] = r]
    /\ quorum' = [quorum EXCEPT ![a] = @ \cup {p}]
    /\ UNCHANGED <<now, paused, roundVars, finalized, unavailable, returnQ9, battleVars>>

PriceOf(a, p) == evidence[a][p].normalized

\* Mutated form: the return is taken from the first price to the first price.
FinalizeEndFlat(a) ==
    /\ "Start" \in finalized[a]
    /\ returnQ9' = [returnQ9 EXCEPT ![a] = ReturnOf(PriceOf(a, "Start"), PriceOf(a, "Start"))]

\* The end price also fixes the return, or fails with it.
FinalizeEnd(a) ==
    /\ "Start" \in finalized[a]
    /\ ReturnFits(PriceOf(a, "Start"), PriceOf(a, "End"))
    /\ returnQ9' = [returnQ9 EXCEPT ![a] = ReturnOf(PriceOf(a, "Start"), PriceOf(a, "End"))]

FinalizePythPricePhase(a, p) ==
    /\ p \in quorum[a] \ finalized[a]
    /\ IF p = "End" THEN FinalizeEnd(a) ELSE UNCHANGED returnQ9
    /\ finalized' = [finalized EXCEPT ![a] = @ \cup {p}]
    /\ unavailable' = [unavailable EXCEPT ![a] = @ \ {p}]
    /\ UNCHANGED <<now, paused, roundVars, quorum, evidence, battleVars>>

\* The tolerance in whole seconds, rounded up.
PythDeadline(p) == Target(p) + CeilDiv(MaxPayloadDelta, MicrosPerSecond)

\* Mutated form: a phase that has its price may be marked as well.
MarkAnyPhase(a, p) ==
    /\ now > PythDeadline(p)
    /\ unavailable' = [unavailable EXCEPT ![a] = @ \cup {p}]
    /\ UNCHANGED <<now, paused, roundVars, quorum, finalized, returnQ9, evidence, battleVars>>

\* Mutated form: recorded evidence excludes the mark.
MarkWithoutEvidence(a, p) ==
    /\ now > PythDeadline(p)
    /\ p \notin finalized[a] \cup quorum[a]
    /\ unavailable' = [unavailable EXCEPT ![a] = @ \cup {p}]
    /\ UNCHANGED <<now, paused, roundVars, quorum, finalized, returnQ9, evidence, battleVars>>

\* Evidence on chain does not prevent it.
MarkPythPricePhaseUnavailable(a, p) ==
    /\ now > PythDeadline(p)
    /\ p \notin finalized[a]
    /\ unavailable' = [unavailable EXCEPT ![a] = @ \cup {p}]
    /\ UNCHANGED <<now, paused, roundVars, quorum, finalized, returnQ9, evidence, battleVars>>

=============================================================================
