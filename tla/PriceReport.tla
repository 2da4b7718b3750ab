------------------------------ MODULE PriceReport ------------------------------
(***************************************************************************)
(* How an attestor makes its report on one asset and phase out of the      *)
(* quotes it has on file (build_canonical_price_report of the market-data  *)
(* crate, median_q9 and evidence_root of the protocol crate), and the plan *)
(* by which three attestors share one provider. A quote on file is a       *)
(* sample: its source block, its time of observation and its price. The    *)
(* rest of a report's context and its signature are the same for all       *)
(* reports of one asset and are left out.                                  *)
(***************************************************************************)
EXTENDS Integers, SequencesExt

CONSTANTS
    SampledFrom,        \* observation_window_start
    SampledUntil,       \* observation_window_end
    ReportCreatedAt,    \* report_created_at
    MinObservations,    \* min_accepted_observations
    MinSourceBlocks,    \* min_unique_source_blocks
    MaxSourceBlockLag,  \* max_source_block_lag
    PriceDigits,        \* decimal digits of a price: nine in Q9
    MaxPrice            \* i64::MAX

\* The windows and policies that build_canonical_price_report accepts.
PolicyAccepted ==
    /\ SampledFrom \in Nat /\ SampledUntil \in Nat /\ SampledFrom < SampledUntil
    /\ ReportCreatedAt \in SampledFrom..SampledUntil
    /\ MinObservations \in Nat \ {0} /\ MinSourceBlocks \in Nat \ {0}
    /\ MaxSourceBlockLag \in Nat

ASSUME ReportPolicyAssumption ==
    PolicyAccepted /\ PriceDigits \in Nat /\ MaxPrice \in Nat

\* A price as its decimal text gives it: digits, where the last one stands,
\* and the sign.
Decimal(digits, exponent, negative) ==
    [digits |-> digits, exponent |-> exponent, negative |-> negative]

\* The digits beyond the last one of a price are cut off.
ScaledDecimal(d) ==
    IF d.exponent + PriceDigits >= 0 THEN d.digits * 10^(d.exponent + PriceDigits)
    ELSE d.digits \div 10^(-(d.exponent + PriceDigits))

\* parse_decimal_q9 accepts what is positive and fits after that.
UsableDecimal(d) == ~ d.negative /\ ScaledDecimal(d) \in 1..MaxPrice

BlocksOf(samples) == {samples[i].block : i \in DOMAIN samples}

\* median_q9: the mean of the two in the middle of an even number.
MedianQ9(prices) ==
    LET sorted == SortSeq(prices, <)
        middle == Len(prices) \div 2
    IN IF Len(prices) % 2 = 1 THEN sorted[middle + 1]
       ELSE (sorted[middle] + sorted[middle + 1]) \div 2

\* The samples of the window that are fresh at the attestor's current block.
AcceptedSamples(samples, current) ==
    SelectSeq(samples, LAMBDA s :
        /\ s.at >= SampledFrom /\ s.at < SampledUntil
        /\ current - s.block <= MaxSourceBlockLag)

EnoughEvidence(samples, current) ==
    LET kept == AcceptedSamples(samples, current) IN
    /\ \A s \in ToSet(samples) : s.block <= current
    /\ Len(kept) >= MinObservations
    /\ Cardinality(BlocksOf(kept)) >= MinSourceBlocks

\* evidence_root: the hash stands for the bag of samples, since they are
\* sorted before they are hashed.
EvidenceRoot(samples) ==
    [s \in ToSet(samples) |-> Cardinality({i \in DOMAIN samples : samples[i] = s})]

CanonicalReport(asset, samples, current) ==
    LET kept == AcceptedSamples(samples, current) IN
    [asset |-> asset,
     median |-> MedianQ9([i \in DOMAIN kept |-> kept[i].price]),
     observations |-> Len(kept),
     blocks |-> Cardinality(BlocksOf(kept)),
     first |-> Min(BlocksOf(kept)),
     last |-> Max(BlocksOf(kept)),
     root |-> EvidenceRoot(kept)]

------------------------------------------------------------------------------
\* stagger_offsets_millis: where in the interval an attestor polls.
StaggerOffset(attestors, index, interval) == (interval * index) \div attestors

\* sampling_plan_rate_milli_rps, rounded up.
SamplingRate(attestors, requests, interval) ==
    (attestors * requests * 1000 + interval - 1) \div interval

\* validate_batched_sampling_plan.
PlanFits(attestors, requests, interval, limit) ==
    /\ attestors > 0 /\ requests > 0 /\ interval > 0 /\ limit > 0
    /\ SamplingRate(attestors, requests, interval) <= limit

=============================================================================
