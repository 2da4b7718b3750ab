--------------------------- MODULE CompatibleQuorum ---------------------------
(***************************************************************************)
(* The attestor quorum of one price phase: which of the reports supplied   *)
(* to a finalizer are selected, and the price they settle on               *)
(* (choose_compatible_quorum in price.rs, select_compatible_quorum in the  *)
(* shared protocol crate).                                                 *)
(*                                                                         *)
(* Attestor keys are numbers: the selection compares keys only by order.   *)
(* A set of reports is a function from attestors to prices in which        *)
(* NoReport, a price the program rejects, marks a missing account.         *)
(***************************************************************************)
EXTENDS Integers, FiniteSets, FiniteSetsExt

CONSTANTS
    Attestors,      \* the keys of the round's frozen attestor set
    MaxSpreadBps    \* max_attestor_spread_bps, frozen in the round

ASSUME AttestorsAssumption == Attestors \subseteq Nat /\ IsFiniteSet(Attestors)
ASSUME SpreadAssumption == MaxSpreadBps \in Nat

NoReport == 0

Reporters(reports) == {a \in Attestors : reports[a] # NoReport}

\* What a finalizer sees when it supplies only the report accounts of S.
Supplied(reports, S) ==
    [a \in Attestors |-> IF a \in S THEN reports[a] ELSE NoReport]

PricesOf(reports, S) == {reports[a] : a \in S}

\* Mutated form: the sum is not halved.
MidpointNotHalved(reports, S) ==
    Min(PricesOf(reports, S)) + Max(PricesOf(reports, S))

Midpoint(reports, S) ==
    (Min(PricesOf(reports, S)) + Max(PricesOf(reports, S))) \div 2

SpreadBps(reports, S) ==
    ((Max(PricesOf(reports, S)) - Min(PricesOf(reports, S))) * 10000)
        \div Midpoint(reports, S)

\* Mutated form: one report is taken for a quorum.
SingletonAllowed(reports, S) ==
    /\ S # {}
    /\ SpreadBps(reports, S) <= MaxSpreadBps

\* ATTESTOR_QUORUM reports or more, within the spread.
Compatible(reports, S) ==
    /\ Cardinality(S) >= 2
    /\ SpreadBps(reports, S) <= MaxSpreadBps

CompatibleSets(reports) ==
    {S \in SUBSET Reporters(reports) : Compatible(reports, S)}

HasQuorum(reports) == CompatibleSets(reports) # {}

\* Lexicographic order of the sorted keys of two sets of the same size.
Precedes(S, T) == S # T /\ Min(SymDiff(S, T)) \in S

\* The largest subset, then the narrowest spread, then the smallest keys.
Better(reports, S, T) ==
    \/ Cardinality(S) > Cardinality(T)
    \/ /\ Cardinality(S) = Cardinality(T)
       /\ \/ SpreadBps(reports, S) < SpreadBps(reports, T)
          \/ /\ SpreadBps(reports, S) = SpreadBps(reports, T)
             /\ Precedes(S, T)

BestQuorum(reports) ==
    CHOOSE S \in CompatibleSets(reports) :
        \A T \in CompatibleSets(reports) \ {S} : Better(reports, S, T)

\* The element in the middle of the sorted prices of an odd number of reports.
MedianPrice(reports, S) ==
    CHOOSE m \in PricesOf(reports, S) :
        /\ Cardinality({a \in S : reports[a] < m}) <= Cardinality(S) \div 2
        /\ Cardinality({a \in S : reports[a] > m}) <= Cardinality(S) \div 2

PriceOf(reports, S) ==
    IF Cardinality(S) = 2 THEN Midpoint(reports, S) ELSE MedianPrice(reports, S)

QuorumPrice(reports) == PriceOf(reports, BestQuorum(reports))

=============================================================================
