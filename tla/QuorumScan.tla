------------------------------ MODULE QuorumScan ------------------------------
(***************************************************************************)
(* The loop of choose_compatible_quorum (price.rs), one iteration a step:  *)
(* it scans the bit masks over the report accounts in the order in which   *)
(* the finalizer listed them and keeps the best candidate so far. The      *)
(* selection rule that CompatibleQuorum states over sets is the reference: *)
(* the loop must reach it whatever the order of the accounts.              *)
(***************************************************************************)
EXTENDS CompatibleQuorum, SequencesExt

CONSTANT Prices     \* the median prices an attestor may report

ASSUME ReportedPricesAssumption == Prices \subseteq Nat \ {NoReport}

VARIABLES
    accounts,   \* the reports as listed: <<[attestor |-> a, price |-> q], ...>>
    mask,       \* the next mask to look at
    best        \* the sorted keys of the best candidate so far, <<>> for None

vars == <<accounts, mask, best>>

\* Lists of reports by distinct attestors.
AccountLists ==
    UNION {{s \in [1..n -> [attestor : Attestors, price : Prices]] :
                \A i, j \in 1..n : i # j => s[i].attestor # s[j].attestor}
           : n \in 0..Cardinality(Attestors)}

reports == [a \in Attestors |->
    IF \E i \in DOMAIN accounts : accounts[i].attestor = a
    THEN accounts[CHOOSE i \in DOMAIN accounts : accounts[i].attestor = a].price
    ELSE NoReport]

InMask(i) == (mask \div 2^(i - 1)) % 2 = 1

Selected == {accounts[i].attestor : i \in {j \in DOMAIN accounts : InMask(j)}}

SortedKeys(S) ==
    CHOOSE s \in [1..Cardinality(S) -> S] :
        \A i, j \in 1..Cardinality(S) : i < j => s[i] < s[j]

\* `lt` of two iterators: at the first difference, or on a proper prefix.
KeysBefore(s, t) ==
    \/ \E k \in DOMAIN s \cap DOMAIN t :
           s[k] < t[k] /\ \A j \in 1..(k - 1) : s[j] = t[j]
    \/ Len(s) < Len(t) /\ \A j \in DOMAIN s : s[j] = t[j]

\* Mutated form: equal spreads keep the candidate met first.
ImprovesFirstMet(S, current) ==
    \/ Cardinality(S) > Len(current)
    \/ /\ Cardinality(S) = Len(current)
       /\ SpreadBps(reports, S) < SpreadBps(reports, ToSet(current))

Improves(S, current) ==
    \/ Cardinality(S) > Len(current)
    \/ /\ Cardinality(S) = Len(current)
       /\ LET new == SpreadBps(reports, S)
              old == SpreadBps(reports, ToSet(current))
          IN \/ new < old
             \/ new = old /\ KeysBefore(SortedKeys(S), current)

Init ==
    /\ accounts \in AccountLists
    /\ mask = 0
    /\ best = <<>>

\* A mask of less than ATTESTOR_QUORUM reports, or outside the spread.
Skip ==
    /\ ~ Compatible(reports, Selected)
    /\ UNCHANGED best

Keep ==
    /\ Compatible(reports, Selected)
    /\ ~ Improves(Selected, best)
    /\ UNCHANGED best

Replace ==
    /\ Compatible(reports, Selected)
    /\ Improves(Selected, best)
    /\ best' = SortedKeys(Selected)

Done == mask = 2^Len(accounts)

Next ==
    /\ ~ Done
    /\ Skip \/ Keep \/ Replace
    /\ mask' = mask + 1
    /\ UNCHANGED accounts

Spec == Init /\ [][Next]_vars

-----------------------------------------------------------------------------
(***************************************************************************)
(* A candidate is a sorted list of two or more of the listed attestors.    *)
(***************************************************************************)
TypeOK ==
    /\ accounts \in AccountLists
    /\ mask \in 0..2^Len(accounts)
    /\ best # <<>> =>
           /\ Len(best) >= 2
           /\ ToSet(best) \subseteq Reporters(reports)
           /\ \A i \in 1..(Len(best) - 1) : best[i] < best[i + 1]

(***************************************************************************)
(* The loop finds a quorum exactly when one exists, and then the one that  *)
(* the selection rule names: the result depends on the reports and not on  *)
(* the order in which the finalizer lists their accounts.                  *)
(***************************************************************************)
ScanSelectsBest ==
    Done =>
        IF HasQuorum(reports)
        THEN best # <<>> /\ ToSet(best) = BestQuorum(reports)
        ELSE best = <<>>

(***************************************************************************)
(* The price of the selected reports, midpoint or median, lies within the  *)
(* selected reports, and two attestors that report the same price fix it.  *)
(***************************************************************************)
SelectedPriceAgrees ==
    Done /\ best # <<>> =>
        LET chosen == PriceOf(reports, ToSet(best))
        IN /\ Min(PricesOf(reports, ToSet(best))) <= chosen
           /\ chosen <= Max(PricesOf(reports, ToSet(best)))
           /\ \A a, b \in Reporters(reports) :
                  a # b /\ reports[a] = reports[b] => chosen = reports[a]

=============================================================================
