----------------------------- MODULE MCMarketSetup -----------------------------
(***************************************************************************)
(* Two registry versions. The first may have two assets of one mint and    *)
(* feed, which only a Pyth draft can hold together, and another; the       *)
(* second has one that no Pyth draft takes. Two adjacent windows; a frozen *)
(* round needs two assets.                                                 *)
(***************************************************************************)
EXTENDS MarketSetup, TLC

Entry(version, id, mint, feed) ==
    [version |-> version, id |-> id, mint |-> mint, feed |-> feed]

MarketEntries == {Entry(1, 0, "m", 1), Entry(1, 1, "m", 1), Entry(1, 2, "n", 2), Entry(2, 0, "n", 0)}

MarketWindows == {[start |-> 1, end |-> 2], [start |-> 2, end |-> 3]}

MarketVersions ==
    [kind \in Kinds |-> IF kind \in {"pyth", "quality"} THEN 1 ELSE 2]

InterchangeableKeys == Permutations(Keys)

=============================================================================
