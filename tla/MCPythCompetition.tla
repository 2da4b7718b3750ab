--------------------------- MODULE MCPythCompetition ---------------------------
(***************************************************************************)
(* Prices with one decimal and a second of two microseconds. Three prices  *)
(* are accepted, and the return from the lowest to the highest does not    *)
(* fit; the other readings are each refused for one reason: a stated price *)
(* that is not the converted one, a confidence that is above the limit by  *)
(* a fraction, a payload too far from the target, a feed too old.          *)
(***************************************************************************)
EXTENDS PythCompetition

Reading(payloadAt, feedAt, price, exponent, confidence, normalized) ==
    [payloadAt |-> payloadAt, feedAt |-> feedAt, price |-> price,
     confidence |-> confidence, exponent |-> exponent, normalized |-> normalized]

I64Returns == -(I64Max + 1)..I64Max

OneAsset == {[assets |-> {1}, captain |-> 1]}

ReadingsAroundLimits ==
    {Reading(0, -1, 59, -2, 0, 5), Reading(1, 0, 20, -2, 2, 2), Reading(0, 0, 1, -1, 0, 1),
     Reading(0, 0, 20, -2, 0, 3), Reading(0, 0, 1009, -3, 101, 10),
     Reading(4, 4, 20, -2, 0, 2), Reading(0, -3, 20, -2, 0, 2)}

=============================================================================
