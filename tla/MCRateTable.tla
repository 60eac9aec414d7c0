---------------------------- MODULE MCRateTable ----------------------------
(***************************************************************************)
(* Model checking of RateTable within RatesView: two pairs, two values and *)
(* three instants, the fewest at which a period can be split between two   *)
(* others; three currencies, two of them registered at first, and a code   *)
(* more than there are currencies, so that codes can be exchanged.         *)
(***************************************************************************)
EXTENDS RatesView, TLC

CONSTANTS usd, eur, btc
MCIds == {usd, eur, btc}
MCPairs == {<<usd, eur>>, <<usd, btc>>}
CONSTANTS low, high
MCValues == {low, high}
ValueSymmetry == Permutations(MCValues)
MCInstalled == {[id |-> usd, code |-> "USD"], [id |-> eur, code |-> "EUR"]}
=============================================================================
