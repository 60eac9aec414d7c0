------------------------- MODULE MCExchangeCallback -------------------------
(***************************************************************************)
(* Instances of ExchangeCallback: replies of one or two codes, tables    *)
(* that are empty, hold a rate of every currency, or hold two current      *)
(* rates of every currency.                                                *)
(***************************************************************************)
EXTENDS ExchangeCallback

OneCode == <<"EUR">>
TwoCodes == <<"BTC", "EUR">>

Eur == {[id |-> "eur", code |-> "EUR"]}
Btc == {[id |-> "btc", code |-> "BTC"]}
BtcEur == Btc \cup Eur

SeedRow(vf) == [vf |-> vf, vt |-> MaxDate, val |-> "seed"]
Fresh == [id \in {} |-> 0]
EachPair == [id \in {<<"s0", p>> : p \in Pairs} |-> SeedRow(0)]
Doubled == [id \in {"s0", "s1"} \X Pairs |->
              SeedRow(IF id[1] = "s0" THEN 0 ELSE 1)]

FreshTable == {Fresh}
AllTables == {Fresh, EachPair, Doubled}
EachPairTable == {EachPair}
=============================================================================
