---------------------------- MODULE RateHistory ----------------------------
(***************************************************************************)
(* What the rate table of apostol promises: for each pair of currencies, a *)
(* step function of time.  A change point (p, d) with value v says that    *)
(* the rate of pair p is v from instant d until the next change point of p.*)
(* Publishing quotes at instant d sets the change point d of every quoted  *)
(* pair, all of them in one step, and touches no other change point.       *)
(***************************************************************************)
EXTENDS Naturals

CONSTANTS Pairs,      \* pairs (currencyFrom, currencyTo)
          Values,     \* exchange rates
          NoRate,     \* "no rate is known"
          MaxDate     \* instants are 0 .. MaxDate - 1

VARIABLE hist         \* hist[p][d]: the value that starts at d, or NoRate

Dates == 0 .. MaxDate - 1
Quotes == Values \cup {NoRate}

TypeOK == hist \in [Pairs -> [Dates -> Quotes]]

Init == hist = [p \in Pairs |-> [d \in Dates |-> NoRate]]

Publish(quote, d) ==
    hist' = [p \in Pairs |->
               IF quote[p] = NoRate THEN hist[p]
                                    ELSE [hist[p] EXCEPT ![d] = quote[p]]]

Next == \E quote \in [Pairs -> Quotes], d \in Dates : Publish(quote, d)

Spec == Init /\ [][Next]_hist

-----------------------------------------------------------------------------
(***************************************************************************)
(* The rate of p at instant x, NoRate before the first change point.       *)
(***************************************************************************)
LastChange(p, x) ==
    {d \in 0 .. x : /\ hist[p][d] # NoRate
                    /\ \A e \in d + 1 .. x : hist[p][e] = NoRate}

RateAt(p, x) == {hist[p][d] : d \in LastChange(p, x)}
=============================================================================
