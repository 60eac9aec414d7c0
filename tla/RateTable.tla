----------------------------- MODULE RateTable -----------------------------
(***************************************************************************)
(* The table public.rate and its two functions update_rate and get_rate    *)
(* (db/sql/public/rate), each call run by itself.  A row gives the value   *)
(* of a pair of currencies for the period [vf, vt) of instants             *)
(* (validFromDate, validToDate); the last period of a pair ends at         *)
(* MaxDate, which is public.max_date().                                    *)
(*                                                                         *)
(* Module ExchangeCallback runs the same functions as concurrent           *)
(* PostgreSQL transactions.                                                *)
(***************************************************************************)
EXTENDS Integers

CONSTANTS Pairs,         \* pairs (currencyFrom, currencyTo)
          Values,        \* exchange rates
          NoRate,        \* only for the abstract history
          MaxDate,       \* public.max_date()
          AllowEarlier   \* may a caller date a rate before the first period?

ASSUME TableAssumption == /\ MaxDate \in Nat
                          /\ NoRate \notin Values
                          /\ AllowEarlier \in BOOLEAN

VARIABLE rate            \* the rows of public.rate

Dates == 0 .. MaxDate - 1
Row == [pair : Pairs, vf : Dates, vt : 0 .. MaxDate, val : Values]

-----------------------------------------------------------------------------
(***************************************************************************)
(* The WHERE clause every statement of update_rate and get_rate shares.    *)
(***************************************************************************)
\* Mutant: the WHERE clause forgets the currencies.
AnyPair(T, p, d) == {r \in T : r.vf <= d /\ d < r.vt}

Covering(T, p, d) == {r \in T : r.pair = p /\ r.vf <= d /\ d < r.vt}

(***************************************************************************)
(* UPDATE ... SET value, and UPDATE ... SET validToDate, over those rows.  *)
(***************************************************************************)
SetValue(T, p, v, d) ==
    (T \ Covering(T, p, d))
        \cup {[r EXCEPT !.val = v] : r \in Covering(T, p, d)}

\* Mutant: the period is closed one instant too early.
EndsBefore(T, p, d) ==
    (T \ Covering(T, p, d))
        \cup {[r EXCEPT !.vt = IF d = 0 THEN 0 ELSE d - 1] :
                  r \in Covering(T, p, d)}

\* Mutant: the current period is left open.
LeftOpen(T, p, d) == T

ClosePeriod(T, p, d) ==
    (T \ Covering(T, p, d))
        \cup {[r EXCEPT !.vt = d] : r \in Covering(T, p, d)}

NewPeriod(p, v, d, to) == [pair |-> p, vf |-> d, vt |-> to, val |-> v]

(***************************************************************************)
(* UNIQUE INDEX (currencyFrom, currencyTo, validFromDate, validToDate):    *)
(* closing the covering rows, then inserting [d, to), meets a key that is  *)
(* already there.                                                          *)
(***************************************************************************)
KeyOf(r) == <<r.pair, r.vf, r.vt>>

UniqueViolation(T, p, d, to) ==
    LET closed == Covering(T, p, d) IN
    \/ \E r \in closed : \E s \in T \ {r} :
          /\ s.pair = p /\ s.vf = r.vf
          /\ s \in closed \/ s.vt = d
    \/ \E r \in ClosePeriod(T, p, d) : KeyOf(r) = <<p, d, to>>

(***************************************************************************)
(* update_rate(p, v, d).  SELECT INTO takes one covering row, any of them  *)
(* when there are several.  If it starts at d its value is replaced, with  *)
(* that of every covering row; if not, the covering rows are closed at d   *)
(* and a period [d, validToDate of the selected row, or max_date()) is     *)
(* inserted.  A unique violation raises an error, and the call changes     *)
(* nothing.                                                                *)
(***************************************************************************)
RefreshPeriod(p, v, d) ==
    /\ \E r \in Covering(rate, p, d) : r.vf = d
    /\ rate' = SetValue(rate, p, v, d)

OpenPeriod(p, v, d, to) ==
    /\ ~UniqueViolation(rate, p, d, to)
    /\ rate' = ClosePeriod(rate, p, d) \cup {NewPeriod(p, v, d, to)}

SplitPeriod(p, v, d) ==
    \E r \in Covering(rate, p, d) : r.vf # d /\ OpenPeriod(p, v, d, r.vt)

FirstPeriod(p, v, d) ==
    Covering(rate, p, d) = {} /\ OpenPeriod(p, v, d, MaxDate)

\* Mutant: the value is replaced whenever a current period is found.
OverwritesPeriod(p, v, d) ==
    \/ Covering(rate, p, d) # {} /\ rate' = SetValue(rate, p, v, d)
    \/ FirstPeriod(p, v, d)

update_rate(p, v, d) ==
    \/ RefreshPeriod(p, v, d)
    \/ SplitPeriod(p, v, d)
    \/ FirstPeriod(p, v, d)

(***************************************************************************)
(* get_rate(p, x): the values the query may return; none of them is NULL,  *)
(* and with several rows it is whichever comes first.                      *)
(***************************************************************************)
\* Mutant: both ends of a period belong to it (BETWEEN).
BothEnds(p, x) ==
    {r.val : r \in {s \in rate : s.pair = p /\ s.vf <= x /\ x <= s.vt}}

get_rate(p, x) == {r.val : r \in Covering(rate, p, x)}

-----------------------------------------------------------------------------
Init == rate = {}

(***************************************************************************)
(* Callers: exchange_rate_done with d = Now(), and any SQL session with a  *)
(* date of its own.  Without AllowEarlier no caller dates a rate before    *)
(* the first period of its pair.                                           *)
(***************************************************************************)
NotBeforeFirst(p, d) ==
    (\E r \in rate : r.pair = p) => (\E r \in rate : r.pair = p /\ r.vf <= d)

Next == \E p \in Pairs, v \in Values, d \in Dates :
            /\ AllowEarlier \/ NotBeforeFirst(p, d)
            /\ update_rate(p, v, d)

Spec == Init /\ [][Next]_rate

-----------------------------------------------------------------------------
(***************************************************************************)
(* Types: every row is a row of the table and its period is not empty.     *)
(***************************************************************************)
TypeOK == rate \subseteq Row /\ \A r \in rate : r.vf < r.vt

(***************************************************************************)
(* At every instant at most one row gives the rate of a pair, so get_rate  *)
(* is a function and the view of current rates shows a pair once.          *)
(***************************************************************************)
NoOverlap ==
    \A r, s \in rate :
        r.pair = s.pair /\ r # s => r.vt <= s.vf \/ s.vt <= r.vf

(***************************************************************************)
(* From the first period of a pair on, every instant has a rate: closing a *)
(* period and opening the next leave no instant uncovered.                 *)
(***************************************************************************)
NoGap ==
    \A r \in rate : \A x \in r.vf .. MaxDate - 1 :
        Covering(rate, r.pair, x) # {}

(***************************************************************************)
(* The table is a history of change points: a row is the change point at   *)
(* its validFromDate.                                                      *)
(***************************************************************************)
StartingAt(p, d) == {r \in rate : r.pair = p /\ r.vf = d}

histOf == [p \in Pairs |-> [d \in Dates |->
              IF StartingAt(p, d) = {} THEN NoRate
              ELSE (CHOOSE r \in StartingAt(p, d) : TRUE).val]]

History == INSTANCE RateHistory WITH hist <- histOf

(***************************************************************************)
(* Every call of update_rate publishes at one instant: a step of the       *)
(* history, whatever periods it splits or refreshes.                       *)
(***************************************************************************)
ImplementsHistory == History!Spec

(***************************************************************************)
(* A call update_rate(p, v, d) sets the change point (p, d) to v and       *)
(* leaves every other one, earlier or later, as it was.                    *)
(***************************************************************************)
SetsOne(p, v, d) ==
    \A q \in Pairs, e \in Dates :
        histOf'[q][e] = IF q = p /\ e = d THEN v ELSE histOf[q][e]

CallSetsOnePoint ==
    [][\A p \in Pairs, v \in Values, d \in Dates :
          NotBeforeFirst(p, d) /\ update_rate(p, v, d) => SetsOne(p, v, d)]_rate

(***************************************************************************)
(* get_rate, read from the periods, is the value of the last change point. *)
(***************************************************************************)
GetRateIsHistory ==
    \A p \in Pairs, x \in Dates : get_rate(p, x) = History!RateAt(p, x)
=============================================================================
