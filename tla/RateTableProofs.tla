-------------------------- MODULE RateTableProofs --------------------------
(***************************************************************************)
(* Proofs about RateTable, for every set of pairs, values and instants,    *)
(* and then about RatesView, for every set of ids and codes.  None of the  *)
(* first part uses anything of the registry.                               *)
(*                                                                         *)
(* NoOverlap is not inductive: when no row covers d, update_rate inserts   *)
(* [d, MaxDate), which is right only if the pair has no row at all.  NoGap *)
(* gives that for a date that is not before the pair's first period, so    *)
(* the inductive invariant is the conjunction of the three.                *)
(***************************************************************************)
EXTENDS RatesView, TLAPS

Periods == TypeOK /\ NoOverlap /\ NoGap

(***************************************************************************)
(* In a table of proper periods at most one row of a pair covers an        *)
(* instant.                                                                *)
(***************************************************************************)
LEMMA OneCovering ==
    ASSUME TypeOK, NoOverlap, NEW p \in Pairs, NEW d \in Dates,
           NEW r \in Covering(rate, p, d), NEW s \in Covering(rate, p, d)
    PROVE  r = s
<1>1. /\ r \in Row /\ s \in Row /\ r \in rate /\ s \in rate
      /\ r.pair = s.pair /\ r.vf <= d /\ d < r.vt /\ s.vf <= d /\ d < s.vt
  BY DEF TypeOK, Covering
<1>2. ~(r.vt <= s.vf) /\ ~(s.vt <= r.vf)
  BY <1>1, TableAssumption DEF Row, Dates
<1>3. QED BY <1>1, <1>2 DEF NoOverlap

(***************************************************************************)
(* What a call of update_rate does to such a table: it rewrites the value  *)
(* of the one row that starts at d, or cuts the one row that covers d in   *)
(* two, or inserts the first row of the pair.                              *)
(***************************************************************************)
Refreshed(p, v, d) ==
    \E r \in rate :
        /\ r.pair = p /\ r.vf = d
        /\ rate' = (rate \ {r}) \cup {[r EXCEPT !.val = v]}

Cut(p, v, d) ==
    \E r \in rate :
        /\ r.pair = p /\ r.vf < d /\ d < r.vt
        /\ rate' = (rate \ {r}) \cup
                     {[r EXCEPT !.vt = d], NewPeriod(p, v, d, r.vt)}

Started(p, v, d) ==
    /\ \A r \in rate : r.pair # p
    /\ rate' = rate \cup {NewPeriod(p, v, d, MaxDate)}

(***************************************************************************)
(* A call changes a proper table in one of three ways: it refreshes a      *)
(* period, cuts the one that covers the date, or starts the pair's first.  *)
(***************************************************************************)
LEMMA UpdateCases ==
    ASSUME Periods, NEW p \in Pairs, NEW v \in Values, NEW d \in Dates,
           NotBeforeFirst(p, d), update_rate(p, v, d)
    PROVE  Refreshed(p, v, d) \/ Cut(p, v, d) \/ Started(p, v, d)
<1> USE DEF Periods
<1>1. ASSUME NEW r \in Covering(rate, p, d) PROVE Covering(rate, p, d) = {r}
  BY <1>1, OneCovering
<1>2. \A r \in Covering(rate, p, d) :
         r \in rate /\ r \in Row /\ r.pair = p /\ r.vf <= d /\ d < r.vt
  BY DEF Covering, TypeOK
<1>3. CASE RefreshPeriod(p, v, d)
  <2>1. PICK r \in Covering(rate, p, d) : r.vf = d BY <1>3 DEF RefreshPeriod
  <2>2. Covering(rate, p, d) = {r} BY <2>1, <1>1
  <2>3. rate' = (rate \ {r}) \cup {[r EXCEPT !.val = v]}
    BY <1>3, <2>2 DEF RefreshPeriod, SetValue
  <2>4. QED BY <1>2, <2>1, <2>3 DEF Refreshed
<1>4. CASE SplitPeriod(p, v, d)
  <2>1. PICK r \in Covering(rate, p, d) : r.vf # d /\ OpenPeriod(p, v, d, r.vt)
    BY <1>4 DEF SplitPeriod
  <2>2. Covering(rate, p, d) = {r} BY <2>1, <1>1
  <2>3. rate' = ((rate \ {r}) \cup {[r EXCEPT !.vt = d]})
                   \cup {NewPeriod(p, v, d, r.vt)}
    BY <2>1, <2>2 DEF OpenPeriod, ClosePeriod
  <2>4. r.vf < d BY <1>2, <2>1, TableAssumption DEF Row, Dates
  <2>5. QED BY <1>2, <2>1, <2>3, <2>4 DEF Cut
<1>5. CASE FirstPeriod(p, v, d)
  <2>1. Covering(rate, p, d) = {} BY <1>5 DEF FirstPeriod
  <2>2. ASSUME NEW r \in rate, r.pair = p PROVE FALSE
    <3>1. PICK s \in rate : s.pair = p /\ s.vf <= d
      BY <2>2 DEF NotBeforeFirst
    <3>2. d \in s.vf .. MaxDate - 1
      BY <3>1, TableAssumption DEF TypeOK, Row, Dates
    <3>3. QED BY <2>1, <3>1, <3>2 DEF NoGap
  <2>3. rate' = rate \cup {NewPeriod(p, v, d, MaxDate)}
    BY <1>5, <2>1 DEF FirstPeriod, OpenPeriod, ClosePeriod
  <2>4. QED BY <2>2, <2>3 DEF Started
<1>6. QED BY <1>3, <1>4, <1>5 DEF update_rate

-----------------------------------------------------------------------------
(***************************************************************************)
(* Replacing the value of the period that starts at d keeps the periods    *)
(* proper.                                                                 *)
(***************************************************************************)
LEMMA RefreshedKeeps ==
    ASSUME Periods, NEW p \in Pairs, NEW v \in Values, NEW d \in Dates,
           Refreshed(p, v, d)
    PROVE  Periods'
<1> USE DEF Periods
<1>1. PICK r \in rate :
         /\ r.pair = p /\ r.vf = d
         /\ rate' = (rate \ {r}) \cup {[r EXCEPT !.val = v]}
  BY DEF Refreshed
<1> DEFINE r1 == [r EXCEPT !.val = v]
<1>2. /\ r \in Row /\ r1 \in Row
      /\ r1.pair = r.pair /\ r1.vf = r.vf /\ r1.vt = r.vt
  BY DEF TypeOK, Row
<1>3. TypeOK' BY <1>1, <1>2 DEF TypeOK
<1>4. NoOverlap'
  <2> SUFFICES ASSUME NEW s \in rate', NEW t \in rate',
                      s.pair = t.pair, s # t
               PROVE  s.vt <= t.vf \/ t.vt <= s.vf
    BY DEF NoOverlap
  <2>1. CASE s \in rate \ {r} /\ t \in rate \ {r}
    BY <2>1 DEF NoOverlap
  <2>2. CASE s \in rate \ {r} /\ t = r1
    BY <2>2, <1>2 DEF NoOverlap
  <2>3. CASE s = r1 /\ t \in rate \ {r}
    BY <2>3, <1>2 DEF NoOverlap
  <2>4. QED BY <1>1, <2>1, <2>2, <2>3
<1>5. NoGap'
  <2> SUFFICES ASSUME NEW s \in rate', NEW x \in s.vf .. MaxDate - 1
               PROVE  Covering(rate', s.pair, x) # {}
    BY DEF NoGap
  <2>1. PICK s0 \in rate : s0.pair = s.pair /\ s0.vf = s.vf BY <1>1, <1>2
  <2>2. PICK c \in Covering(rate, s.pair, x) : TRUE BY <2>1 DEF NoGap
  <2>3. CASE c = r
    BY <1>1, <1>2, <2>2, <2>3 DEF Covering
  <2>4. CASE c # r
    BY <1>1, <2>2, <2>4 DEF Covering
  <2>5. QED BY <2>3, <2>4
<1>6. QED BY <1>3, <1>4, <1>5

(***************************************************************************)
(* Closing the covering period at d and inserting [d, its end) keeps the   *)
(* periods proper.                                                         *)
(***************************************************************************)
LEMMA CutKeeps ==
    ASSUME Periods, NEW p \in Pairs, NEW v \in Values, NEW d \in Dates,
           Cut(p, v, d)
    PROVE  Periods'
<1> USE DEF Periods
<1>1. PICK r \in rate :
         /\ r.pair = p /\ r.vf < d /\ d < r.vt
         /\ rate' = (rate \ {r}) \cup
                      {[r EXCEPT !.vt = d], NewPeriod(p, v, d, r.vt)}
  BY DEF Cut
<1> DEFINE low == [r EXCEPT !.vt = d]
           high == NewPeriod(p, v, d, r.vt)
<1>2. /\ r \in Row /\ low \in Row /\ high \in Row
      /\ low.pair = p /\ low.vf = r.vf /\ low.vt = d
      /\ high.pair = p /\ high.vf = d /\ high.vt = r.vt
  BY <1>1, TableAssumption DEF TypeOK, Row, Dates, NewPeriod
<1>3. TypeOK' BY <1>1, <1>2 DEF TypeOK
<1>4. NoOverlap'
  <2> SUFFICES ASSUME NEW s \in rate', NEW t \in rate',
                      s.pair = t.pair, s # t
               PROVE  s.vt <= t.vf \/ t.vt <= s.vf
    BY DEF NoOverlap
  <2>1. rate \subseteq Row BY DEF TypeOK
  <2>2. \A q \in rate \ {r} : q.pair = p => q.vt <= r.vf \/ r.vt <= q.vf
    BY <1>1 DEF NoOverlap
  <2>3. CASE s \in rate \ {r} /\ t \in rate \ {r}
    BY <2>3 DEF NoOverlap
  <2>4. CASE s \in rate \ {r} /\ t \in {low, high}
    BY <2>4, <1>1, <1>2, <2>1, <2>2, TableAssumption DEF Row, Dates
  <2>5. CASE s \in {low, high} /\ t \in rate \ {r}
    BY <2>5, <1>1, <1>2, <2>1, <2>2, TableAssumption DEF Row, Dates
  <2>6. CASE s \in {low, high} /\ t \in {low, high}
    <3>1. d <= d BY TableAssumption DEF Dates
    <3>2. CASE s = low /\ t = high BY <3>1, <3>2, <1>2
    <3>3. CASE s = high /\ t = low BY <3>1, <3>3, <1>2
    <3>4. QED BY <2>6, <3>2, <3>3
  <2>7. QED BY <1>1, <2>3, <2>4, <2>5, <2>6
<1>5. NoGap'
  <2> SUFFICES ASSUME NEW s \in rate', NEW x \in s.vf .. MaxDate - 1
               PROVE  Covering(rate', s.pair, x) # {}
    BY DEF NoGap
  <2>1. s \in Row BY <1>3 DEF TypeOK
  <2>2. PICK s0 \in rate : s0.pair = s.pair /\ s0.vf <= s.vf
    BY <1>1, <1>2, TableAssumption DEF TypeOK, Row, Dates
  <2>3. x \in Int /\ x \in s0.vf .. MaxDate - 1
    BY <2>1, <2>2, TableAssumption DEF TypeOK, Row, Dates
  <2>4. PICK c \in Covering(rate, s.pair, x) : TRUE BY <2>2, <2>3 DEF NoGap
  <2>5. CASE c # r BY <1>1, <2>4, <2>5 DEF Covering
  <2>6. CASE c = r
    <3>1. s.pair = p /\ r.vf <= x /\ x < r.vt BY <1>1, <2>4, <2>6 DEF Covering
    <3>2. low \in rate' /\ high \in rate' BY <1>1
    <3>3. CASE x < d
      <4>1. low \in Covering(rate', s.pair, x)
        BY <1>2, <3>1, <3>2, <3>3 DEF Covering
      <4>2. QED BY <4>1
    <3>4. CASE d <= x
      <4>1. high \in Covering(rate', s.pair, x)
        BY <1>2, <3>1, <3>2, <3>4 DEF Covering
      <4>2. QED BY <4>1
    <3>5. QED BY <2>3, <3>3, <3>4, TableAssumption DEF Dates
  <2>7. QED BY <2>5, <2>6
<1>6. QED BY <1>3, <1>4, <1>5

(***************************************************************************)
(* The first period of a pair, from d to max_date(), keeps the periods     *)
(* proper: no gap means that the pair has no later period either.          *)
(***************************************************************************)
LEMMA StartedKeeps ==
    ASSUME Periods, NEW p \in Pairs, NEW v \in Values, NEW d \in Dates,
           Started(p, v, d)
    PROVE  Periods'
<1> USE DEF Periods
<1> DEFINE n == NewPeriod(p, v, d, MaxDate)
<1>1. /\ \A r \in rate : r.pair # p
      /\ rate' = rate \cup {n}
  BY DEF Started
<1>2. /\ n \in Row /\ n.pair = p /\ n.vf = d /\ n.vt = MaxDate /\ d < MaxDate
  BY TableAssumption DEF NewPeriod, Row, Dates
<1>3. TypeOK' BY <1>1, <1>2 DEF TypeOK
<1>4. NoOverlap' BY <1>1, <1>2 DEF NoOverlap
<1>5. NoGap'
  <2> SUFFICES ASSUME NEW s \in rate', NEW x \in s.vf .. MaxDate - 1
               PROVE  Covering(rate', s.pair, x) # {}
    BY DEF NoGap
  <2>1. CASE s = n
    <3>1. n \in Covering(rate', s.pair, x)
      BY <1>1, <1>2, <2>1, TableAssumption DEF Covering, Dates
    <3>2. QED BY <3>1
  <2>2. CASE s # n
    <3>1. s \in rate BY <1>1, <2>2
    <3>2. Covering(rate, s.pair, x) # {} BY <3>1 DEF NoGap
    <3>3. QED BY <1>1, <3>2 DEF Covering
  <2>3. QED BY <2>1, <2>2
<1>6. QED BY <1>3, <1>4, <1>5

(***************************************************************************)
(* As long as no caller dates a rate before the first period of its pair,  *)
(* every reachable table is made of proper periods.                        *)
(***************************************************************************)
LEMMA PeriodsInductive ==
    ASSUME ~AllowEarlier, Periods, [Next]_rate
    PROVE  Periods'
<1>1. CASE UNCHANGED rate
  BY <1>1 DEF Periods, TypeOK, NoOverlap, NoGap, Covering
<1>2. CASE Next
  <2>1. PICK p \in Pairs, v \in Values, d \in Dates :
           NotBeforeFirst(p, d) /\ update_rate(p, v, d)
    BY <1>2 DEF Next
  <2>2. QED
    BY <2>1, UpdateCases, RefreshedKeeps, CutKeeps, StartedKeeps
<1>3. QED BY <1>1, <1>2

(***************************************************************************)
(* Every call of update_rate leaves public.rate a set of well-typed, non-  *)
(* empty periods that do not overlap and leave no gap after the first one  *)
(* of their pair. This is the inductive invariant the other theorems rest  *)
(* on.                                                                     *)
(***************************************************************************)
THEOREM PeriodsInvariant == ~AllowEarlier => (Spec => []Periods)
<1> SUFFICES ASSUME ~AllowEarlier PROVE Spec => []Periods
  OBVIOUS
<1>1. Init => Periods
  BY DEF Init, Periods, TypeOK, NoOverlap, NoGap
<1>2. Periods /\ [Next]_rate => Periods'
  BY PeriodsInductive
<1>3. QED BY <1>1, <1>2, PTL DEF Spec

(***************************************************************************)
(* Every row of public.rate is well typed and its period is not empty.     *)
(***************************************************************************)
THEOREM TypeCorrect == ~AllowEarlier => (Spec => []TypeOK)
BY PeriodsInvariant, PTL DEF Periods

(***************************************************************************)
(* A pair has at most one rate at any instant, so get_rate is a function.  *)
(***************************************************************************)
THEOREM AtMostOneRate == ~AllowEarlier => (Spec => []NoOverlap)
BY PeriodsInvariant, PTL DEF Periods

(***************************************************************************)
(* A pair has a rate at every instant from its first period on.            *)
(***************************************************************************)
THEOREM AlwaysSomeRate == ~AllowEarlier => (Spec => []NoGap)
BY PeriodsInvariant, PTL DEF Periods

-----------------------------------------------------------------------------
(***************************************************************************)
(* The table implements the history of change points.  In a table of       *)
(* proper periods a row is the only one of its pair that starts when it    *)
(* does, so the CHOOSE of histOf has one candidate.                        *)
(***************************************************************************)
LEMMA OneStarting ==
    ASSUME TypeOK, NoOverlap, NEW p \in Pairs, NEW d \in Dates,
           NEW r \in StartingAt(p, d)
    PROVE  StartingAt(p, d) = {r} /\ histOf[p][d] = r.val
<1>1. r \in rate /\ r \in Row /\ r.pair = p /\ r.vf = d /\ r.vf < r.vt
  BY DEF StartingAt, TypeOK
<1>2. ASSUME NEW s \in StartingAt(p, d) PROVE s = r
  <2>1. s \in rate /\ s \in Row /\ s.pair = p /\ s.vf = d /\ s.vf < s.vt
    BY DEF StartingAt, TypeOK
  <2>2. ~(r.vt <= s.vf) /\ ~(s.vt <= r.vf)
    BY <1>1, <2>1, TableAssumption DEF Row, Dates
  <2>3. QED BY <1>1, <2>1, <2>2 DEF NoOverlap
<1>3. StartingAt(p, d) = {r} BY <1>2
<1>4. (CHOOSE s \in StartingAt(p, d) : TRUE) = r BY <1>3
<1>5. QED BY <1>3, <1>4 DEF histOf

(***************************************************************************)
(* An instant at which no period starts is no change point.                *)
(***************************************************************************)
LEMMA NoneStarting ==
    ASSUME NEW p \in Pairs, NEW d \in Dates, StartingAt(p, d) = {}
    PROVE  histOf[p][d] = NoRate
BY DEF histOf

(***************************************************************************)
(* A change point is unchanged when the rows that start there are.         *)
(***************************************************************************)
LEMMA SameStarting ==
    ASSUME NEW q \in Pairs, NEW e \in Dates,
           StartingAt(q, e)' = StartingAt(q, e)
    PROVE  histOf'[q][e] = histOf[q][e]
BY DEF histOf

(***************************************************************************)
(* A change point takes the value of the one row that now starts there.    *)
(***************************************************************************)
LEMMA NewStarting ==
    ASSUME NEW q \in Pairs, NEW e \in Dates, NEW r, StartingAt(q, e)' = {r}
    PROVE  histOf'[q][e] = r.val
<1>1. (CHOOSE s \in StartingAt(q, e)' : TRUE) = r OBVIOUS
<1>2. QED BY <1>1 DEF histOf

(***************************************************************************)
(* A refresh sets the change point d of its pair and no other.             *)
(***************************************************************************)
LEMMA RefreshedSets ==
    ASSUME Periods, NEW p \in Pairs, NEW v \in Values, NEW d \in Dates,
           Refreshed(p, v, d)
    PROVE  SetsOne(p, v, d)
<1>1. PICK r \in rate :
         /\ r.pair = p /\ r.vf = d
         /\ rate' = (rate \ {r}) \cup {[r EXCEPT !.val = v]}
  BY DEF Refreshed
<1> DEFINE r1 == [r EXCEPT !.val = v]
<1>2. r1.pair = p /\ r1.vf = d /\ r1.val = v
  BY <1>1 DEF Periods, TypeOK, Row
<1> SUFFICES ASSUME NEW q \in Pairs, NEW e \in Dates
             PROVE  histOf'[q][e] =
                       IF q = p /\ e = d THEN v ELSE histOf[q][e]
  BY DEF SetsOne
<1>3. CASE q = p /\ e = d
  <2>1. StartingAt(q, e) = {r} BY <1>1, <1>3, OneStarting DEF Periods, StartingAt
  <2>2. StartingAt(q, e)' = {r1} BY <1>1, <1>2, <1>3, <2>1 DEF StartingAt
  <2> HIDE DEF r1
  <2>3. histOf'[q][e] = r1.val BY <2>2, NewStarting
  <2>4. QED BY <1>2, <1>3, <2>3
<1>4. CASE ~(q = p /\ e = d)
  <2>1. StartingAt(q, e)' = StartingAt(q, e)
    BY <1>1, <1>2, <1>4 DEF StartingAt
  <2>2. QED BY <1>4, <2>1, SameStarting
<1>5. QED BY <1>3, <1>4

(***************************************************************************)
(* A split sets the change point d of its pair and no other: the row that  *)
(* is closed keeps its start.                                              *)
(***************************************************************************)
LEMMA CutSets ==
    ASSUME Periods, NEW p \in Pairs, NEW v \in Values, NEW d \in Dates,
           Cut(p, v, d)
    PROVE  SetsOne(p, v, d)
<1>1. PICK r \in rate :
         /\ r.pair = p /\ r.vf < d /\ d < r.vt
         /\ rate' = (rate \ {r}) \cup
                      {[r EXCEPT !.vt = d], NewPeriod(p, v, d, r.vt)}
  BY DEF Cut
<1> DEFINE low == [r EXCEPT !.vt = d]
           high == NewPeriod(p, v, d, r.vt)
<1>2. /\ r \in Row /\ r.vf \in Dates /\ r.vf # d
      /\ low.pair = p /\ low.vf = r.vf /\ low.val = r.val
      /\ high.pair = p /\ high.vf = d /\ high.val = v
  BY <1>1, TableAssumption DEF Periods, TypeOK, Row, Dates, NewPeriod
<1>3. StartingAt(p, d) = {}
  <2> SUFFICES ASSUME NEW s \in rate, s.pair = p, s.vf = d PROVE FALSE
    BY DEF StartingAt
  <2>1. s \in Row /\ s.vf < s.vt BY DEF Periods, TypeOK
  <2>2. ~(r.vt <= s.vf) /\ ~(s.vt <= r.vf)
    BY <1>1, <1>2, <2>1, TableAssumption DEF Row, Dates
  <2>3. QED BY <1>1, <1>2, <2>2 DEF Periods, NoOverlap
<1>4. StartingAt(p, r.vf) = {r} /\ histOf[p][r.vf] = r.val
  BY <1>1, <1>2, OneStarting DEF Periods, StartingAt
<1> SUFFICES ASSUME NEW q \in Pairs, NEW e \in Dates
             PROVE  histOf'[q][e] =
                       IF q = p /\ e = d THEN v ELSE histOf[q][e]
  BY DEF SetsOne
<1>5. CASE q = p /\ e = d
  <2>1. StartingAt(q, e)' = {high} BY <1>1, <1>2, <1>3, <1>5 DEF StartingAt
  <2>2. QED BY <1>2, <1>5, <2>1, NewStarting
<1>6. CASE q = p /\ e = r.vf
  <2>1. StartingAt(q, e)' = {low} BY <1>1, <1>2, <1>4, <1>6 DEF StartingAt
  <2>2. QED BY <1>2, <1>4, <1>6, <2>1, NewStarting
<1>7. CASE q # p \/ (e # d /\ e # r.vf)
  <2>1. StartingAt(q, e)' = StartingAt(q, e)
    BY <1>1, <1>2, <1>7 DEF StartingAt
  <2>2. QED BY <1>7, <2>1, SameStarting
<1>8. QED BY <1>5, <1>6, <1>7

(***************************************************************************)
(* The first period of a pair sets the change point d and no other.        *)
(***************************************************************************)
LEMMA StartedSets ==
    ASSUME Periods, NEW p \in Pairs, NEW v \in Values, NEW d \in Dates,
           Started(p, v, d)
    PROVE  SetsOne(p, v, d)
<1> DEFINE n == NewPeriod(p, v, d, MaxDate)
<1>1. /\ \A r \in rate : r.pair # p
      /\ rate' = rate \cup {n}
      /\ n.pair = p /\ n.vf = d /\ n.val = v
  BY DEF Started, NewPeriod
<1> SUFFICES ASSUME NEW q \in Pairs, NEW e \in Dates
             PROVE  histOf'[q][e] =
                       IF q = p /\ e = d THEN v ELSE histOf[q][e]
  BY DEF SetsOne
<1>2. CASE q = p /\ e = d
  <2>1. StartingAt(q, e)' = {n} BY <1>1, <1>2 DEF StartingAt
  <2>2. QED BY <1>1, <1>2, <2>1, NewStarting
<1>3. CASE ~(q = p /\ e = d)
  <2>1. StartingAt(q, e)' = StartingAt(q, e) BY <1>1, <1>3 DEF StartingAt
  <2>2. QED BY <1>3, <2>1, SameStarting
<1>4. QED BY <1>2, <1>3

(***************************************************************************)
(* The change points read from a proper table are a history.               *)
(***************************************************************************)
LEMMA HistOfType ==
    ASSUME TypeOK
    PROVE  histOf \in [Pairs -> [Dates -> Values \cup {NoRate}]]
<1> SUFFICES ASSUME NEW p \in Pairs, NEW d \in Dates
             PROVE  histOf[p][d] \in Values \cup {NoRate}
  BY DEF histOf
<1>1. CASE StartingAt(p, d) = {} BY <1>1, NoneStarting
<1>2. CASE StartingAt(p, d) # {}
  <2>1. (CHOOSE r \in StartingAt(p, d) : TRUE) \in StartingAt(p, d) BY <1>2
  <2>2. (CHOOSE r \in StartingAt(p, d) : TRUE) \in Row
    BY <2>1 DEF StartingAt, TypeOK
  <2>3. QED BY <1>2, <2>2 DEF histOf, Row
<1>3. QED BY <1>1, <1>2

(***************************************************************************)
(* A call of update_rate is a Publish of one pair in the history.          *)
(***************************************************************************)
LEMMA StepPublishes ==
    ASSUME Periods, NEW p \in Pairs, NEW v \in Values, NEW d \in Dates,
           NotBeforeFirst(p, d), update_rate(p, v, d)
    PROVE  History!Next
<1> DEFINE quote == [q \in Pairs |-> IF q = p THEN v ELSE NoRate]
           next == [q \in Pairs |->
                      IF quote[q] = NoRate THEN histOf[q]
                      ELSE [histOf[q] EXCEPT ![d] = quote[q]]]
<1>1. SetsOne(p, v, d)
  BY UpdateCases, RefreshedSets, CutSets, StartedSets
<1>2. histOf \in [Pairs -> [Dates -> Values \cup {NoRate}]]
  BY HistOfType DEF Periods
<1>3. /\ histOf' = [q \in Pairs |-> [e \in Dates |-> histOf'[q][e]]]
  BY DEF histOf
<1>4. ASSUME NEW q \in Pairs
      PROVE  [e \in Dates |-> histOf'[q][e]] = next[q]
  <2>1. CASE q = p
    <3>1. next[q] = [histOf[q] EXCEPT ![d] = v]
      BY <2>1, TableAssumption
    <3>2. QED BY <1>1, <1>2, <2>1, <3>1 DEF SetsOne
  <2>2. CASE q # p
    <3>1. next[q] = histOf[q] BY <2>2
    <3>2. QED BY <1>1, <1>2, <2>2, <3>1 DEF SetsOne
  <2>3. QED BY <2>1, <2>2
<1>5. histOf' = next BY <1>3, <1>4
<1>6. History!Publish(quote, d) BY <1>5 DEF History!Publish
<1>7. quote \in [Pairs -> History!Quotes] BY DEF History!Quotes
<1>8. d \in History!Dates BY DEF History!Dates, Dates
<1>9. QED BY <1>6, <1>7, <1>8 DEF History!Next

(***************************************************************************)
(* Every behaviour of the table is a behaviour of the history: a call of   *)
(* update_rate sets the one change point it was asked to set, whatever     *)
(* periods it splits, and rewrites no other part of the past or future.    *)
(***************************************************************************)
THEOREM TableImplementsHistory == ~AllowEarlier => (Spec => ImplementsHistory)
<1> SUFFICES ASSUME ~AllowEarlier PROVE Spec => History!Spec
  BY DEF ImplementsHistory
<1>1. Init => History!Init
  BY DEF Init, History!Init, histOf, StartingAt, History!Dates, Dates
<1>2. Periods /\ [Next]_rate => [History!Next]_histOf
  <2> SUFFICES ASSUME Periods, [Next]_rate PROVE [History!Next]_histOf
    OBVIOUS
  <2>1. CASE UNCHANGED rate
    BY <2>1 DEF histOf, StartingAt
  <2>2. CASE Next
    <3>1. PICK p \in Pairs, v \in Values, d \in Dates :
             NotBeforeFirst(p, d) /\ update_rate(p, v, d)
      BY <2>2 DEF Next
    <3>2. QED BY <3>1, StepPublishes
  <2>3. QED BY <2>1, <2>2
<1>3. Spec => []Periods BY PeriodsInvariant
<1>4. QED BY <1>1, <1>2, <1>3, PTL DEF Spec, History!Spec

(***************************************************************************)
(* A call changes the change point it was asked to change and no other.    *)
(***************************************************************************)
THEOREM CallCorrect == ~AllowEarlier => (Spec => CallSetsOnePoint)
<1> DEFINE Sets == \A p \in Pairs, v \in Values, d \in Dates :
                     NotBeforeFirst(p, d) /\ update_rate(p, v, d)
                       => SetsOne(p, v, d)
<1>1. Periods => Sets
  BY UpdateCases, RefreshedSets, CutSets, StartedSets
<1>2. QED BY <1>1, PeriodsInvariant, PTL DEF Spec, CallSetsOnePoint
-----------------------------------------------------------------------------
(***************************************************************************)
(* get_rate reads the periods and returns the value of the last change     *)
(* point.                                                                  *)
(***************************************************************************)
LEMMA CoveredInstant ==
    ASSUME Periods, NEW p \in Pairs, NEW x \in Dates,
           NEW r \in Covering(rate, p, x)
    PROVE  get_rate(p, x) = {r.val} /\ History!RateAt(p, x) = {r.val}
<1>1. /\ r \in rate /\ r \in Row /\ r.pair = p
      /\ r.vf <= x /\ x < r.vt /\ r.vf \in Dates
  BY DEF Covering, Periods, TypeOK, Row
<1>2. Covering(rate, p, x) = {r} BY OneCovering DEF Periods
<1>3. get_rate(p, x) = {r.val} BY <1>2 DEF get_rate
<1>4. histOf[p][r.vf] = r.val
  BY <1>1, OneStarting DEF Periods, StartingAt
<1>5. ASSUME NEW e \in r.vf + 1 .. x PROVE e \in Dates /\ histOf[p][e] = NoRate
  <2>1. e \in Dates /\ r.vf < e /\ e < r.vt
    BY <1>1, <1>5, TableAssumption DEF Row, Dates
  <2>2. ASSUME NEW s \in rate, s.pair = p, s.vf = e PROVE FALSE
    <3>1. s \in Row /\ s.vf < s.vt BY DEF Periods, TypeOK
    <3>2. ~(r.vt <= s.vf) /\ ~(s.vt <= r.vf)
      BY <1>1, <2>1, <2>2, <3>1, TableAssumption DEF Row, Dates
    <3>3. r # s BY <2>1, <2>2, TableAssumption DEF Dates
    <3>4. QED BY <1>1, <2>2, <3>2, <3>3 DEF Periods, NoOverlap
  <2>3. StartingAt(p, e) = {} BY <2>2 DEF StartingAt
  <2>4. QED BY <2>1, <2>3, NoneStarting
<1>6. r.val # NoRate BY <1>1, TableAssumption DEF Row
<1>7. r.vf \in History!LastChange(p, x)
  BY <1>1, <1>4, <1>5, <1>6, TableAssumption DEF History!LastChange, Dates
<1>8. ASSUME NEW d \in History!LastChange(p, x) PROVE d = r.vf
  <2>1. /\ d \in 0 .. x /\ histOf[p][d] # NoRate
        /\ \A e \in d + 1 .. x : histOf[p][e] = NoRate
    BY DEF History!LastChange
  <2>2. ~(r.vf < d)
    BY <1>5, <2>1, <1>1, TableAssumption DEF Dates
  <2>3. ~(d < r.vf)
    BY <1>1, <1>4, <1>6, <2>1, TableAssumption DEF Dates
  <2>4. QED BY <1>1, <2>1, <2>2, <2>3, TableAssumption DEF Dates
<1>9. History!LastChange(p, x) = {r.vf} BY <1>7, <1>8
<1>10. QED BY <1>3, <1>4, <1>9 DEF History!RateAt

(***************************************************************************)
(* Where no period covers the instant, the pair has no change point up to  *)
(* it, and both reads find nothing.                                        *)
(***************************************************************************)
LEMMA UncoveredInstant ==
    ASSUME Periods, NEW p \in Pairs, NEW x \in Dates,
           Covering(rate, p, x) = {}
    PROVE  get_rate(p, x) = {} /\ History!RateAt(p, x) = {}
<1>1. get_rate(p, x) = {} BY DEF get_rate
<1>2. ASSUME NEW d \in 0 .. x PROVE histOf[p][d] = NoRate
  <2>1. d \in Dates /\ d <= x BY TableAssumption DEF Dates
  <2>2. ASSUME NEW r \in rate, r.pair = p, r.vf = d PROVE FALSE
    <3>1. x \in r.vf .. MaxDate - 1
      BY <2>1, <2>2, TableAssumption DEF Dates
    <3>2. QED BY <2>2, <3>1 DEF Periods, NoGap
  <2>3. StartingAt(p, d) = {} BY <2>2 DEF StartingAt
  <2>4. QED BY <2>1, <2>3, NoneStarting
<1>3. History!LastChange(p, x) = {} BY <1>2 DEF History!LastChange
<1>4. QED BY <1>1, <1>3 DEF History!RateAt

(***************************************************************************)
(* For every pair and instant, get_rate returns the value of the last      *)
(* change point not after the instant, and nothing when there is none: a   *)
(* reader of the table sees the history that was published.                *)
(***************************************************************************)
THEOREM GetRateCorrect == ~AllowEarlier => (Spec => []GetRateIsHistory)
<1>1. Periods => GetRateIsHistory
  <2> SUFFICES ASSUME Periods, NEW p \in Pairs, NEW x \in Dates
               PROVE  get_rate(p, x) = History!RateAt(p, x)
    BY DEF GetRateIsHistory
  <2>1. CASE Covering(rate, p, x) = {} BY <2>1, UncoveredInstant
  <2>2. CASE Covering(rate, p, x) # {}
    <3>1. PICK r \in Covering(rate, p, x) : TRUE BY <2>2
    <3>2. QED BY <3>1, CoveredInstant
  <2>3. QED BY <2>1, <2>2
<1>2. QED BY <1>1, PeriodsInvariant, PTL

-----------------------------------------------------------------------------
(***************************************************************************)
(* A behaviour of RatesView, without its registry, is one of RateTable, so *)
(* what is proved of the table above holds with currencies that change.    *)
(* The rest is about the registry: its ids and codes are keys, and the     *)
(* currencies of every row of rate are in it.                              *)
(***************************************************************************)
RegistryTypes ==
    /\ currency \subseteq Registry!Currency
    /\ \A k, l \in currency : k.id = l.id => k = l
CodesUnique == \A k, l \in currency : k.code = l.code => k = l
ForeignKeys == \A r \in rate : Registered(r.pair)
RegistryInv == RegistryTypes /\ CodesUnique /\ ForeignKeys

(***************************************************************************)
(* Registering, renaming and deleting currencies between the calls of      *)
(* update_rate gives the table no behaviour it does not have by itself.    *)
(***************************************************************************)
THEOREM ViewImplementsTable == ViewSpec => Spec
<1>1. ViewInit => Init BY DEF ViewInit
<1>2. [ViewNext]_registryVars => [Next]_rate
  <2>1. ASSUME NEW p \in Pairs, NEW v \in Values, NEW d \in Dates,
               UpdateRate(p, v, d)
        PROVE  Next
    BY <2>1 DEF UpdateRate, Next
  <2>2. CASE ChangeRegistry BY <2>2 DEF ChangeRegistry
  <2>3. CASE UNCHANGED registryVars BY <2>3 DEF registryVars
  <2>4. QED BY <2>1, <2>2, <2>3 DEF ViewNext
<1>3. QED BY <1>1, <1>2, PTL DEF ViewSpec, Spec

-----------------------------------------------------------------------------
(***************************************************************************)
(* A row of rate after a call is of the call's pair, or of a pair that     *)
(* had a row before.                                                       *)
(***************************************************************************)
LEMMA PairsOfRows ==
    ASSUME TypeOK, NEW p \in Pairs, NEW v \in Values, NEW d \in Dates,
           update_rate(p, v, d), NEW r \in rate'
    PROVE  r.pair = p \/ \E s \in rate : s.pair = r.pair
<1>1. \A s \in rate : [s EXCEPT !.val = v].pair = s.pair
  BY DEF TypeOK, Row
<1>2. \A s \in rate : [s EXCEPT !.vt = d].pair = s.pair
  BY DEF TypeOK, Row
<1>3. CASE RefreshPeriod(p, v, d)
  BY <1>1, <1>3 DEF RefreshPeriod, SetValue, Covering
<1>4. ASSUME NEW to, OpenPeriod(p, v, d, to)
      PROVE  r.pair = p \/ \E s \in rate : s.pair = r.pair
  <2>1. \/ r \in rate
        \/ \E s \in rate : r = [s EXCEPT !.vt = d]
        \/ r = NewPeriod(p, v, d, to)
    BY <1>4 DEF OpenPeriod, ClosePeriod, Covering
  <2>2. NewPeriod(p, v, d, to).pair = p BY DEF NewPeriod
  <2>3. QED BY <1>2, <2>1, <2>2
<1>5. CASE SplitPeriod(p, v, d) BY <1>4, <1>5 DEF SplitPeriod
<1>6. CASE FirstPeriod(p, v, d) BY <1>4, <1>6 DEF FirstPeriod
<1>7. QED BY <1>3, <1>5, <1>6 DEF update_rate

(***************************************************************************)
(* Every function of the registry keeps its keys, and no id that a row of  *)
(* rate refers to goes away.                                               *)
(***************************************************************************)
LEMMA RegistryStep ==
    ASSUME RegistryInv, TypeOK, ChangeRegistry
    PROVE  RegistryInv'
<1> USE DEF RegistryInv, RegistryTypes, CodesUnique, ForeignKeys, Registered,
        Registry!RowsOf, Registry!Currency, Registry!Entry, Registry!CodeFree
<1>0. rate' = rate BY DEF ChangeRegistry
<1>1. \A r \in rate : r.pair \in Ids \X Ids
  BY ViewAssumption DEF TypeOK, Row
<1>2. ASSUME NEW i \in Ids, NEW c \in Codes, Registry!new_currency(i, c)
      PROVE  RegistryInv'
  BY <1>0, <1>2 DEF Registry!new_currency
<1>3. ASSUME NEW c \in Codes, Registry!add_currency(c) PROVE RegistryInv'
  BY <1>2, <1>3 DEF Registry!add_currency
<1>4. ASSUME NEW i \in Ids, NEW c \in Codes \cup {NullCode},
             Registry!update_currency(i, c)
      PROVE  RegistryInv'
  <2>1. PICK k \in currency :
          /\ k.id = i
          /\ Registry!CodeFree(Registry!coalesce(c, k.code), {k})
          /\ currency' = (currency \ {k}) \cup
               {[k EXCEPT !.code = Registry!coalesce(c, @)]}
    BY <1>4 DEF Registry!update_currency
  <2> DEFINE new == [k EXCEPT !.code = Registry!coalesce(c, @)]
  <2>2. /\ new \in Registry!Currency /\ new.id = k.id
        /\ new.code = Registry!coalesce(c, k.code)
    BY DEF Registry!coalesce
  <2>3. RegistryTypes' BY <2>1, <2>2
  <2>4. CodesUnique' BY <2>1, <2>2
  <2>5. \A j : (\E l \in currency : l.id = j)
                  => (\E l \in currency' : l.id = j)
    BY <2>1, <2>2
  <2>6. ForeignKeys' BY <1>0, <2>5
  <2>7. QED BY <2>3, <2>4, <2>6
<1>5. ASSUME NEW i \in Ids, Registry!DeleteCurrency(i, Referenced)
      PROVE  RegistryInv'
  <2>1. currency' = {k \in currency : k.id # i} /\ i \notin Referenced
    BY <1>5 DEF Registry!DeleteCurrency, Registry!Restricted
  <2>2. \A r \in rate : r.pair[1] # i /\ r.pair[2] # i
    BY <2>1 DEF Referenced
  <2>3. ForeignKeys' BY <1>0, <2>1, <2>2
  <2>4. QED BY <2>1, <2>3
<1>6. QED BY <1>2, <1>3, <1>4, <1>5 DEF ChangeRegistry

-----------------------------------------------------------------------------
(***************************************************************************)
(* In every reachable state, ids and codes are keys of the registry, and   *)
(* the currencies of every row of rate are registered.                     *)
(***************************************************************************)
THEOREM RegistryInvariant == ~AllowEarlier => (ViewSpec => []RegistryInv)
<1> SUFFICES ASSUME ~AllowEarlier PROVE ViewSpec => []RegistryInv
  OBVIOUS
<1>1. ViewInit => RegistryInv
  BY ViewAssumption DEF ViewInit, Init, RegistryInv, RegistryTypes, CodesUnique,
     ForeignKeys
<1>2. RegistryInv /\ TypeOK /\ [ViewNext]_registryVars => RegistryInv'
  <2> SUFFICES ASSUME RegistryInv, TypeOK, [ViewNext]_registryVars
               PROVE  RegistryInv'
    OBVIOUS
  <2>1. ASSUME NEW p \in Pairs, NEW v \in Values, NEW d \in Dates,
               UpdateRate(p, v, d)
        PROVE  RegistryInv'
    <3>1. /\ update_rate(p, v, d) /\ Registered(p) /\ currency' = currency
      BY <2>1 DEF UpdateRate
    <3>2. \A r \in rate' : Registered(r.pair)
      BY <3>1, PairsOfRows DEF RegistryInv, ForeignKeys
    <3>3. QED
      BY <3>1, <3>2 DEF RegistryInv, RegistryTypes, CodesUnique, ForeignKeys,
         Registered, Registry!RowsOf
  <2>2. CASE ChangeRegistry BY <2>2, RegistryStep
  <2>3. CASE UNCHANGED registryVars
    BY <2>3 DEF registryVars, RegistryInv, RegistryTypes, CodesUnique,
       ForeignKeys, Registered, Registry!RowsOf
  <2>4. QED BY <2>1, <2>2, <2>3 DEF ViewNext
<1>3. ViewSpec => []TypeOK BY ViewImplementsTable, TypeCorrect, PTL
<1>4. QED BY <1>1, <1>2, <1>3, PTL DEF ViewSpec

(***************************************************************************)
(* The listing of public.rates at an instant is get_rate under the codes   *)
(* the currencies have now: complete by the foreign keys, without a pair   *)
(* of codes listed twice by the unique index on the code and because the   *)
(* periods of a pair do not overlap.                                       *)
(***************************************************************************)
LEMMA ListingFollows ==
    ASSUME RegistryInv, Periods
    PROVE  ListingIsGetRate
<1> SUFFICES ASSUME NEW x \in Dates
             PROVE  /\ \A p \in Pairs : get_rate(p, x) # {} =>
                         \E w \in Listing(x) : w.row.pair = p
                    /\ \A w, u \in Listing(x) :
                         w.from.code = u.from.code /\ w.to.code = u.to.code
                           => w = u
                    /\ \A w \in Listing(x) : ListedUnderCode(w, x)
  BY DEF ListingIsGetRate
<1>1. \A r, a, b : /\ Joined(r, a, b).row = r /\ Joined(r, a, b).from = a
                   /\ Joined(r, a, b).to = b
  BY DEF Joined
<1>2. ASSUME NEW w \in Listing(x)
      PROVE  /\ w = Joined(w.row, w.from, w.to)
             /\ w.row \in rate /\ w.from \in currency /\ w.to \in currency
             /\ w.from.id = w.row.pair[1] /\ w.to.id = w.row.pair[2]
             /\ w.row.vf <= x /\ x < w.row.vt
  <2>1. PICK r \in rate, a \in currency, b \in currency : w = Joined(r, a, b)
    BY DEF Listing, rates
  <2>2. QED BY <1>1, <2>1 DEF Listing, rates
<1>3. \A r \in rate : /\ r.pair \in Pairs
                      /\ r.pair = <<r.pair[1], r.pair[2]>>
  BY ViewAssumption DEF Periods, TypeOK, Row
<1>4. ASSUME NEW p \in Pairs, get_rate(p, x) # {}
      PROVE  \E w \in Listing(x) : w.row.pair = p
  <2>1. PICK r \in rate : r.pair = p /\ r.vf <= x /\ x < r.vt
    BY <1>4 DEF get_rate, Covering
  <2>2. PICK a \in currency, b \in currency :
           a.id = r.pair[1] /\ b.id = r.pair[2]
    BY DEF RegistryInv, ForeignKeys, Registered, Registry!RowsOf
  <2>3. Joined(r, a, b) \in rates BY <1>1, <2>2 DEF rates
  <2>4. QED BY <1>1, <2>1, <2>3 DEF Listing
<1>5. ASSUME NEW w \in Listing(x), NEW u \in Listing(x),
             w.from.code = u.from.code, w.to.code = u.to.code
      PROVE  w = u
  <2>1. w.from = u.from /\ w.to = u.to
    BY <1>2, <1>5 DEF RegistryInv, CodesUnique
  <2>2. w.row.pair = u.row.pair BY <1>2, <1>3, <2>1
  <2>3. w.row \in Covering(rate, w.row.pair, x)
    BY <1>2 DEF Covering
  <2>4. u.row \in Covering(rate, w.row.pair, x)
    BY <1>2, <2>2 DEF Covering
  <2>5. w.row = u.row
    BY <1>2, <1>3, <2>3, <2>4, OneCovering DEF Periods
  <2>6. QED BY <1>2, <2>1, <2>5
<1>6. ASSUME NEW w \in Listing(x) PROVE ListedUnderCode(w, x)
  <2>1. /\ w.from.id \in Registry!get_currency_id(w.from.code)
        /\ w.to.id \in Registry!get_currency_id(w.to.code)
    BY <1>2 DEF Registry!get_currency_id
  <2>2. <<w.from.id, w.to.id>> = w.row.pair BY <1>2, <1>3
  <2>3. w.row.val \in get_rate(w.row.pair, x)
    BY <1>2 DEF get_rate, Covering
  <2>4. QED BY <2>1, <2>2, <2>3 DEF ListedUnderCode
<1>7. QED BY <1>4, <1>5, <1>6

(***************************************************************************)
(* The listing of the current rates is always what get_rate says, for any  *)
(* number of currencies, codes and calls.                                  *)
(***************************************************************************)
THEOREM ListingCorrect == ~AllowEarlier => (ViewSpec => []ListingIsGetRate)
<1>1. RegistryInv /\ Periods => ListingIsGetRate BY ListingFollows
<1>2. QED
  BY <1>1, RegistryInvariant, ViewImplementsTable, PeriodsInvariant, PTL
=============================================================================
