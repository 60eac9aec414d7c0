---------------------------- MODULE SerialProofs ----------------------------
(***************************************************************************)
(* Callbacks one at a time (PoolSize = 1): the rates of a pair do not      *)
(* overlap, and each call that commits is one step of the history of       *)
(* rates.                                                                  *)
(*                                                                         *)
(* Both go by what the call that runs sees, its own rows over the          *)
(* committed ones.  SerialInv: no two of its rows of a pair overlap.       *)
(* Whole: none of them is empty, so a row that starts at Now() is the only *)
(* one of its pair there; those the call has written at Now() are those of *)
(* the currencies its quotes went to, and the others it has closed have    *)
(* kept their start and value.  Commit makes what it sees the table.       *)
(***************************************************************************)
EXTENDS QuoteProofs

(***************************************************************************)
(* Callbacks one at a time: the rates the pool's single connection leaves  *)
(* do not overlap.  Time tells why: every row starts at the call's Now()   *)
(* or earlier, so a row that does not cover Now() has ended by then, and   *)
(* once the UPDATE has visited its rows the whole future is free.          *)
(***************************************************************************)
NoOverlaps(tab) ==
    \A i, j \in DOMAIN tab :
        ~ /\ i # j /\ PairOf(i) = PairOf(j)
          /\ tab[i].vf < tab[j].vt /\ tab[j].vf < tab[i].vt

\* The initial table, at the clock's initial time.
StartsSerial == OneRate /\ \A id \in DOMAIN rate : rate[id].vf <= clock

Serially(t) ==
    /\ now[t] <= clock
    /\ \A id \in DOMAIN rate : rate[id].vf <= now[t]
    /\ NoOverlaps(Visible(t))
    /\ pc[t] = "closing" =>
          \A j \in DOMAIN Visible(t) :
             PairOf(j) = to[t] =>
                Visible(t)[j].vt <= now[t] \/ j \in targets[t]

SerialInv ==
    /\ StartsSerial
    /\ \A t, u \in Running : t = u
    /\ \A t \in Running : Serially(t)

LEMMA NoneRunning ==
    ASSUME PoolSize = 1, Cardinality(Running) < PoolSize
    PROVE  Running = {}
<1>1. IsFiniteSet(Running)
  BY CallbackAssumption, FS_Subset DEF Running
<1>2. Cardinality(Running) = 0
  BY <1>1, FS_CardinalityType
<1>3. QED BY <1>1, <1>2, FS_EmptySet

(***************************************************************************)
(* A step of the running call: its rows still do not overlap.              *)
(***************************************************************************)
LEMMA SerialStep ==
    ASSUME SerialInv, NEW t \in Running,
           UNCHANGED <<rate, clock, now>>,
           \A u \in Txns \ {t} : pc'[u] = pc[u],
           t \in Running' => Serially(t)'
    PROVE  SerialInv'
<1>1. \A u \in Txns : u # t => u \notin Running'
  BY DEF SerialInv, Running
<1>2. StartsSerial' BY DEF SerialInv, StartsSerial, OneRate, Overlap
<1>3. QED BY <1>1, <1>2 DEF SerialInv, Running

LEMMA SerialFail ==
    ASSUME CallInv, SerialInv, NEW t \in Running, Fail(t)
    PROVE  SerialInv'
<1>1. pc'[t] = "failed" /\ \A u \in Txns \ {t} : pc'[u] = pc[u]
  BY DEF Fail, Goto, CallInv, CallTypes, Running
<1>2. QED BY <1>1, SerialStep DEF Fail, Running, Ends

\* A step that writes nothing.
LEMMA SerialReads ==
    ASSUME CallInv, SerialInv, NEW t \in Running,
           UNCHANGED <<rate, own, clock, now>>,
           \A u \in Txns \ {t} : pc'[u] = pc[u],
           pc'[t] = "closing" =>
              \A j \in DOMAIN Visible(t) :
                 PairOf(j) = to'[t] =>
                    Visible(t)[j].vt <= now[t] \/ j \in targets'[t]
    PROVE  SerialInv'
<1>1. Visible(t)' = Visible(t) BY DEF Visible
<1>2. Serially(t)' BY <1>1 DEF SerialInv, Serially, NoOverlaps
<1>3. QED BY <1>2, SerialStep

\* A step that writes a row no longer than it was, or one of the future.
LEMMA SerialWrites ==
    ASSUME CallInv, SerialInv, NEW t \in Running, NEW id, NEW row,
           UNCHANGED <<rate, clock, now, to>>,
           \A u \in Txns \ {t} : pc'[u] = pc[u],
           own' = [own EXCEPT ![t] = Assign(own[t], id, row)],
           \A j \in DOMAIN Visible(t) \ {id} :
              PairOf(j) = PairOf(id) =>
                 \/ ~(row.vf < Visible(t)[j].vt)
                 \/ ~(Visible(t)[j].vf < row.vt),
           pc'[t] = "closing" =>
              /\ pc[t] = "closing" /\ targets[t] \ {id} \subseteq targets'[t]
              /\ row.vt <= now[t]
    PROVE  SerialInv'
<1>1. /\ DOMAIN Visible(t)' = DOMAIN Visible(t) \cup {id}
      /\ Visible(t)'[id] = row
      /\ \A j \in DOMAIN Visible(t) \ {id} : Visible(t)'[j] = Visible(t)[j]
  BY ViewWrites DEF Running
<1>2. NoOverlaps(Visible(t))'
  BY <1>1 DEF SerialInv, Serially, NoOverlaps
<1>3. pc'[t] = "closing" =>
         \A j \in DOMAIN Visible(t)' :
            PairOf(j) = to'[t] => Visible(t)'[j].vt <= now[t] \/ j \in targets'[t]
  BY <1>1 DEF SerialInv, Serially
<1>4. Serially(t)' BY <1>2, <1>3 DEF SerialInv, Serially
<1>5. QED BY <1>4, SerialStep

LEMMA SerialBegin ==
    ASSUME PoolSize = 1, CallInv, SerialInv, NEW t \in Txns, Begin(t)
    PROVE  SerialInv'
<1>1. Running = {} BY NoneRunning DEF Begin
<1>2. /\ \A u \in Txns \ {t} : pc'[u] = pc[u]
      /\ now'[t] = clock /\ pc'[t] \in {"next", "ignored"}
      /\ UNCHANGED <<rate, own, clock>>
  BY DEF Begin, Goto, CallInv, CallTypes
<1>3. \A u \in Running' : u = t BY <1>1, <1>2 DEF Running
<1>4. clock \in Nat /\ DOMAIN own[t] = {}
  BY CallbackAssumption DEF CallInv, CallTypes, Written, Begin
<1>5. /\ DOMAIN Visible(t)' = DOMAIN rate
      /\ \A j \in DOMAIN rate : Visible(t)'[j] = rate[j]
  BY <1>2, <1>4 DEF Visible, Over
<1>6. NoOverlaps(Visible(t))'
  BY <1>5 DEF SerialInv, StartsSerial, OneRate, Overlap, NoOverlaps
<1>7. Serially(t)'
  BY <1>2, <1>4, <1>6 DEF SerialInv, StartsSerial, Serially
<1>8. StartsSerial' BY <1>2 DEF SerialInv, StartsSerial, OneRate, Overlap
<1>9. QED BY <1>3, <1>7, <1>8 DEF SerialInv

LEMMA SerialCommit ==
    ASSUME CallInv, SerialInv, NEW t \in Txns, Commit(t)
    PROVE  SerialInv'
<1>1. t \in Running BY DEF Commit, Running, Ends
<1>2. rate' = Visible(t) /\ UNCHANGED clock BY DEF Commit, Visible
<1>3. \A u \in Txns : u \notin Running'
  BY <1>1 DEF SerialInv, Commit, Goto, CallInv, CallTypes, Running, Ends
<1>4. \A id \in DOMAIN Visible(t) : Visible(t)[id].vf <= clock
  <2>1. now[t] <= clock /\ \A id \in DOMAIN rate : rate[id].vf <= clock
    BY <1>1 DEF SerialInv, Serially, StartsSerial
  <2>2. QED BY <1>1, <2>1, VisibleRow DEF Running
<1>5. \A i, j \in DOMAIN Visible(t) :
         ~ /\ i # j /\ PairOf(i) = PairOf(j)
           /\ Visible(t)[i].vf < Visible(t)[j].vt
           /\ Visible(t)[j].vf < Visible(t)[i].vt
  BY <1>1 DEF SerialInv, Serially, NoOverlaps
<1>6. StartsSerial'
  BY <1>2, <1>4, <1>5 DEF StartsSerial, OneRate, Overlap
<1>7. QED BY <1>3, <1>6 DEF SerialInv, Running

\* While a call runs alone, each row it sees starts at its Now() or before.
LEMMA StartsByNow ==
    ASSUME CallInv, SerialInv, NEW t \in Running, NEW j \in DOMAIN Visible(t)
    PROVE  /\ Visible(t)[j].vf \in Nat /\ Visible(t)[j].vt \in Nat
           /\ now[t] \in Nat
           /\ Visible(t)[j].vf <= now[t]
           /\ ~Covers(Visible(t)[j], now[t]) => Visible(t)[j].vt <= now[t]
<1>1. Visible(t)[j] \in Row /\ Visible(t)[j].vf <= Visible(t)[j].vt
  BY VisibleRow DEF Running
<1>2. /\ Visible(t)[j].vf \in Nat /\ Visible(t)[j].vt \in Nat
      /\ now[t] \in Nat
  BY <1>1, CallbackAssumption DEF Row, CallInv, CallTypes, Running
<1>3. Visible(t)[j].vf <= now[t]
  BY <1>2, VisibleRow DEF SerialInv, Serially, Running
<1>4. QED BY <1>2, <1>3 DEF Covers

LEMMA SerialStartUpdate ==
    ASSUME CallInv, SerialInv, NEW t \in Txns, StartUpdate(t)
    PROVE  SerialInv'
<1>1. t \in Running BY DEF StartUpdate, Running, Ends
<1>2. /\ targets'[t] = RowsToUpdate(t)
      /\ \A u \in Txns \ {t} : pc'[u] = pc[u]
      /\ UNCHANGED <<rate, own, clock, now, to>>
  BY DEF StartUpdate, Goto, CallInv, CallTypes
<1>3. ASSUME NEW j \in DOMAIN Visible(t), PairOf(j) = to[t]
      PROVE  Visible(t)[j].vt <= now[t] \/ j \in targets'[t]
  BY <1>1, <1>2, <1>3, StartsByNow DEF RowsToUpdate, CoveringIds
<1>4. QED BY <1>1, <1>2, <1>3, SerialReads

LEMMA SerialRefresh ==
    ASSUME CallInv, SerialInv, NEW t \in Txns, NEW id \in targets[t],
           RefreshRow(t, id)
    PROVE  SerialInv'
<1>1. t \in Running BY DEF RefreshRow, Running, Ends
<1>2. pc[t] = "refreshing" /\ UNCHANGED <<rate, clock, pc, now, to>>
  BY DEF RefreshRow
<1>3. CASE own' = own BY <1>1, <1>2, <1>3, SerialReads
<1>4. ASSUME NEW row, row = [Visible(t)[id] EXCEPT !.val = t],
             own' = [own EXCEPT ![t] = Assign(own[t], id, row)]
      PROVE  SerialInv'
  <2>1. id \in DOMAIN Visible(t)
    BY <1>2 DEF CallInv, Remembered, Visible, Over
  <2>2. row.vf = Visible(t)[id].vf /\ row.vt = Visible(t)[id].vt
    BY <1>4, <2>1, VisibleRow DEF Row
  <2>3. \A j \in DOMAIN Visible(t) \ {id} :
           PairOf(j) = PairOf(id) =>
              \/ ~(row.vf < Visible(t)[j].vt)
              \/ ~(Visible(t)[j].vf < row.vt)
    BY <1>1, <2>1, <2>2 DEF SerialInv, Serially, NoOverlaps
  <2>4. QED BY <1>1, <1>2, <1>4, <2>3, SerialWrites
<1>5. QED BY <1>3, <1>4 DEF RefreshRow

LEMMA SerialClose ==
    ASSUME CallInv, SerialInv, NEW t \in Txns, NEW id \in targets[t],
           CloseRow(t, id)
    PROVE  SerialInv'
<1>1. t \in Running /\ pc[t] = "closing" BY DEF CloseRow, Running, Ends
<1>2. id \in DOMAIN Visible(t)
  BY <1>1 DEF CallInv, Remembered, Visible, Over
<1>3. CASE Fail(t) BY <1>1, <1>3, SerialFail
<1>4. CASE /\ ~Covers(Visible(t)[id], now[t])
           /\ targets' = [targets EXCEPT ![t] = @ \ {id}]
           /\ UNCHANGED <<rate, own, clock, pc, now, to>>
  <2>1. targets'[t] = targets[t] \ {id} BY <1>4 DEF CallInv, CallTypes
  <2>2. Visible(t)[id].vt <= now[t] BY <1>1, <1>2, <1>4, StartsByNow
  <2>3. \A j \in DOMAIN Visible(t) :
           PairOf(j) = to'[t] => Visible(t)[j].vt <= now[t] \/ j \in targets'[t]
    BY <1>1, <1>4, <2>1, <2>2 DEF SerialInv, Serially
  <2>4. QED BY <1>1, <1>4, <2>3, SerialReads
<1>5. ASSUME NEW row, row = [Visible(t)[id] EXCEPT !.vt = now[t]],
             Covers(Visible(t)[id], now[t]),
             targets' = [targets EXCEPT ![t] = @ \ {id}],
             own' = [own EXCEPT ![t] = Assign(own[t], id, row)],
             UNCHANGED <<rate, clock, pc, now, to>>
      PROVE  SerialInv'
  <2>1. row.vf = Visible(t)[id].vf /\ row.vt = now[t]
    BY <1>2, <1>5, VisibleRow DEF Row
  <2>2. targets'[t] = targets[t] \ {id} BY <1>5 DEF CallInv, CallTypes
  <2>3. ASSUME NEW j \in DOMAIN Visible(t) \ {id}, PairOf(j) = PairOf(id)
        PROVE  \/ ~(row.vf < Visible(t)[j].vt)
               \/ ~(Visible(t)[j].vf < row.vt)
    <3>1. \/ ~(Visible(t)[id].vf < Visible(t)[j].vt)
          \/ ~(Visible(t)[j].vf < Visible(t)[id].vt)
      BY <1>1, <1>2, <2>3 DEF SerialInv, Serially, NoOverlaps
    <3>2. /\ now[t] < Visible(t)[id].vt /\ now[t] \in Nat
          /\ Visible(t)[j].vf \in Nat /\ Visible(t)[id].vt \in Nat
      BY <1>1, <1>2, <1>5, StartsByNow DEF Covers
    <3>3. QED BY <2>1, <3>1, <3>2
  <2>4. row.vt <= now[t] BY <1>1, <1>2, <2>1, StartsByNow
  <2>5. QED BY <1>1, <1>5, <2>2, <2>3, <2>4, SerialWrites
<1>6. QED BY <1>3, <1>4, <1>5 DEF CloseRow

LEMMA SerialInsert ==
    ASSUME CallInv, SerialInv, NEW t \in Txns, InsertPeriod(t)
    PROVE  SerialInv'
<1>1. t \in Running /\ pc[t] = "closing" /\ targets[t] = {}
  BY DEF InsertPeriod, Running, Ends
<1>2. CASE Fail(t) BY <1>1, <1>2, SerialFail
<1>3. ASSUME NEW id, id = <<t, to[t]>>, NEW row,
             row = [vf |-> now[t], vt |-> coalesce(found[t]), val |-> t],
             own' = [own EXCEPT ![t] = Assign(own[t], id, row)],
             NextQuote(t), UNCHANGED <<rate, clock, now, to>>
      PROVE  SerialInv'
  <2>1. pc'[t] = "next" /\ \A u \in Txns \ {t} : pc'[u] = pc[u]
    BY <1>3 DEF NextQuote, Goto, CallInv, CallTypes
  <2>2. ASSUME NEW j \in DOMAIN Visible(t) \ {id}, PairOf(j) = PairOf(id)
        PROVE  \/ ~(row.vf < Visible(t)[j].vt)
               \/ ~(Visible(t)[j].vf < row.vt)
    <3>1. PairOf(j) = to[t] BY <1>3, <2>2 DEF PairOf
    <3>2. Visible(t)[j].vt <= now[t]
      BY <1>1, <3>1 DEF SerialInv, Serially
    <3>3. QED BY <1>1, <1>3, <3>2, StartsByNow
  <2>3. pc'[t] # "closing" BY <2>1
  <2>4. \A j \in DOMAIN Visible(t) \ {id} :
           PairOf(j) = PairOf(id) =>
              \/ ~(row.vf < Visible(t)[j].vt)
              \/ ~(Visible(t)[j].vf < row.vt)
    BY <2>2
  <2>5. own' = [own EXCEPT ![t] = Assign(own[t], id, row)]
        /\ UNCHANGED <<rate, clock, now, to>>
    BY <1>3
  <2>6. QED BY <1>1, <2>1, <2>3, <2>4, <2>5, SerialWrites
<1>4. QED BY <1>2, <1>3 DEF InsertPeriod

LEMMA SerialTick == ASSUME CallInv, SerialInv, Tick PROVE SerialInv'
<1>1. clock \in Nat /\ clock' = clock + 1
  BY CallbackAssumption DEF Tick, CallInv, CallTypes
<1>2. /\ \A t \in Running : now[t] \in Nat
      /\ \A id \in DOMAIN rate : rate[id].vf \in Nat
  BY CallbackAssumption
     DEF CallInv, CallTypes, Running, Committed, RowsOK, Row
<1>3. UNCHANGED <<rate, own, pc, now, to, targets>> BY DEF Tick
<1>4. StartsSerial'
  BY <1>1, <1>2, <1>3 DEF SerialInv, StartsSerial, OneRate, Overlap
<1>5. Running' = Running BY <1>3 DEF Running
<1>6. ASSUME NEW t \in Running PROVE Serially(t)'
  <2>1. Visible(t)' = Visible(t) BY <1>3 DEF Visible
  <2>2. QED BY <1>1, <1>2, <1>3, <2>1 DEF SerialInv, Serially, NoOverlaps
<1>7. QED BY <1>4, <1>5, <1>6 DEF SerialInv

LEMMA SerialStays ==
    ASSUME SerialInv, UNCHANGED <<rate, own, pc, now, to, targets, clock>>
    PROVE  SerialInv'
<1>1. StartsSerial' BY DEF SerialInv, StartsSerial, OneRate, Overlap
<1>2. Running' = Running BY DEF Running
<1>3. ASSUME NEW t \in Running PROVE Serially(t)'
  <2>1. Visible(t)' = Visible(t) BY DEF Visible
  <2>2. QED BY <2>1 DEF SerialInv, Serially, NoOverlaps
<1>4. QED BY <1>1, <1>2, <1>3 DEF SerialInv

LEMMA SerialSteps ==
    ASSUME PoolSize = 1, CallInv, SerialInv, [Next]_vars
    PROVE  SerialInv'
<1>1. ASSUME NEW t \in Txns, Step(t) PROVE SerialInv'
  <2>1. CASE LookUp(t)
    <3>1. /\ t \in Running /\ pc'[t] # "closing"
          /\ \A u \in Txns \ {t} : pc'[u] = pc[u]
          /\ UNCHANGED <<rate, own, clock, now>>
      BY <2>1 DEF LookUp, NextQuote, Goto, Running, Ends, CallInv, CallTypes
    <3>2. QED BY <3>1, SerialReads
  <2>2. CASE BadNumber(t) BY <2>2, SerialFail DEF BadNumber, Running, Ends
  <2>3. CASE SelectPeriod(t)
    <3>1. /\ t \in Running /\ pc'[t] # "closing"
          /\ \A u \in Txns \ {t} : pc'[u] = pc[u]
          /\ UNCHANGED <<rate, own, clock, now>>
      BY <2>3 DEF SelectPeriod, Goto, Running, Ends, CallInv, CallTypes
    <3>2. QED BY <3>1, SerialReads
  <2>4. CASE StartUpdate(t) BY <2>4, SerialStartUpdate
  <2>5. CASE \E id \in targets[t] : RefreshRow(t, id) \/ CloseRow(t, id)
    BY <2>5, SerialRefresh, SerialClose
  <2>6. CASE EndRefresh(t)
    <3>1. /\ t \in Running /\ pc'[t] # "closing"
          /\ \A u \in Txns \ {t} : pc'[u] = pc[u]
          /\ UNCHANGED <<rate, own, clock, now>>
      BY <2>6 DEF EndRefresh, NextQuote, Goto, Running, Ends, CallInv,
                  CallTypes
    <3>2. QED BY <3>1, SerialReads
  <2>7. CASE InsertPeriod(t) BY <2>7, SerialInsert
  <2>8. CASE Commit(t) BY <2>8, SerialCommit
  <2>9. CASE DeadlockDetected(t) BY <2>9, SerialFail DEF DeadlockDetected
  <2>10. QED
    BY <1>1, <2>1, <2>2, <2>3, <2>4, <2>5, <2>6, <2>7, <2>8, <2>9 DEF Step
<1>2. CASE ChangeRegistry BY <1>2, SerialStays DEF ChangeRegistry
<1>3. CASE UNCHANGED vars BY <1>3, SerialStays DEF vars
<1>4. QED
  BY <1>1, <1>2, <1>3, SerialTick, SerialBegin, SerialFail
     DEF Next, ConnectionLost

(***************************************************************************)
(* Callbacks run one at a time leave at most one rate of a pair at every   *)
(* instant, whatever fails or is undone and whatever is registered,        *)
(* renamed or deleted meanwhile, if the table they found had one and its   *)
(* periods had begun.                                                      *)
(***************************************************************************)
THEOREM OneRateSerially ==
    PoolSize = 1 /\ StartsSerial /\ Spec => []OneRate
<1> SUFFICES ASSUME PoolSize = 1 PROVE StartsSerial /\ Spec => []OneRate
  OBVIOUS
<1>1. StartsSerial /\ Init => SerialInv
  BY DEF Init, SerialInv, Running
<1>2. CallInv /\ SerialInv /\ [Next]_vars => SerialInv' BY SerialSteps
<1>3. SerialInv => OneRate BY DEF SerialInv, StartsSerial
<1>4. QED BY <1>1, <1>2, <1>3, CallsInvariant, PTL DEF Spec

-----------------------------------------------------------------------------
(***************************************************************************)
(* Callbacks one at a time: what a call has published.                     *)
(***************************************************************************)
NoneEmpty(tab) == \A id \in DOMAIN tab : tab[id].vf < tab[id].vt

\* The call has written the rate of p that starts at its Now().
Wrote(t, p) ==
    \E id \in DOMAIN own[t] :
        PairOf(id) = p /\ own[t][id].vf = now[t] /\ own[t][id].val = t

\* The currencies the quotes went to, those to come left out.
PlacedBy(t, f) ==
    /\ f \in [DOMAIN reply[t] -> Ids \cup {NoId}]
    /\ \A n \in DOMAIN reply[t] :
          /\ IF n < pos[t] THEN Placed(t, n, f[n]) ELSE f[n] = NoId
          /\ f[n] # NoId => Wrote(t, f[n])
    /\ \A p \in Ids : Wrote(t, p) =>
          \/ \E n \in DOMAIN reply[t] : f[n] = p
          \/ pc[t] = "refreshing" /\ p = to[t]

\* A row the call has written has its value and start, or those it had.
NewOrClosed(t) ==
    \A id \in DOMAIN own[t] :
        \/ own[t][id].vf = now[t] /\ own[t][id].val = t
        \/ id \in DOMAIN rate /\ own[t][id].val = rate[id].val

Whole(t) ==
    /\ NoneEmpty(Visible(t)) /\ NewOrClosed(t)
    /\ pc[t] \in {"close", "closing"} =>
          \A id \in DOMAIN Visible(t) :
             PairOf(id) = to[t] => Visible(t)[id].vf # now[t]
    /\ pc[t] = "refreshing" =>
          \/ Wrote(t, to[t])
          \/ \E id \in targets[t] : PeriodAt(Visible(t), id, to[t], now[t])
    /\ \E f \in [DOMAIN reply[t] -> Ids \cup {NoId}] : PlacedBy(t, f)

WholeInv == NoneEmpty(rate) /\ \A t \in Running : Whole(t)

(***************************************************************************)
(* A row that starts at Now() is the only one of its pair a call alone     *)
(* sees there.                                                             *)
(***************************************************************************)
LEMMA OneAtNow ==
    ASSUME CallInv, SerialInv, NEW t \in Running, NoneEmpty(Visible(t)),
           NEW i \in DOMAIN Visible(t), NEW j \in DOMAIN Visible(t),
           PairOf(i) = PairOf(j), Visible(t)[i].vf = now[t],
           Visible(t)[j].vf = now[t] \/ Covers(Visible(t)[j], now[t])
    PROVE  i = j
<1>1. /\ Visible(t)[i].vf \in Nat /\ Visible(t)[i].vt \in Nat
      /\ Visible(t)[j].vf \in Nat /\ Visible(t)[j].vt \in Nat
      /\ now[t] \in Nat
  BY StartsByNow
<1>2. /\ Visible(t)[i].vf < Visible(t)[i].vt
      /\ Visible(t)[j].vf < Visible(t)[j].vt
  BY DEF NoneEmpty
<1>3. Visible(t)[i].vf < Visible(t)[j].vt /\ Visible(t)[j].vf < Visible(t)[i].vt
  BY <1>1, <1>2 DEF Covers
<1>4. QED BY <1>3 DEF SerialInv, Serially, NoOverlaps

(***************************************************************************)
(* The quotes, when the call stays at one.                                 *)
(***************************************************************************)
LEMMA PlacedStays ==
    ASSUME NEW t \in Txns, NEW f, PlacedBy(t, f),
           UNCHANGED <<reply, pos>>, held[t] \subseteq held'[t],
           \A p : Wrote(t, p) => Wrote(t, p)',
           \A p \in Ids : Wrote(t, p)' =>
              Wrote(t, p) \/ (pc'[t] = "refreshing" /\ p = to'[t]),
           pc[t] = "refreshing" => pc'[t] = "refreshing" /\ to'[t] = to[t]
    PROVE  PlacedBy(t, f)'
BY DEF PlacedBy, Placed

\* The call goes on to the next quote; that one went to j.
LEMMA PlacedNext ==
    ASSUME RepliesOK, NEW t \in Txns, NEW f, PlacedBy(t, f),
           pos[t] \in DOMAIN reply[t], NEW j \in Ids \cup {NoId},
           Placed(t, pos[t], j),
           UNCHANGED <<reply, held, to>>, pos'[t] = pos[t] + 1,
           \A p : Wrote(t, p) => Wrote(t, p)',
           j # NoId => Wrote(t, j)',
           \A p \in Ids : Wrote(t, p)' => Wrote(t, p) \/ p = j,
           pc[t] = "refreshing" => to[t] = j,
           NEW g, g = [f EXCEPT ![pos[t]] = j]
    PROVE  PlacedBy(t, g)'
<1>1. pos[t] \in Nat /\ \A n \in DOMAIN reply[t] : n \in Nat
  <2>1. reply[t] \in Seq([code : Codes, numeric : BOOLEAN]) /\ pos[t] \in Nat
    BY DEF RepliesOK
  <2>2. QED BY <2>1
<1>2. /\ f \in [DOMAIN reply[t] -> Ids \cup {NoId}]
      /\ g \in [DOMAIN reply[t] -> Ids \cup {NoId}]
      /\ g[pos[t]] = j /\ \A n \in DOMAIN reply[t] \ {pos[t]} : g[n] = f[n]
  BY DEF PlacedBy
<1>3. f[pos[t]] = NoId BY <1>1 DEF PlacedBy
<1>4. \A n, i : Placed(t, n, i)' = Placed(t, n, i) BY DEF Placed
<1>5. ASSUME NEW n \in DOMAIN reply[t]
      PROVE  /\ IF n < pos[t] + 1 THEN Placed(t, n, g[n]) ELSE g[n] = NoId
             /\ g[n] # NoId => Wrote(t, g[n])'
  <2>1. CASE n = pos[t] BY <1>1, <1>2, <2>1
  <2>2. CASE n # pos[t] BY <1>1, <1>2, <2>2 DEF PlacedBy
  <2>3. QED BY <2>1, <2>2
<1>6. ASSUME NEW p \in Ids, Wrote(t, p)'
      PROVE  \E n \in DOMAIN reply[t] : g[n] = p
  <2>1. CASE p = j BY <1>2, <2>1
  <2>2. CASE p # j
    <3>1. PICK n \in DOMAIN reply[t] : f[n] = p
      BY <1>6, <2>2 DEF PlacedBy
    <3>2. p # NoId BY CallbackAssumption
    <3>3. QED BY <1>2, <1>3, <3>1, <3>2
  <2>3. QED BY <2>1, <2>2
<1>7. QED BY <1>2, <1>4, <1>5, <1>6 DEF PlacedBy

(***************************************************************************)
(* What a call has written stays so, when it writes another row, or that   *)
(* row with its start and value.                                           *)
(***************************************************************************)
LEMMA WroteRow ==
    ASSUME NEW t \in Txns, NEW id, NEW row, now'[t] = now[t],
           DOMAIN own'[t] = DOMAIN own[t] \cup {id}, own'[t][id] = row,
           \A k \in DOMAIN own[t] \ {id} : own'[t][k] = own[t][k],
           \/ id \notin DOMAIN own[t]
           \/ row.vf = now[t] /\ row.val = t
           \/ own[t][id].vf # now[t]
    PROVE  /\ \A p : Wrote(t, p) => Wrote(t, p)'
           /\ row.vf = now[t] /\ row.val = t => Wrote(t, PairOf(id))'
           /\ \A p : Wrote(t, p)' =>
                 \/ Wrote(t, p)
                 \/ p = PairOf(id) /\ row.vf = now[t] /\ row.val = t
<1>1. ASSUME NEW p, Wrote(t, p) PROVE Wrote(t, p)'
  <2>1. PICK k \in DOMAIN own[t] :
           PairOf(k) = p /\ own[t][k].vf = now[t] /\ own[t][k].val = t
    BY <1>1 DEF Wrote
  <2>2. CASE k # id BY <2>1, <2>2 DEF Wrote
  <2>3. CASE k = id BY <2>1, <2>3 DEF Wrote
  <2>4. QED BY <2>2, <2>3
<1>2. row.vf = now[t] /\ row.val = t => Wrote(t, PairOf(id))'
  BY DEF Wrote
<1>3. ASSUME NEW p, Wrote(t, p)'
      PROVE  \/ Wrote(t, p)
             \/ p = PairOf(id) /\ row.vf = now[t] /\ row.val = t
  <2>1. PICK k \in DOMAIN own'[t] :
           PairOf(k) = p /\ own'[t][k].vf = now[t] /\ own'[t][k].val = t
    BY <1>3 DEF Wrote
  <2>2. CASE k # id BY <2>1, <2>2 DEF Wrote
  <2>3. CASE k = id BY <2>1, <2>3
  <2>4. QED BY <2>2, <2>3
<1>4. QED BY <1>1, <1>2, <1>3

SerialCalls == QuotesInv /\ SerialInv /\ WholeInv

(***************************************************************************)
(* Steps of the one call that runs.                                        *)
(***************************************************************************)
LEMMA WholeStep ==
    ASSUME SerialCalls, NEW t \in Running, UNCHANGED rate,
           \A u \in Txns \ {t} : pc'[u] = pc[u],
           t \in Running' => Whole(t)'
    PROVE  WholeInv'
<1>1. \A u \in Txns : u # t => u \notin Running'
  BY DEF SerialCalls, SerialInv, Running
<1>2. NoneEmpty(rate)' BY DEF SerialCalls, WholeInv, NoneEmpty
<1>3. QED BY <1>1, <1>2 DEF WholeInv, Running

LEMMA WholeFail ==
    ASSUME SerialCalls, NEW t \in Running, Fail(t)
    PROVE  WholeInv'
<1>1. /\ pc'[t] = "failed" /\ \A u \in Txns \ {t} : pc'[u] = pc[u]
      /\ UNCHANGED rate
  BY DEF Fail, Goto, SerialCalls, QuotesInv, CallInv, CallTypes, Running
<1>2. t \notin Running' BY <1>1 DEF Running, Ends
<1>3. QED BY <1>1, <1>2, WholeStep

\* A step that writes nothing.
LEMMA WholeReads ==
    ASSUME SerialCalls, NEW t \in Running,
           UNCHANGED <<rate, own, now, reply>>,
           \A u \in Txns \ {t} : pc'[u] = pc[u],
           pc'[t] \in {"close", "closing"} =>
              \A id \in DOMAIN Visible(t) :
                 PairOf(id) = to'[t] => Visible(t)[id].vf # now[t],
           pc'[t] = "refreshing" =>
              \/ Wrote(t, to'[t])
              \/ \E id \in targets'[t] :
                    PeriodAt(Visible(t), id, to'[t], now[t]),
           \E f \in [DOMAIN reply[t] -> Ids \cup {NoId}] : PlacedBy(t, f)'
    PROVE  WholeInv'
<1>1. Visible(t)' = Visible(t) BY DEF Visible
<1>2. \A p : Wrote(t, p)' = Wrote(t, p) BY DEF Wrote
<1>3. Whole(t) BY DEF SerialCalls, WholeInv
<1>4. NewOrClosed(t)' BY <1>3 DEF Whole, NewOrClosed
<1>5. NoneEmpty(Visible(t))' BY <1>1, <1>3 DEF Whole, NoneEmpty
<1>6. /\ pc'[t] \in {"close", "closing"} =>
            \A id \in DOMAIN Visible(t)' :
               PairOf(id) = to'[t] => Visible(t)'[id].vf # now'[t]
      /\ pc'[t] = "refreshing" =>
            \/ Wrote(t, to[t])'
            \/ \E id \in targets'[t] : PeriodAt(Visible(t), id, to[t], now[t])'
  BY <1>1 DEF Wrote, PeriodAt
<1>7. Whole(t)' BY <1>4, <1>5, <1>6 DEF Whole
<1>8. QED BY <1>7, WholeStep

LEMMA WholeLookUp ==
    ASSUME SerialCalls, NEW t \in Txns, LookUp(t)
    PROVE  WholeInv'
<1>1. /\ CallInv /\ RepliesOK /\ KeysHeld /\ t \in Running
      /\ pc[t] = "next" /\ pc'[t] \in {"next", "select"}
      /\ pos[t] <= Len(reply[t])
      /\ \A u \in Txns \ {t} : pc'[u] = pc[u]
      /\ UNCHANGED <<rate, own, now, reply, held>>
  BY DEF LookUp, NextQuote, Goto, SerialCalls, QuotesInv, CallInv, CallTypes,
         context, Running, Ends
<1>2. pos[t] \in DOMAIN reply[t] /\ Quote(t).code \in Codes
  BY <1>1, QuoteAtPos
<1>3. PICK f \in [DOMAIN reply[t] -> Ids \cup {NoId}] : PlacedBy(t, f)
  BY <1>1 DEF SerialCalls, WholeInv, Whole
<1>4. \A p : Wrote(t, p)' = Wrote(t, p) BY <1>1 DEF Wrote
<1>5. ASSUME Holders(Quote(t).code) = {}, NextQuote(t), UNCHANGED to
      PROVE  \E g \in [DOMAIN reply[t] -> Ids \cup {NoId}] : PlacedBy(t, g)'
  <2>1. <<Quote(t).code, NoId>> \in Holdings BY <1>2, <1>5 DEF Holdings
  <2>2. Placed(t, pos[t], NoId) BY <1>1, <2>1 DEF RepliesOK, Placed, Quote
  <2>3. pos'[t] = pos[t] + 1 BY <1>1, <1>5 DEF NextQuote, RepliesOK
  <2>4. PICK g : g = [f EXCEPT ![pos[t]] = NoId] OBVIOUS
  <2>5. PlacedBy(t, g)'
    BY <1>1, <1>2, <1>3, <1>4, <1>5, <2>2, <2>3, <2>4, PlacedNext
  <2>6. g \in [DOMAIN reply[t] -> Ids \cup {NoId}] BY <2>4
  <2>7. QED BY <2>5, <2>6
<1>6. ASSUME UNCHANGED pos
      PROVE  \E g \in [DOMAIN reply[t] -> Ids \cup {NoId}] : PlacedBy(t, g)'
  BY <1>1, <1>3, <1>4, <1>6, PlacedStays
<1>7. \E g \in [DOMAIN reply[t] -> Ids \cup {NoId}] : PlacedBy(t, g)'
  BY <1>5, <1>6 DEF LookUp
<1>8. QED BY <1>1, <1>7, WholeReads

LEMMA WholeSelect ==
    ASSUME SerialCalls, NEW t \in Txns, SelectPeriod(t)
    PROVE  WholeInv'
<1>1. /\ CallInv /\ SerialInv /\ t \in Running /\ Whole(t)
      /\ pc[t] = "select" /\ pc'[t] \in {"refresh", "close"}
      /\ \A u \in Txns \ {t} : pc'[u] = pc[u]
      /\ UNCHANGED <<rate, own, now, reply, pos, to, held>>
  BY DEF SelectPeriod, Goto, SerialCalls, WholeInv, QuotesInv, CallInv,
         CallTypes, context, Running, Ends
<1>2. ASSUME NEW id \in DOMAIN Visible(t), PairOf(id) = to[t],
             Visible(t)[id].vf = now[t]
      PROVE  pc'[t] = "refresh"
  <2>1. id \in CoveringIds(Visible(t), to[t], now[t])
    <3>1. Visible(t)[id].vf < Visible(t)[id].vt
      BY <1>1 DEF Whole, NoneEmpty
    <3>2. now[t] \in Nat /\ Visible(t)[id].vt \in Nat BY <1>1, StartsByNow
    <3>3. QED BY <1>2, <3>1, <3>2 DEF CoveringIds, Covers
  <2>2. \A j \in CoveringIds(Visible(t), to[t], now[t]) : j = id
    BY <1>1, <1>2, OneAtNow DEF CoveringIds, Whole
  <2>3. QED
    BY <1>1, <1>2, <2>1, <2>2
       DEF SelectPeriod, Goto, StartsAt, CallInv, CallTypes
<1>3. \A id \in DOMAIN Visible(t) :
         pc'[t] = "close" /\ PairOf(id) = to[t] => Visible(t)[id].vf # now[t]
  BY <1>2
<1>4. \A p : Wrote(t, p)' = Wrote(t, p) BY <1>1 DEF Wrote
<1>5. \E f \in [DOMAIN reply[t] -> Ids \cup {NoId}] : PlacedBy(t, f)'
  BY <1>1, <1>4, PlacedStays DEF Whole
<1>6. QED BY <1>1, <1>3, <1>5, WholeReads

LEMMA WholeStartUpdate ==
    ASSUME SerialCalls, NEW t \in Txns, StartUpdate(t)
    PROVE  WholeInv'
<1>1. /\ CallInv /\ SerialInv /\ t \in Running /\ Whole(t)
      /\ CallQuotes(t)
      /\ \/ pc[t] = "refresh" /\ pc'[t] = "refreshing"
         \/ pc[t] = "close" /\ pc'[t] = "closing"
      /\ targets'[t] = RowsToUpdate(t)
      /\ \A u \in Txns \ {t} : pc'[u] = pc[u]
      /\ UNCHANGED <<rate, own, now, reply, pos, to, held>>
  BY DEF StartUpdate, Goto, SerialCalls, WholeInv, QuotesInv, CallInv,
         CallTypes, context, Running, Ends
<1>2. ASSUME pc'[t] = "refreshing"
      PROVE  \E id \in targets'[t] : PeriodAt(Visible(t), id, to[t], now[t])
  <2>1. PICK id \in DOMAIN Visible(t) :
           PeriodAt(Visible(t), id, to[t], now[t])
    BY <1>1, <1>2 DEF CallQuotes, Refreshes
  <2>2. now[t] \in Nat BY CallbackAssumption, <1>1 DEF CallInv, CallTypes
  <2>3. id \in RowsToUpdate(t)
    BY <2>1, <2>2 DEF RowsToUpdate, CoveringIds, Covers, PeriodAt
  <2>4. QED BY <1>1, <2>1, <2>3
<1>3. \A p : Wrote(t, p)' = Wrote(t, p) BY <1>1 DEF Wrote
<1>4. \E f \in [DOMAIN reply[t] -> Ids \cup {NoId}] : PlacedBy(t, f)'
  BY <1>1, <1>3, PlacedStays DEF Whole
<1>5. pc'[t] = "closing" =>
         \A id \in DOMAIN Visible(t) :
            PairOf(id) = to[t] => Visible(t)[id].vf # now[t]
  BY <1>1 DEF Whole
<1>6. QED BY <1>1, <1>2, <1>4, <1>5, WholeReads

LEMMA WholeEndRefresh ==
    ASSUME SerialCalls, NEW t \in Txns, EndRefresh(t)
    PROVE  WholeInv'
<1>1. /\ CallInv /\ RepliesOK /\ t \in Running /\ Whole(t) /\ AtQuote(t)
      /\ pc[t] = "refreshing" /\ pc'[t] = "next" /\ targets[t] = {}
      /\ pos'[t] = pos[t] + 1
      /\ \A u \in Txns \ {t} : pc'[u] = pc[u]
      /\ UNCHANGED <<rate, own, now, reply, to, held>>
  BY DEF EndRefresh, NextQuote, Goto, SerialCalls, WholeInv, QuotesInv,
         CallQuotes, CallInv, CallTypes, RepliesOK, context, Running, Ends
<1>2. /\ pos[t] \in DOMAIN reply[t] /\ to[t] \in Ids
      /\ Placed(t, pos[t], to[t])
  BY <1>1 DEF AtQuote
<1>3. PICK f \in [DOMAIN reply[t] -> Ids \cup {NoId}] : PlacedBy(t, f)
  BY <1>1 DEF Whole
<1>4. \A p : Wrote(t, p)' = Wrote(t, p) BY <1>1 DEF Wrote
<1>5. Wrote(t, to[t]) BY <1>1 DEF Whole
<1>6. PICK g : g = [f EXCEPT ![pos[t]] = to[t]] OBVIOUS
<1>7. PICK j : j = to[t] OBVIOUS
<1>8. Wrote(t, j)' BY <1>4, <1>5, <1>7
<1>9. PlacedBy(t, g)'
  BY <1>1, <1>2, <1>3, <1>4, <1>6, <1>7, <1>8, PlacedNext
<1>10. g \in [DOMAIN reply[t] -> Ids \cup {NoId}] BY <1>2, <1>6
<1>11. QED BY <1>1, <1>9, <1>10, WholeReads

(***************************************************************************)
(* A step that writes a row: of the call's Now() and value, or one that    *)
(* keeps its value and started before.                                     *)
(***************************************************************************)
LEMMA WholeWrites ==
    ASSUME SerialCalls, NEW t \in Running, NEW id, NEW row,
           UNCHANGED <<rate, now, reply, to>>,
           \A u \in Txns \ {t} : pc'[u] = pc[u],
           own' = [own EXCEPT ![t] = Assign(own[t], id, row)],
           row.vf < row.vt,
           \/ row.vf = now[t] /\ row.val = t
           \/ id \in DOMAIN rate /\ row.val = rate[id].val,
           pc'[t] \notin {"close"},
           pc'[t] = "closing" =>
              /\ pc[t] = "closing"
              /\ PairOf(id) = to[t] => row.vf # now[t],
           pc'[t] = "refreshing" => Wrote(t, to[t])',
           \E f \in [DOMAIN reply[t] -> Ids \cup {NoId}] : PlacedBy(t, f)'
    PROVE  WholeInv'
<1>1. CallInv /\ t \in Txns /\ Whole(t)
  BY DEF SerialCalls, WholeInv, QuotesInv, Running
<1>2. /\ DOMAIN Visible(t)' = DOMAIN Visible(t) \cup {id}
      /\ Visible(t)'[id] = row
      /\ \A j \in DOMAIN Visible(t) \ {id} : Visible(t)'[j] = Visible(t)[j]
  BY <1>1, ViewWrites
<1>3. /\ DOMAIN own'[t] = DOMAIN own[t] \cup {id}
      /\ own'[t][id] = row
      /\ \A k \in DOMAIN own[t] \ {id} : own'[t][k] = own[t][k]
  BY <1>1 DEF Assign, CallInv, CallTypes
<1>4. NoneEmpty(Visible(t))' BY <1>1, <1>2 DEF Whole, NoneEmpty
<1>5. NewOrClosed(t)' BY <1>1, <1>3 DEF Whole, NewOrClosed
<1>6. pc'[t] \in {"close", "closing"} =>
         \A k \in DOMAIN Visible(t)' :
            PairOf(k) = to'[t] => Visible(t)'[k].vf # now'[t]
  BY <1>1, <1>2 DEF Whole
<1>7. Whole(t)' BY <1>4, <1>5, <1>6 DEF Whole
<1>8. QED BY <1>7, WholeStep

LEMMA WholeRefresh ==
    ASSUME SerialCalls, NEW t \in Txns, NEW id \in targets[t],
           RefreshRow(t, id)
    PROVE  WholeInv'
<1>1. /\ CallInv /\ SerialInv /\ t \in Running /\ Whole(t)
      /\ pc[t] = "refreshing" /\ targets'[t] = targets[t] \ {id}
      /\ UNCHANGED <<rate, pc, now, reply, pos, to, held>>
  BY DEF RefreshRow, SerialCalls, WholeInv, QuotesInv, CallInv, CallTypes,
         context, Running, Ends
<1>2. id \in DOMAIN Visible(t) /\ PairOf(id) = to[t]
  BY <1>1 DEF CallInv, Remembered, Visible, Over
<1>3. PICK f \in [DOMAIN reply[t] -> Ids \cup {NoId}] : PlacedBy(t, f)
  BY <1>1 DEF Whole
<1>4. ASSUME own' = own, ~Covers(Visible(t)[id], now[t]) PROVE WholeInv'
  <2>1. \A p : Wrote(t, p)' = Wrote(t, p) BY <1>1, <1>4 DEF Wrote
  <2>2. PlacedBy(t, f)' BY <1>1, <1>3, <2>1, PlacedStays
  <2>3. now[t] \in Nat BY <1>1, CallbackAssumption DEF CallInv, CallTypes
  <2>4. ~PeriodAt(Visible(t), id, to[t], now[t])
    BY <1>4, <2>3 DEF PeriodAt, Covers
  <2>5. \/ Wrote(t, to[t])
        \/ \E k \in targets'[t] : PeriodAt(Visible(t), k, to[t], now[t])
    BY <1>1, <2>4 DEF Whole
  <2>6. QED BY <1>1, <1>4, <2>2, <2>5, WholeReads
<1>5. ASSUME NEW row, row = [Visible(t)[id] EXCEPT !.val = t],
             Covers(Visible(t)[id], now[t]),
             own' = [own EXCEPT ![t] = Assign(own[t], id, row)]
      PROVE  WholeInv'
  <2>1. PICK k \in DOMAIN Visible(t) :
           PairOf(k) = to[t] /\ Visible(t)[k].vf = now[t]
    BY <1>1 DEF Whole, Wrote, PeriodAt, Visible, Over
  <2>2. k = id BY <1>1, <1>2, <1>5, <2>1, OneAtNow DEF Whole
  <2>3. /\ row.vf = now[t] /\ row.val = t /\ row.vt = Visible(t)[id].vt
    BY <1>2, <1>1, <1>5, <2>1, <2>2, VisibleRow DEF Row
  <2>4. row.vf < row.vt
    BY <1>1, <1>2, <2>1, <2>2, <2>3 DEF Whole, NoneEmpty
  <2>0. /\ DOMAIN own'[t] = DOMAIN own[t] \cup {id}
        /\ own'[t][id] = row
        /\ \A j \in DOMAIN own[t] \ {id} : own'[t][j] = own[t][j]
    BY <1>1, <1>5 DEF Assign, CallInv, CallTypes
  <2>5. /\ \A p : Wrote(t, p) => Wrote(t, p)'
        /\ Wrote(t, PairOf(id))'
        /\ \A p : Wrote(t, p)' => Wrote(t, p) \/ p = PairOf(id)
    BY <1>1, <2>0, <2>3, WroteRow
  <2>6. PlacedBy(t, f)' BY <1>1, <1>2, <1>3, <2>5, PlacedStays
  <2>7. Wrote(t, to[t])' BY <1>1, <1>2, <2>5 DEF Wrote
  <2>8. QED BY <1>1, <1>5, <2>3, <2>4, <2>6, <2>7, WholeWrites
<1>6. QED BY <1>4, <1>5 DEF RefreshRow

LEMMA WholeClose ==
    ASSUME SerialCalls, NEW t \in Txns, NEW id \in targets[t], CloseRow(t, id)
    PROVE  WholeInv'
<1>1. /\ CallInv /\ SerialInv /\ t \in Running /\ Whole(t) /\ ValuesOK
      /\ pc[t] = "closing"
  BY DEF CloseRow, SerialCalls, WholeInv, QuotesInv, Running, Ends
<1>2. id \in DOMAIN Visible(t) /\ PairOf(id) = to[t]
  BY <1>1 DEF CallInv, Remembered, Visible, Over
<1>3. PICK f \in [DOMAIN reply[t] -> Ids \cup {NoId}] : PlacedBy(t, f)
  BY <1>1 DEF Whole
<1>4. CASE Fail(t) BY <1>1, <1>4, WholeFail
<1>5. ASSUME UNCHANGED <<rate, pc, now, reply, pos, to, held, own>>
      PROVE  WholeInv'
  <2>1. \A p : Wrote(t, p)' = Wrote(t, p) BY <1>5 DEF Wrote
  <2>2. PlacedBy(t, f)' BY <1>1, <1>3, <1>5, <2>1, PlacedStays
  <2>3. QED BY <1>1, <1>5, <2>2, WholeReads DEF Whole
<1>6. ASSUME NEW row, row = [Visible(t)[id] EXCEPT !.vt = now[t]],
             Covers(Visible(t)[id], now[t]),
             own' = [own EXCEPT ![t] = Assign(own[t], id, row)],
             UNCHANGED <<rate, pc, now, reply, pos, to, held>>
      PROVE  WholeInv'
  <2>1. /\ row.vf = Visible(t)[id].vf /\ row.vt = now[t]
        /\ row.val = Visible(t)[id].val
    BY <1>1, <1>2, <1>6, VisibleRow DEF Row
  <2>2. row.vf # now[t] BY <1>1, <1>2, <2>1 DEF Whole
  <2>3. row.vf < row.vt
    BY <1>1, <1>2, <1>6, <2>1, <2>2, StartsByNow
  <2>4. id \in DOMAIN own[t] => own[t][id].vf # now[t]
    BY <1>1, <1>2, <2>1, <2>2, VisibleRow
  <2>5. id \in DOMAIN rate /\ row.val = rate[id].val
    <3>1. CASE id \in DOMAIN own[t]
      BY <1>1, <1>2, <2>1, <2>4, <3>1, VisibleRow DEF Whole, NewOrClosed
    <3>2. CASE id \notin DOMAIN own[t]
      BY <1>1, <1>2, <2>1, <3>2, VisibleRow
    <3>3. QED BY <3>1, <3>2
  <2>0. /\ DOMAIN own'[t] = DOMAIN own[t] \cup {id}
        /\ own'[t][id] = row
        /\ \A j \in DOMAIN own[t] \ {id} : own'[t][j] = own[t][j]
    BY <1>1, <1>6 DEF Assign, CallInv, CallTypes
  <2>6. \A p : Wrote(t, p)' = Wrote(t, p)
    <3>1. \A p : Wrote(t, p) => Wrote(t, p)'
      BY <1>1, <1>6, <2>0, <2>4, WroteRow
    <3>2. ASSUME NEW p, Wrote(t, p)' PROVE Wrote(t, p)
      BY <1>6, <2>0, <2>2, <3>2 DEF Wrote
    <3>3. QED BY <3>1, <3>2 DEF Wrote
  <2>7. PlacedBy(t, f)' BY <1>1, <1>3, <1>6, <2>6, PlacedStays
  <2>8. QED BY <1>1, <1>6, <2>2, <2>3, <2>5, <2>7, WholeWrites
<1>7. QED BY <1>4, <1>5, <1>6 DEF CloseRow, context

LEMMA WholeInsert ==
    ASSUME SerialCalls, NEW t \in Txns, InsertPeriod(t)
    PROVE  WholeInv'
<1>1. /\ CallInv /\ SerialInv /\ t \in Running /\ Whole(t) /\ AtQuote(t)
      /\ RepliesOK /\ pc[t] = "closing"
  BY DEF InsertPeriod, SerialCalls, WholeInv, QuotesInv, CallQuotes, Running,
         Ends
<1>2. CASE Fail(t) BY <1>1, <1>2, WholeFail
<1>3. ASSUME NEW id, id = <<t, to[t]>>, NEW row,
             row = [vf |-> now[t], vt |-> coalesce(found[t]), val |-> t],
             own' = [own EXCEPT ![t] = Assign(own[t], id, row)],
             NextQuote(t), UNCHANGED <<context, rate, now, reply, to>>
      PROVE  WholeInv'
  <2>1. /\ pc'[t] = "next" /\ pos'[t] = pos[t] + 1 /\ held' = held
        /\ \A u \in Txns \ {t} : pc'[u] = pc[u]
    BY <1>1, <1>3 DEF NextQuote, Goto, CallInv, CallTypes, RepliesOK, context
  <2>2. row.vf = now[t] /\ row.val = t /\ row.vf < row.vt
    BY <1>1, <1>3, CallbackAssumption
       DEF CallInv, CallTypes, Remembered, coalesce, Null
  <2>3. PICK j : j = to[t] OBVIOUS
  <2>0. /\ DOMAIN own'[t] = DOMAIN own[t] \cup {id}
        /\ own'[t][id] = row
        /\ \A k \in DOMAIN own[t] \ {id} : own'[t][k] = own[t][k]
    BY <1>1, <1>3 DEF Assign, CallInv, CallTypes
  <2>4. /\ \A p : Wrote(t, p) => Wrote(t, p)'
        /\ Wrote(t, j)'
        /\ \A p : Wrote(t, p)' => Wrote(t, p) \/ p = j
    <3>1. PairOf(id) = j BY <1>3, <2>3 DEF PairOf
    <3>2. \A p : Wrote(t, p) => Wrote(t, p)'
      BY <1>1, <1>3, <2>0, <2>2, WroteRow
    <3>3. Wrote(t, PairOf(id))' BY <1>1, <1>3, <2>0, <2>2, WroteRow
    <3>4. \A p : Wrote(t, p)' => Wrote(t, p) \/ p = PairOf(id)
      BY <1>1, <1>3, <2>0, <2>2, WroteRow
    <3>5. QED BY <3>1, <3>2, <3>3, <3>4
  <2>5. PICK f \in [DOMAIN reply[t] -> Ids \cup {NoId}] : PlacedBy(t, f)
    BY <1>1 DEF Whole
  <2>6. PICK g : g = [f EXCEPT ![pos[t]] = j] OBVIOUS
  <2>7. pos[t] \in DOMAIN reply[t] /\ j \in Ids /\ Placed(t, pos[t], j)
    BY <1>1, <2>3 DEF AtQuote
  <2>8. PlacedBy(t, g)'
    BY <1>1, <1>3, <2>1, <2>4, <2>5, <2>6, <2>7, PlacedNext
  <2>9. g \in [DOMAIN reply[t] -> Ids \cup {NoId}] BY <2>6, <2>7
  <2>10. QED BY <1>1, <1>3, <2>1, <2>2, <2>8, <2>9, WholeWrites
<1>4. QED BY <1>2, <1>3 DEF InsertPeriod

LEMMA WholeBegin ==
    ASSUME PoolSize = 1, SerialCalls, NEW t \in Txns, Begin(t)
    PROVE  WholeInv'
<1>1. Running = {} BY NoneRunning DEF Begin
<1>2. /\ CallInv /\ RepliesOK /\ NoneEmpty(rate) /\ pc[t] = "idle"
      /\ \A u \in Txns \ {t} : pc'[u] = pc[u]
      /\ pc'[t] \in {"next", "ignored"}
      /\ UNCHANGED <<rate, own, pos>>
  BY DEF Begin, Goto, SerialCalls, WholeInv, QuotesInv, CallInv, CallTypes
<1>3. \A u \in Running' : u = t BY <1>1, <1>2 DEF Running
<1>4. DOMAIN own'[t] = {} BY <1>2 DEF CallInv, Written
<1>5. NewOrClosed(t)' /\ \A p : ~Wrote(t, p)'
  BY <1>4 DEF NewOrClosed, Wrote
<1>6. /\ DOMAIN Visible(t)' = DOMAIN rate
      /\ \A j \in DOMAIN rate : Visible(t)'[j] = rate[j]
  BY <1>2, <1>4 DEF Visible, Over
<1>7. NoneEmpty(Visible(t))' /\ NoneEmpty(rate)'
  BY <1>2, <1>6 DEF NoneEmpty
<1>8. \A n \in DOMAIN reply'[t] : ~(n < pos'[t])
  <2>1. reply'[t] \in Seq([code : Codes, numeric : BOOLEAN])
    BY <1>2, RepliesBegin DEF RepliesOK
  <2>2. pos'[t] = 1 BY <1>2 DEF RepliesOK
  <2>3. QED BY <2>1, <2>2
<1>9. PICK f : f = [n \in DOMAIN reply'[t] |-> NoId] OBVIOUS
<1>10. f \in [DOMAIN reply'[t] -> Ids \cup {NoId}] /\ PlacedBy(t, f)'
  BY <1>5, <1>8, <1>9 DEF PlacedBy
<1>11. Whole(t)' BY <1>2, <1>5, <1>7, <1>10 DEF Whole
<1>12. QED BY <1>3, <1>7, <1>11 DEF WholeInv

LEMMA WholeCommit ==
    ASSUME SerialCalls, NEW t \in Txns, Commit(t)
    PROVE  WholeInv'
<1>1. t \in Running /\ Whole(t)
  BY DEF Commit, Running, Ends, SerialCalls, WholeInv
<1>2. rate' = Visible(t) BY DEF Commit, Visible
<1>3. \A u \in Txns : u \notin Running'
  BY <1>1 DEF SerialCalls, SerialInv, QuotesInv, Commit, Goto, CallInv,
              CallTypes, Running, Ends
<1>4. NoneEmpty(rate)' BY <1>1, <1>2 DEF Whole, NoneEmpty
<1>5. QED BY <1>3, <1>4 DEF WholeInv, Running

\* A step of no call: other sessions and the clock.
LEMMA WholeStays ==
    ASSUME WholeInv,
           UNCHANGED <<rate, own, pc, now, reply, pos, to, targets>>,
           \A u \in Txns : held[u] \subseteq held'[u]
    PROVE  WholeInv'
<1>1. Running' = Running BY DEF Running
<1>2. NoneEmpty(rate)' BY DEF WholeInv, NoneEmpty
<1>3. ASSUME NEW t \in Running PROVE Whole(t)'
  <2>1. Visible(t)' = Visible(t) BY DEF Visible
  <2>2. \A p : Wrote(t, p)' = Wrote(t, p) BY DEF Wrote
  <2>3. t \in Txns /\ Whole(t) BY DEF Running, WholeInv
  <2>4. /\ NoneEmpty(Visible(t))' /\ NewOrClosed(t)'
        /\ pc'[t] \in {"close", "closing"} =>
              \A id \in DOMAIN Visible(t)' :
                 PairOf(id) = to'[t] => Visible(t)'[id].vf # now'[t]
    BY <2>1, <2>3 DEF Whole, NoneEmpty, NewOrClosed
  <2>5. pc'[t] = "refreshing" =>
           \/ Wrote(t, to[t])'
           \/ \E id \in targets'[t] :
                 PeriodAt(Visible(t), id, to[t], now[t])'
    BY <2>1, <2>3 DEF Whole, Wrote, PeriodAt
  <2>6. \E f \in [DOMAIN reply'[t] -> Ids \cup {NoId}] : PlacedBy(t, f)'
    BY <2>2, <2>3, PlacedStays DEF Whole
  <2>7. QED BY <2>4, <2>5, <2>6 DEF Whole
<1>4. QED BY <1>1, <1>2, <1>3 DEF WholeInv

LEMMA WholeSteps ==
    ASSUME PoolSize = 1, SerialCalls, [Next]_vars
    PROVE  WholeInv'
<1>1. ASSUME NEW t \in Txns, Step(t) PROVE WholeInv'
  <2>1. CASE LookUp(t) BY <2>1, WholeLookUp
  <2>2. CASE BadNumber(t) BY <2>2, WholeFail DEF BadNumber, Running, Ends
  <2>3. CASE SelectPeriod(t) BY <2>3, WholeSelect
  <2>4. CASE StartUpdate(t) BY <2>4, WholeStartUpdate
  <2>5. CASE \E id \in targets[t] : RefreshRow(t, id) \/ CloseRow(t, id)
    BY <2>5, WholeRefresh, WholeClose
  <2>6. CASE EndRefresh(t) BY <2>6, WholeEndRefresh
  <2>7. CASE InsertPeriod(t) BY <2>7, WholeInsert
  <2>8. CASE Commit(t) BY <2>8, WholeCommit
  <2>9. CASE DeadlockDetected(t) BY <2>9, WholeFail DEF DeadlockDetected
  <2>10. QED
    BY <1>1, <2>1, <2>2, <2>3, <2>4, <2>5, <2>6, <2>7, <2>8, <2>9 DEF Step
<1>2. ASSUME NEW t \in Txns, ConnectionLost(t) PROVE WholeInv'
  BY <1>2, WholeFail DEF ConnectionLost
<1>3. CASE Tick \/ ChangeRegistry \/ UNCHANGED vars
  BY <1>3, WholeStays
     DEF Tick, ChangeRegistry, vars, context, SerialCalls, QuotesInv, RepliesOK
<1>4. QED BY <1>1, <1>2, <1>3, WholeBegin DEF Next

-----------------------------------------------------------------------------
(***************************************************************************)
(* The history of the rates, and the step that commits a call.             *)
(***************************************************************************)
HistoryAt(p, d) ==
    IF StartingAt(p, d) = {} THEN "none"
    ELSE rate[CHOOSE id \in StartingAt(p, d) : TRUE].val

LEMMA SameStarts ==
    ASSUME NEW p, NEW d,
           \A id : PairOf(id) = p =>
              /\ id \in DOMAIN rate' /\ rate'[id].vf = d <=>
                    id \in DOMAIN rate /\ rate[id].vf = d
              /\ id \in DOMAIN rate /\ rate[id].vf = d =>
                    rate'[id].val = rate[id].val
    PROVE  HistoryAt(p, d)' = HistoryAt(p, d)
<1>1. StartingAt(p, d)' = StartingAt(p, d) BY DEF StartingAt
<1>2. CASE StartingAt(p, d) = {} BY <1>1, <1>2 DEF HistoryAt
<1>3. CASE StartingAt(p, d) # {}
  <2>1. PICK c : c = CHOOSE id \in StartingAt(p, d) : TRUE OBVIOUS
  <2>2. c \in StartingAt(p, d) BY <1>3, <2>1
  <2>3. HistoryAt(p, d) = rate[c].val BY <1>3, <2>1 DEF HistoryAt
  <2>4. HistoryAt(p, d)' = rate'[c].val BY <1>1, <1>3, <2>1 DEF HistoryAt
  <2>5. QED BY <2>2, <2>3, <2>4 DEF StartingAt
<1>4. QED BY <1>2, <1>3

(***************************************************************************)
(* A commit changes the rate of each pair the call has written, at its     *)
(* Now(), and no other.                                                    *)
(***************************************************************************)
LEMMA CommitHistory ==
    ASSUME SerialCalls, NEW t \in Txns, Commit(t), NEW p \in Pairs,
           NEW d \in 0 .. MaxDate - 1
    PROVE  HistoryAt(p, d)' =
              IF Wrote(t, p) /\ d = now[t] THEN t ELSE HistoryAt(p, d)
<1>1. /\ CallInv /\ SerialInv /\ t \in Running /\ Whole(t)
  BY DEF Commit, Running, Ends, SerialCalls, QuotesInv, WholeInv
<1>2. rate' = Visible(t) BY DEF Commit, Visible
<1>3. /\ DOMAIN rate' = DOMAIN own[t] \cup DOMAIN rate
      /\ \A id \in DOMAIN rate' :
            rate'[id] = IF id \in DOMAIN own[t] THEN own[t][id] ELSE rate[id]
  BY <1>2 DEF Visible, Over
<1>4. ASSUME Wrote(t, p), d = now[t] PROVE HistoryAt(p, d)' = t
  <2>1. PICK k \in DOMAIN own[t] :
           PairOf(k) = p /\ own[t][k].vf = now[t] /\ own[t][k].val = t
    BY <1>4 DEF Wrote
  <2>2. /\ k \in DOMAIN Visible(t) /\ Visible(t)[k].vf = now[t]
        /\ Visible(t)[k].val = t
    BY <1>2, <1>3, <2>1
  <2>3. \A id \in DOMAIN Visible(t) :
           PairOf(id) = p /\ Visible(t)[id].vf = now[t] => id = k
    BY <1>1, <2>1, <2>2, OneAtNow DEF Whole
  <2>4. /\ \E id \in DOMAIN rate' : PairOf(id) = p /\ rate'[id].vf = d
        /\ \A id \in DOMAIN rate' :
              PairOf(id) = p /\ rate'[id].vf = d => rate'[id].val = t
    BY <1>2, <1>4, <2>1, <2>2, <2>3
  <2>5. StartingAt(p, d)' # {} BY <2>4 DEF StartingAt
  <2>6. PICK c : c = CHOOSE id \in StartingAt(p, d)' : TRUE OBVIOUS
  <2>7. c \in StartingAt(p, d)' BY <2>5, <2>6
  <2>8. HistoryAt(p, d)' = rate'[c].val BY <2>5, <2>6 DEF HistoryAt
  <2>9. QED BY <2>4, <2>7, <2>8 DEF StartingAt
<1>5. ASSUME ~(Wrote(t, p) /\ d = now[t])
      PROVE  HistoryAt(p, d)' = HistoryAt(p, d)
  <2>1. ASSUME NEW id \in DOMAIN own[t], PairOf(id) = p, own[t][id].vf = d
        PROVE  /\ id \in DOMAIN rate /\ rate[id].vf = d
               /\ own[t][id].val = rate[id].val
    <3>1. ~(own[t][id].vf = now[t] /\ own[t][id].val = t)
      BY <1>5, <2>1 DEF Wrote
    <3>2. QED
      BY <1>1, <2>1, <3>1 DEF Whole, NewOrClosed, CallInv, Written, WrittenRow
  <2>2. ASSUME NEW id \in DOMAIN own[t], id \in DOMAIN rate
        PROVE  own[t][id].vf = rate[id].vf
    BY <1>1, <2>2 DEF CallInv, Written, WrittenRow
  <2>3. QED BY <1>3, <2>1, <2>2, SameStarts
<1>6. QED BY <1>4, <1>5

LEMMA CommitPublishes ==
    ASSUME SerialCalls, NEW t \in Txns, Commit(t)
    PROVE  PublishesAll(t)
<1>1. CallInv /\ t \in Running /\ Whole(t) /\ RepliesOK
  BY DEF Commit, Running, Ends, SerialCalls, QuotesInv, WholeInv
<1>2. PICK f \in [DOMAIN reply[t] -> Ids \cup {NoId}] : PlacedBy(t, f)
  BY <1>1 DEF Whole
<1>3. \A n \in DOMAIN reply[t] : n < pos[t]
  <2>1. reply[t] \in Seq([code : Codes, numeric : BOOLEAN]) /\ pos[t] \in Nat
    BY <1>1 DEF RepliesOK
  <2>2. QED BY <2>1 DEF Commit
<1>4. f \in Placements(t) BY <1>2, <1>3 DEF PlacedBy, Placed, Placements
<1>5. \A p \in Pairs : p \in Range(f) <=> Wrote(t, p)
  BY <1>2, CallbackAssumption DEF PlacedBy, Range, Pairs, Commit
<1>6. now[t] \in 0 .. MaxDate - 1 /\ t # "none"
  BY <1>1, CallbackAssumption DEF CallInv, CallTypes, NoId
<1>7. PICK quote : quote = [p \in Pairs |-> IF p \in Range(f) THEN t ELSE "none"]
  OBVIOUS
<1>8. \A p \in Pairs :
         /\ quote[p] = "none" => ~Wrote(t, p)
         /\ quote[p] # "none" => Wrote(t, p) /\ quote[p] = t
  BY <1>5, <1>6, <1>7
<1>9. histOf = [p \in Pairs |-> [d \in 0 .. MaxDate - 1 |-> HistoryAt(p, d)]]
  BY DEF histOf, HistoryAt
<1>10. histOf' = [p \in Pairs |-> [d \in 0 .. MaxDate - 1 |-> HistoryAt(p, d)']]
  BY DEF histOf, HistoryAt
<1>11. ASSUME NEW p \in Pairs
       PROVE  [d \in 0 .. MaxDate - 1 |-> HistoryAt(p, d)'] =
                 IF quote[p] = "none" THEN histOf[p]
                                      ELSE [histOf[p] EXCEPT ![now[t]] = quote[p]]
  <2>1. \A d \in 0 .. MaxDate - 1 :
           HistoryAt(p, d)' = IF Wrote(t, p) /\ d = now[t] THEN t
                                                           ELSE HistoryAt(p, d)
    BY CommitHistory
  <2>2. histOf[p] = [d \in 0 .. MaxDate - 1 |-> HistoryAt(p, d)] BY <1>9
  <2>3. CASE quote[p] = "none" BY <1>8, <2>1, <2>2, <2>3
  <2>4. CASE quote[p] # "none" BY <1>6, <1>8, <2>1, <2>2, <2>4
  <2>5. QED BY <2>3, <2>4
<1>12. History!Publish(quote, now[t]) BY <1>10, <1>11 DEF History!Publish
<1>13. QED BY <1>4, <1>7, <1>12 DEF PublishesAll

\* The initial table: as callbacks one at a time leave it.
StartsWhole == StartsSerial /\ NoneEmpty(rate)

(***************************************************************************)
(* Of callbacks that run one at a time, over a table in which no period is *)
(* empty and no two overlap: each that commits publishes, in one step of   *)
(* the history of rates (RateHistory), its Now() and the quotes of its     *)
(* whole reply, each under a currency that held the quote's code at some   *)
(* time of the call, and no other step changes the history.  For any       *)
(* replies, and whatever is registered, renamed or deleted meanwhile.      *)
(***************************************************************************)
THEOREM PublishedWhole ==
    PoolSize = 1 /\ StartsWhole /\ Spec => CallPublishesWhole
<1> SUFFICES ASSUME PoolSize = 1
             PROVE  StartsWhole /\ Spec => CallPublishesWhole
  OBVIOUS
<1>1. StartsWhole /\ Init => SerialCalls
  BY QuotesStart
     DEF Init, StartsWhole, SerialCalls, SerialInv, WholeInv, Running
<1>2. SerialCalls /\ [Next]_vars => SerialCalls'
  BY CallSteps, KeysHeldSteps, ValuesSteps, RepliesSteps, QuotesSteps,
     SerialSteps, WholeSteps DEF SerialCalls, QuotesInv
<1>3. SerialCalls /\ [Next]_vars =>
         [/\ \A t \in Txns : Commits(t) => PublishesAll(t)
          /\ (\A t \in Txns : ~Commits(t)) => UNCHANGED histOf]_vars
  <2>0. UNCHANGED rate => UNCHANGED histOf BY DEF histOf, StartingAt
  <2>1. SUFFICES ASSUME SerialCalls, [Next]_vars
                 PROVE  /\ \A t \in Txns : Commits(t) => PublishesAll(t)
                        /\ \/ UNCHANGED rate
                           \/ \E t \in Txns : Commits(t)
    BY <2>0, Zenon
  <2>2. pc \in [Txns -> Ends \cup {"idle", "next", "select", "refresh",
                                   "refreshing", "close", "closing"}]
    BY <2>1 DEF SerialCalls, QuotesInv, CallInv, CallTypes
  <2>3. ASSUME NEW t \in Txns, Commit(t) PROVE Commits(t)
    BY <2>2, <2>3 DEF Commit, Commits, Goto
  <2>4. ASSUME NEW t \in Txns, Begin(t) \/ Step(t) \/ ConnectionLost(t)
        PROVE  /\ Commit(t) \/ UNCHANGED rate
               /\ \A u \in Txns : Commits(u) => u = t /\ Commit(t)
    BY <2>2, <2>4
       DEF Begin, Step, ConnectionLost, LookUp, BadNumber, SelectPeriod,
           StartUpdate, RefreshRow, CloseRow, EndRefresh, InsertPeriod, Commit,
           DeadlockDetected, Fail, NextQuote, Goto, Commits
  <2>5. CASE Tick \/ ChangeRegistry \/ UNCHANGED vars
    BY <2>5 DEF Tick, ChangeRegistry, vars, Commits
  <2>6. QED BY <2>1, <2>3, <2>4, <2>5, CommitPublishes DEF Next
<1>4. QED BY <1>1, <1>2, <1>3, PTL DEF Spec, CallPublishesWhole

(***************************************************************************)
(* The refinement: over a table without empty or overlapping periods, each *)
(* step of the callbacks is one of RateHistory, or leaves the history.     *)
(***************************************************************************)
THEOREM SerialImplementsHistory ==
    PoolSize = 1 /\ StartsWhole /\ Spec => [][History!Next]_histOf
<1>1. ASSUME NEW t \in Txns, now[t] \in 0 .. MaxDate - 1, PublishesAll(t)
      PROVE  History!Next
  <2>1. PICK f \in Placements(t) :
           History!Publish([p \in Pairs |-> IF p \in Range(f) THEN t
                                                            ELSE "none"],
                           now[t])
    BY <1>1 DEF PublishesAll
  <2>2. [p \in Pairs |-> IF p \in Range(f) THEN t ELSE "none"]
           \in [Pairs -> History!Quotes]
    BY DEF History!Quotes
  <2>3. QED BY <1>1, <2>1, <2>2 DEF History!Next, History!Dates
<1>2. CallInv => \A t \in Txns : now[t] \in 0 .. MaxDate - 1
  BY CallbackAssumption DEF CallInv, CallTypes
<1>3. CallInv /\ [/\ \A t \in Txns : Commits(t) => PublishesAll(t)
                  /\ (\A t \in Txns : ~Commits(t)) => UNCHANGED histOf]_vars
        => [History!Next]_histOf
  <2>1. UNCHANGED vars => UNCHANGED histOf BY DEF vars, histOf, StartingAt
  <2>2. QED BY <1>1, <1>2, <2>1
<1>4. QED
  BY <1>3, PublishedWhole, CallsInvariant, PTL DEF CallPublishesWhole
=============================================================================
