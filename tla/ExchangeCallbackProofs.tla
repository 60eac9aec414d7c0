----------------------- MODULE ExchangeCallbackProofs -----------------------
(***************************************************************************)
(* Proofs about ExchangeCallback, for any number of calls, connections,    *)
(* currencies, instants and changes of the registry: however the calls     *)
(* interleave, no period ends before it starts, no instant loses its rate, *)
(* and it has two only if two calls ran side by side.                      *)
(*                                                                         *)
(* A row never changes the instant it starts at, and the committed table   *)
(* never loses a row.  So the argument is about starts: where a period     *)
(* ends, another one starts (Committed), and a call that has closed a row  *)
(* has written the period that starts there, or is about to (Written).     *)
(* That every later instant is covered by a period that starts no earlier  *)
(* is what remains true when another call closes the one that covered it.  *)
(***************************************************************************)
EXTENDS ExchangeCallback, FiniteSetTheorems, TLAPS

RowsOK(tab) ==
    \A id \in DOMAIN tab :
        /\ tab[id] \in Row
        /\ tab[id].vf <= tab[id].vt /\ tab[id].vf < MaxDate

\* Where a period of pair p ends: never, or where another one starts.
GoesOn(p, e) ==
    e = MaxDate \/ \E k \in DOMAIN rate : PairOf(k) = p /\ rate[k].vf = e

\* Instant x is covered by a period of p that starts at v or later.
LaterCovers(p, v, x) ==
    \E k \in DOMAIN rate :
        PairOf(k) = p /\ Covers(rate[k], x) /\ v <= rate[k].vf

Committed ==
    /\ RowsOK(rate)
    /\ \A id \in DOMAIN rate :
        /\ GoesOn(PairOf(id), rate[id].vt)
        /\ \A x \in rate[id].vf .. MaxDate - 1 :
              LaterCovers(PairOf(id), rate[id].vf, x)
        /\ id[1] \in Txns => pc[id[1]] = "done"

\* The call has written the period that starts at its Now().
Succeeded(t, p) ==
    \E s \in DOMAIN own[t] :
        PairOf(s) = p /\ own[t][s].vf = now[t] /\ now[t] < own[t][s].vt

\* The call is between the rows it closes and the INSERT.
Closing(t, p) == pc[t] = "closing" /\ to[t] = p

WrittenRow(t, id) ==
    /\ own[t][id].vt = now[t] \/ GoesOn(PairOf(id), own[t][id].vt)
    /\ own[t][id].vt = now[t] =>
          Succeeded(t, PairOf(id)) \/ Closing(t, PairOf(id))
    /\ id \in DOMAIN rate =>
          /\ own[t][id].vf = rate[id].vf
          /\ own[t][id].vt \in {rate[id].vt, now[t]}
    /\ id \notin DOMAIN rate =>
          id = <<t, PairOf(id)>> /\ own[t][id].vf = now[t]

Written ==
    \A t \in Txns :
        /\ RowsOK(own[t])
        /\ \A id \in DOMAIN own[t] : WrittenRow(t, id)
        /\ pc[t] = "idle" => DOMAIN own[t] = {}

\* No row is written by two calls at once.
Locked ==
    \A t, u \in Txns : t # u => DOMAIN own[t] \cap DOMAIN own[u] = {}

\* What a call remembers of the SELECT, and the rows its UPDATE will visit.
Remembered ==
    \A t \in Txns :
        /\ pc[t] \in {"refresh", "refreshing", "close", "closing"} =>
              \/ found[t] = Null
              \/ now[t] < found[t] /\ GoesOn(to[t], found[t])
        /\ pc[t] \in {"refreshing", "closing"} =>
              \A id \in targets[t] :
                 id \in DOMAIN own[t] \cup DOMAIN rate /\ PairOf(id) = to[t]

CallTypes ==
    /\ DOMAIN own = Txns /\ DOMAIN targets = Txns /\ DOMAIN to = Txns
    /\ clock \in 1 .. MaxClock
    /\ pc \in [Txns -> Ends \cup {"idle", "next", "select", "refresh",
                                  "refreshing", "close", "closing"}]
    /\ now \in [Txns -> 0 .. MaxClock]
    /\ found \in [Txns -> 0 .. MaxDate \cup {Null}]

CallInv == CallTypes /\ Committed /\ Written /\ Locked /\ Remembered

-----------------------------------------------------------------------------
(***************************************************************************)
(* What CallInv says of the rows a call sees.                              *)
(***************************************************************************)
LEMMA VisibleRow ==
    ASSUME CallInv, NEW t \in Txns, NEW id \in DOMAIN Visible(t)
    PROVE  /\ id \in DOMAIN own[t] \cup DOMAIN rate
           /\ Visible(t)[id] = IF id \in DOMAIN own[t] THEN own[t][id]
                                                       ELSE rate[id]
           /\ Visible(t)[id] \in Row
           /\ Visible(t)[id].vf <= Visible(t)[id].vt
           /\ Visible(t)[id].vf < MaxDate
           /\ Visible(t)[id].vt = now[t] \/ GoesOn(PairOf(id), Visible(t)[id].vt)
           /\ id \in DOMAIN rate =>
                 /\ Visible(t)[id].vf = rate[id].vf
                 /\ Visible(t)[id].vt \in {rate[id].vt, now[t]}
           /\ id \notin DOMAIN rate =>
                 id = <<t, PairOf(id)>> /\ Visible(t)[id].vf = now[t]
<1>1. /\ DOMAIN Visible(t) = DOMAIN own[t] \cup DOMAIN rate
      /\ Visible(t)[id] = IF id \in DOMAIN own[t] THEN own[t][id]
                                                  ELSE rate[id]
  BY DEF Visible, Over
<1>2. CASE id \in DOMAIN own[t]
  BY <1>1, <1>2 DEF CallInv, Written, WrittenRow, RowsOK
<1>3. CASE id \notin DOMAIN own[t]
  BY <1>1, <1>3 DEF CallInv, Committed, RowsOK
<1>4. QED BY <1>2, <1>3

(***************************************************************************)
(* The call's own view, when it writes one row.                            *)
(***************************************************************************)
LEMMA ViewWrites ==
    ASSUME CallInv, NEW t \in Txns, NEW id, NEW row, UNCHANGED rate,
           own' = [own EXCEPT ![t] = Assign(own[t], id, row)]
    PROVE  /\ DOMAIN Visible(t)' = DOMAIN Visible(t) \cup {id}
           /\ Visible(t)'[id] = row
           /\ \A j \in DOMAIN Visible(t) \ {id} :
                 Visible(t)'[j] = Visible(t)[j]
<1>1. /\ DOMAIN own'[t] = DOMAIN own[t] \cup {id}
      /\ own'[t][id] = row
      /\ \A j \in DOMAIN own[t] \ {id} : own'[t][j] = own[t][j]
  BY DEF CallInv, CallTypes, Assign
<1>2. QED BY <1>1 DEF Visible, Over

(***************************************************************************)
(* What stays true of the rows when the committed table stays as it is,    *)
(* and no call that has ended goes on.                                     *)
(***************************************************************************)
LEMMA SameTable ==
    ASSUME CallInv, UNCHANGED rate,
           \A u \in Txns : pc[u] = "done" => pc'[u] = "done"
    PROVE  /\ Committed'
           /\ \A p, e : GoesOn(p, e) => GoesOn(p, e)'
<1>1. \A p, e : GoesOn(p, e)' = GoesOn(p, e) BY DEF GoesOn
<1>2. \A p, v, x : LaterCovers(p, v, x)' = LaterCovers(p, v, x)
  BY DEF LaterCovers
<1>3. RowsOK(rate)' BY DEF CallInv, Committed, RowsOK
<1>4. QED BY <1>1, <1>2, <1>3 DEF CallInv, Committed

(***************************************************************************)
(* A call that is undone.                                                  *)
(***************************************************************************)
LEMMA Undone ==
    ASSUME CallInv, NEW t \in Running, Fail(t)
    PROVE  CallInv'
<1>1. /\ DOMAIN own'[t] = {} /\ \A u \in Txns \ {t} : own'[u] = own[u]
      /\ pc'[t] = "failed" /\ \A u \in Txns \ {t} : pc'[u] = pc[u]
      /\ \A u \in Txns \ {t} : targets'[u] = targets[u]
      /\ UNCHANGED <<rate, now, to, found, clock>>
  BY DEF CallInv, CallTypes, Empty, Fail, Goto, Running
<1>2. CallTypes'
  BY DEF CallInv, CallTypes, Ends, Fail, Goto, Running
<1>3. Committed' /\ \A p, e : GoesOn(p, e) => GoesOn(p, e)'
  BY <1>1, SameTable DEF Running, Ends
<1>4. Written'
  <2>1. ASSUME NEW u \in Txns \ {t}
        PROVE  /\ RowsOK(own[u])'
               /\ \A id \in DOMAIN own'[u] : WrittenRow(u, id)'
               /\ pc'[u] = "idle" => DOMAIN own'[u] = {}
    BY <1>1, <1>3, <2>1
       DEF CallInv, Written, WrittenRow, RowsOK, Succeeded, Closing
  <2>2. QED BY <1>1, <2>1 DEF Written, RowsOK
<1>5. Locked' BY <1>1 DEF CallInv, Locked
<1>6. Remembered' BY <1>1, <1>3 DEF CallInv, Remembered
<1>7. QED BY <1>2, <1>3, <1>4, <1>5, <1>6 DEF CallInv

(***************************************************************************)
(* Steps that write no row: the call moves on, or looks at the table.      *)
(***************************************************************************)
LEMMA Reads ==
    ASSUME CallInv, CallTypes', NEW t \in Txns,
           UNCHANGED <<rate, own>>,
           pc[t] # "done", pc[t] = "idle" \/ now'[t] = now[t],
           pc'[t] # "idle",
           \A p : Closing(t, p) => Closing(t, p)',
           \A u \in Txns \ {t} :
              /\ pc'[u] = pc[u] /\ now'[u] = now[u] /\ to'[u] = to[u]
              /\ found'[u] = found[u] /\ targets'[u] = targets[u],
           pc'[t] \in {"refresh", "refreshing", "close", "closing"} =>
              \/ found'[t] = Null
              \/ now'[t] < found'[t] /\ GoesOn(to'[t], found'[t]),
           pc'[t] \in {"refreshing", "closing"} =>
              \A id \in targets'[t] :
                 id \in DOMAIN own[t] \cup DOMAIN rate /\ PairOf(id) = to'[t]
    PROVE  CallInv'
<1>1. Committed' /\ \A p, e : GoesOn(p, e) => GoesOn(p, e)'
  BY SameTable
<1>2. Written'
  <2>1. ASSUME NEW u \in Txns PROVE RowsOK(own[u])'
    BY DEF CallInv, Written, RowsOK
  <2>2. ASSUME NEW u \in Txns, NEW id \in DOMAIN own[u]
        PROVE  WrittenRow(u, id)'
    <3>1. now'[u] = now[u] BY <2>2 DEF CallInv, Written
    <3>2. \A p : Succeeded(u, p) => Succeeded(u, p)' BY <3>1 DEF Succeeded
    <3>3. \A p : Closing(u, p) => Closing(u, p)' BY DEF Closing
    <3>4. QED BY <1>1, <2>2, <3>1, <3>2, <3>3 DEF CallInv, Written, WrittenRow
  <2>3. QED BY <2>1, <2>2 DEF CallInv, Written
<1>3. Locked' BY DEF CallInv, Locked
<1>4. Remembered' BY <1>1 DEF CallInv, Remembered
<1>5. QED BY <1>1, <1>2, <1>3, <1>4 DEF CallInv

-----------------------------------------------------------------------------
(***************************************************************************)
(* A step that writes one row: the call keeps its Now(), and its pair, and *)
(* the row is one that no other call has written.                          *)
(***************************************************************************)
LEMMA Writes ==
    ASSUME CallInv, CallTypes', NEW t \in Txns, NEW id, NEW row,
           UNCHANGED <<rate, now>>,
           own' = [own EXCEPT ![t] = Assign(own[t], id, row)],
           pc[t] \notin {"idle", "done"}, pc'[t] # "idle",
           \A u \in Txns \ {t} :
              /\ pc'[u] = pc[u] /\ to'[u] = to[u]
              /\ found'[u] = found[u] /\ targets'[u] = targets[u],
           row \in Row, row.vf <= row.vt, row.vf < MaxDate,
           \A u \in Txns \ {t} : id \notin DOMAIN own[u],
           \A k \in (DOMAIN own[t] \cup {id}) : WrittenRow(t, k)',
           Remembered'
    PROVE  CallInv'
<1>1. Committed' /\ \A p, e : GoesOn(p, e) => GoesOn(p, e)'
  BY SameTable
<1>2. /\ DOMAIN own'[t] = DOMAIN own[t] \cup {id}
      /\ own'[t][id] = row
      /\ \A k \in DOMAIN own[t] \ {id} : own'[t][k] = own[t][k]
      /\ \A u \in Txns \ {t} : own'[u] = own[u]
  BY DEF Assign, CallInv, CallTypes
<1>3. Written'
  <2>1. ASSUME NEW u \in Txns \ {t}
        PROVE  /\ RowsOK(own[u])'
               /\ \A k \in DOMAIN own'[u] : WrittenRow(u, k)'
               /\ pc'[u] = "idle" => DOMAIN own'[u] = {}
    BY <1>1, <1>2, <2>1
       DEF CallInv, Written, WrittenRow, RowsOK, Succeeded, Closing
  <2>2. RowsOK(own[t])' BY <1>2 DEF CallInv, Written, RowsOK
  <2>3. QED BY <1>2, <2>1, <2>2 DEF Written
<1>4. Locked' BY <1>2 DEF CallInv, Locked
<1>5. QED BY <1>1, <1>3, <1>4 DEF CallInv

(***************************************************************************)
(* The UPDATE that replaces the value of a row.                            *)
(***************************************************************************)
LEMMA RefreshStep ==
    ASSUME CallInv, NEW t \in Txns, NEW id \in targets[t], RefreshRow(t, id)
    PROVE  CallInv'
<1> DEFINE row == [Visible(t)[id] EXCEPT !.val = t]
<1>1. /\ pc[t] = "refreshing" /\ Lockers(t, id) = {}
      /\ targets' = [targets EXCEPT ![t] = @ \ {id}]
      /\ UNCHANGED <<rate, clock, pc, now, to, found>>
  BY DEF RefreshRow
<1>2. id \in DOMAIN Visible(t) /\ PairOf(id) = to[t]
  BY <1>1 DEF CallInv, Remembered, Visible, Over
<1>3. \A p, e : GoesOn(p, e) => GoesOn(p, e)' BY <1>1 DEF GoesOn
<1>4. \A u \in Txns : targets'[u] \subseteq targets[u]
  BY <1>1 DEF CallInv, CallTypes
<1>5. CASE own' = own
  <2>1. CallTypes' BY <1>1, <1>5 DEF CallInv, CallTypes
  <2>2. \A u \in Txns \ {t} : targets'[u] = targets[u]
    BY <1>1 DEF CallInv, CallTypes
  <2>3. \A p : Closing(t, p) => Closing(t, p)' BY <1>1 DEF Closing
  <2>4. /\ \/ found'[t] = Null
           \/ now'[t] < found'[t] /\ GoesOn(to'[t], found'[t])
        /\ \A k \in targets'[t] :
              k \in DOMAIN own[t] \cup DOMAIN rate /\ PairOf(k) = to'[t]
    BY <1>1, <1>4 DEF CallInv, Remembered
  <2>5. QED BY <1>1, <1>5, <2>1, <2>2, <2>3, <2>4, Reads
<1>6. CASE own' = [own EXCEPT ![t] = Assign(own[t], id, row)]
           /\ Covers(Visible(t)[id], now[t])
  <2>1. CallTypes' BY <1>1, <1>6 DEF CallInv, CallTypes
  <2>2. /\ row \in Row /\ row.vf = Visible(t)[id].vf
        /\ row.vt = Visible(t)[id].vt
    BY <1>2, VisibleRow DEF Row
  <2>3. now[t] < row.vt /\ now[t] \in Nat /\ row.vt \in Nat /\ row.vf \in Nat
    BY <1>6, <2>2, CallbackAssumption DEF Covers, Row, CallInv, CallTypes
  <2>4. \A u \in Txns \ {t} : id \notin DOMAIN own[u] BY <1>1 DEF Lockers
  <2>5. /\ DOMAIN own'[t] = DOMAIN own[t] \cup {id}
        /\ own'[t][id] = row
        /\ \A k \in DOMAIN own[t] \ {id} : own'[t][k] = own[t][k]
        /\ \A u \in Txns \ {t} : own'[u] = own[u]
    BY <1>6 DEF Assign, CallInv, CallTypes
  <2>6. \A p : Succeeded(t, p) => Succeeded(t, p)'
    <3>1. id \in DOMAIN own[t] =>
             row.vf = own[t][id].vf /\ row.vt = own[t][id].vt
      BY <1>2, <2>2, VisibleRow
    <3>2. QED BY <1>1, <2>5, <3>1 DEF Succeeded
  <2>7. \A k \in (DOMAIN own[t] \cup {id}) : WrittenRow(t, k)'
    <3>1. WrittenRow(t, id)'
      BY <1>1, <1>2, <1>3, <2>2, <2>3, <2>5, VisibleRow DEF WrittenRow
    <3>2. ASSUME NEW k \in DOMAIN own[t] \ {id} PROVE WrittenRow(t, k)'
      BY <1>1, <1>3, <2>5, <2>6, <3>2 DEF CallInv, Written, WrittenRow, Closing
    <3>3. QED BY <3>1, <3>2
  <2>8. Remembered' BY <1>1, <1>3, <1>4, <2>5 DEF CallInv, Remembered
  <2>9. QED
    <3>1. row.vf <= row.vt /\ row.vf < MaxDate BY <1>2, <2>2, VisibleRow
    <3>2. HIDE DEF row
    <3>3. QED BY <1>1, <1>4, <1>6, <2>1, <2>2, <2>4, <2>7, <2>8, <3>1, Writes
                 DEF CallInv, CallTypes
<1>7. QED BY <1>5, <1>6 DEF RefreshRow

(***************************************************************************)
(* The UPDATE that closes a row: the period that goes on is owed.          *)
(***************************************************************************)
LEMMA CloseStep ==
    ASSUME CallInv, NEW t \in Txns, NEW id \in targets[t], CloseRow(t, id)
    PROVE  CallInv'
<1> DEFINE row == [Visible(t)[id] EXCEPT !.vt = now[t]]
<1>1. pc[t] = "closing" /\ Lockers(t, id) = {} BY DEF CloseRow
<1>2. id \in DOMAIN Visible(t) /\ PairOf(id) = to[t]
  BY <1>1 DEF CallInv, Remembered, Visible, Over
<1>3. CASE Fail(t) BY <1>1, <1>3, Undone DEF Running, Ends
<1>4. CASE /\ targets' = [targets EXCEPT ![t] = @ \ {id}]
           /\ UNCHANGED <<rate, clock, pc, now, to, found, own>>
  <2>1. CallTypes' BY <1>4 DEF CallInv, CallTypes
  <2>2. /\ \A u \in Txns \ {t} : targets'[u] = targets[u]
        /\ targets'[t] \subseteq targets[t]
    BY <1>4 DEF CallInv, CallTypes
  <2>3. \A p : Closing(t, p) => Closing(t, p)' BY <1>4 DEF Closing
  <2>4. /\ \/ found'[t] = Null
           \/ now'[t] < found'[t] /\ GoesOn(to'[t], found'[t])
        /\ \A k \in targets'[t] :
              k \in DOMAIN own[t] \cup DOMAIN rate /\ PairOf(k) = to'[t]
    BY <1>1, <1>4, <2>2 DEF CallInv, Remembered, GoesOn
  <2>5. QED BY <1>1, <1>4, <2>1, <2>2, <2>3, <2>4, Reads
<1>5. CASE /\ Covers(Visible(t)[id], now[t])
           /\ targets' = [targets EXCEPT ![t] = @ \ {id}]
           /\ own' = [own EXCEPT ![t] = Assign(own[t], id, row)]
           /\ UNCHANGED <<rate, clock, pc, now, to, found>>
  <2>1. CallTypes' BY <1>5 DEF CallInv, CallTypes
  <2>2. /\ row \in Row /\ row.vf = Visible(t)[id].vf /\ row.vt = now[t]
        /\ row.vf <= row.vt /\ row.vf < MaxDate
    BY <1>2, <1>5, VisibleRow, CallbackAssumption
       DEF Row, Covers, CallInv, CallTypes
  <2>3. \A u \in Txns \ {t} : id \notin DOMAIN own[u] BY <1>1 DEF Lockers
  <2>4. /\ DOMAIN own'[t] = DOMAIN own[t] \cup {id}
        /\ own'[t][id] = row
        /\ \A k \in DOMAIN own[t] \ {id} : own'[t][k] = own[t][k]
    BY <1>5 DEF Assign, CallInv, CallTypes
  <2>5. \A p : p # to[t] /\ Succeeded(t, p) => Succeeded(t, p)'
    BY <1>2, <1>5, <2>4 DEF Succeeded
  <2>6. Closing(t, to[t])' BY <1>1, <1>5 DEF Closing
  <2>7. \A p, e : GoesOn(p, e) => GoesOn(p, e)' BY <1>5 DEF GoesOn
  <2>8. \A k \in (DOMAIN own[t] \cup {id}) : WrittenRow(t, k)'
    <3>1. WrittenRow(t, id)'
      BY <1>2, <1>5, <2>2, <2>4, <2>6, VisibleRow DEF WrittenRow
    <3>2. ASSUME NEW k \in DOMAIN own[t] \ {id} PROVE WrittenRow(t, k)'
      BY <1>1, <1>5, <2>4, <2>5, <2>6, <2>7, <3>2
         DEF CallInv, Written, WrittenRow, Closing
    <3>3. QED BY <3>1, <3>2
  <2>9. /\ \A u \in Txns \ {t} : targets'[u] = targets[u]
        /\ targets'[t] \subseteq targets[t]
        /\ \A u \in Txns \ {t} : own'[u] = own[u]
    BY <1>5 DEF CallInv, CallTypes
  <2>10. Remembered'
    BY <1>1, <1>5, <2>4, <2>7, <2>9 DEF CallInv, Remembered
  <2>11. HIDE DEF row
  <2>12. QED BY <1>1, <1>5, <2>1, <2>2, <2>3, <2>8, <2>9, <2>10, Writes
<1>6. QED BY <1>3, <1>4, <1>5 DEF CloseRow

(***************************************************************************)
(* The INSERT: the period that goes on from Now() is there.                *)
(***************************************************************************)
LEMMA InsertStep ==
    ASSUME CallInv, NEW t \in Txns, InsertPeriod(t)
    PROVE  CallInv'
<1> PICK id : id = <<t, to[t]>>
  OBVIOUS
<1> PICK row : row = [vf |-> now[t], vt |-> coalesce(found[t]), val |-> t]
  OBVIOUS
<1>1. pc[t] = "closing" BY DEF InsertPeriod
<1>2. CASE Fail(t) BY <1>1, <1>2, Undone DEF Running, Ends
<1>3. CASE /\ own' = [own EXCEPT ![t] = Assign(own[t], id, row)]
           /\ NextQuote(t)
           /\ UNCHANGED <<rate, clock, now, to, found, targets>>
  <2>1. /\ CallTypes' /\ pc'[t] = "next"
        /\ \A u \in Txns \ {t} : pc'[u] = pc[u]
    BY <1>3 DEF CallInv, CallTypes, NextQuote, Goto
  <2>2. /\ now[t] < coalesce(found[t]) /\ GoesOn(to[t], coalesce(found[t]))
        /\ now[t] \in 0 .. MaxDate - 1 /\ coalesce(found[t]) \in 0 .. MaxDate
    BY <1>1, CallbackAssumption
       DEF CallInv, CallTypes, Remembered, coalesce, GoesOn, Null
  <2>3. /\ row \in Row /\ row.vf = now[t] /\ row.vt = coalesce(found[t])
        /\ row.vf <= row.vt /\ row.vf < MaxDate /\ row.vt # now[t]
    <3>1. now[t] \in 0 .. MaxDate BY <2>2, CallbackAssumption
    <3>2. row \in Row BY <2>2, <3>1 DEF Row
    <3>3. QED BY <2>2, <3>2, CallbackAssumption
  <2>4. PairOf(id) = to[t] /\ id[1] = t BY DEF PairOf
  <2>5. id \notin DOMAIN rate BY <1>1, <2>4 DEF CallInv, Committed
  <2>6. ASSUME NEW u \in Txns \ {t}, id \in DOMAIN own[u] PROVE FALSE
    <3>1. id = <<u, PairOf(id)>>
      BY <2>5, <2>6 DEF CallInv, Written, WrittenRow
    <3>2. QED BY <2>4, <3>1
  <2>7. /\ DOMAIN own'[t] = DOMAIN own[t] \cup {id}
        /\ own'[t][id] = row
        /\ \A k \in DOMAIN own[t] \ {id} : own'[t][k] = own[t][k]
        /\ \A u \in Txns \ {t} : own'[u] = own[u]
    BY <1>3 DEF Assign, CallInv, CallTypes
  <2>8. Succeeded(t, to[t])'
    BY <1>3, <2>2, <2>3, <2>4, <2>7 DEF Succeeded
  <2>9. \A p : p # to[t] /\ Succeeded(t, p) => Succeeded(t, p)'
    BY <1>3, <2>4, <2>7 DEF Succeeded
  <2>10. \A p, e : GoesOn(p, e) => GoesOn(p, e)' BY <1>3 DEF GoesOn
  <2>11. WrittenRow(t, id)'
    <3>1. id = <<t, PairOf(id)>> BY <2>4
    <3>2. own'[t][id] = row /\ now'[t] = now[t] /\ rate' = rate
      BY <1>3, <2>7
    <3>3. GoesOn(PairOf(id), row.vt)' BY <2>2, <2>3, <2>4, <2>10
    <3>4. QED BY <2>3, <2>5, <3>1, <3>2, <3>3 DEF WrittenRow
  <2>12. ASSUME NEW k \in DOMAIN own[t] \ {id} PROVE WrittenRow(t, k)'
    BY <1>3, <2>7, <2>8, <2>9, <2>10, <2>12
       DEF CallInv, Written, WrittenRow, Closing
  <2>13. Remembered'
    BY <1>3, <2>1, <2>7, <2>10 DEF CallInv, Remembered
  <2>14. \A k \in (DOMAIN own[t] \cup {id}) : WrittenRow(t, k)'
    BY <2>11, <2>12
  <2>15. \A u \in Txns \ {t} : id \notin DOMAIN own[u] BY <2>6
  <2>16. QED BY <1>1, <1>3, <2>1, <2>3, <2>13, <2>14, <2>15, Writes
<1>4. QED BY <1>2, <1>3 DEF InsertPeriod

(***************************************************************************)
(* The commit.  An instant whose row the call closed is covered by the     *)
(* period the call wrote, or by one that starts after Now(), which the     *)
(* call cannot have closed.                                                *)
(***************************************************************************)
LEMMA CommitTable ==
    ASSUME CallInv, NEW t \in Txns, pc[t] = "next", pc'[t] = "done",
           rate' = Over(own[t], rate),
           \A u \in Txns \ {t} : pc'[u] = pc[u]
    PROVE  /\ Committed'
           /\ \A p, e : GoesOn(p, e) => GoesOn(p, e)'
<1> PICK n : n = now[t] OBVIOUS
<1> PICK T : T = own[t] OBVIOUS
<1>1. /\ DOMAIN rate' = DOMAIN T \cup DOMAIN rate
      /\ \A id \in DOMAIN rate' :
            rate'[id] = IF id \in DOMAIN T THEN T[id] ELSE rate[id]
  BY DEF Over
<1>2. n \in Nat /\ MaxDate \in Nat
  BY CallbackAssumption DEF CallInv, CallTypes
<1>3. \A id \in DOMAIN rate :
         /\ rate[id].vf \in Nat /\ rate[id].vt \in Nat
         /\ rate[id].vf <= rate[id].vt
         /\ GoesOn(PairOf(id), rate[id].vt)
         /\ \A x \in rate[id].vf .. MaxDate - 1 :
               LaterCovers(PairOf(id), rate[id].vf, x)
  BY <1>2 DEF CallInv, Committed, RowsOK, Row
<1>4. \A id \in DOMAIN T :
         /\ T[id].vf \in Nat /\ T[id].vt \in Nat /\ T[id].vf <= T[id].vt
         /\ T[id].vt = n \/ GoesOn(PairOf(id), T[id].vt)
         /\ T[id].vt = n => Succeeded(t, PairOf(id))
         /\ id \in DOMAIN rate =>
               T[id].vf = rate[id].vf /\ T[id].vt \in {rate[id].vt, n}
         /\ id \notin DOMAIN rate =>
               id = <<t, PairOf(id)>> /\ T[id].vf = n
  BY <1>2 DEF CallInv, Written, WrittenRow, RowsOK, Row, Closing
<1>5. \A id \in DOMAIN rate : rate'[id].vf = rate[id].vf
  BY <1>1, <1>4
<1>6. \A p, e : GoesOn(p, e) => GoesOn(p, e)'
  BY <1>1, <1>5 DEF GoesOn
<1>7. RowsOK(rate)' BY <1>1 DEF CallInv, Committed, Written, RowsOK
<1>8. ASSUME NEW p, Succeeded(t, p), NEW x \in Nat, n <= x, x < MaxDate
      PROVE  LaterCovers(p, n, x)'
  <2>1. PICK s \in DOMAIN T : PairOf(s) = p /\ T[s].vf = n /\ n < T[s].vt
    BY <1>8 DEF Succeeded
  <2>2. CASE x < T[s].vt
    BY <1>1, <1>2, <1>8, <2>1, <2>2 DEF LaterCovers, Covers
  <2>3. CASE ~(x < T[s].vt)
    <3>1. T[s].vt \in Nat /\ T[s].vt <= x /\ T[s].vt # MaxDate /\ T[s].vt # n
      BY <1>2, <1>4, <1>8, <2>1, <2>3
    <3>2. PICK k \in DOMAIN rate : PairOf(k) = p /\ rate[k].vf = T[s].vt
      BY <1>4, <2>1, <3>1 DEF GoesOn
    <3>3. PICK j \in DOMAIN rate :
             PairOf(j) = p /\ Covers(rate[j], x) /\ T[s].vt <= rate[j].vf
      BY <1>2, <1>3, <1>8, <3>1, <3>2 DEF LaterCovers
    <3>4. n < rate[j].vf BY <1>2, <1>3, <2>1, <3>1, <3>3
    <3>5. rate'[j].vf = rate[j].vf /\ rate'[j].vt = rate[j].vt
      BY <1>1, <1>2, <1>3, <1>4, <3>4
    <3>6. QED BY <1>1, <1>2, <1>3, <3>3, <3>4, <3>5 DEF LaterCovers, Covers
  <2>4. QED BY <2>2, <2>3
<1>9. ASSUME NEW i \in DOMAIN rate, NEW x \in rate[i].vf .. MaxDate - 1,
             NEW v, v = rate[i].vf
      PROVE  LaterCovers(PairOf(i), v, x)'
  <2>1. PICK k \in DOMAIN rate :
           PairOf(k) = PairOf(i) /\ Covers(rate[k], x) /\ v <= rate[k].vf
    BY <1>3, <1>9 DEF LaterCovers
  <2>2. x \in Nat /\ x < MaxDate /\ v \in Nat BY <1>2, <1>3, <1>9
  <2>3. CASE rate'[k].vt = rate[k].vt
    BY <1>1, <1>5, <2>1, <2>3 DEF LaterCovers, Covers
  <2>4. CASE rate'[k].vt # rate[k].vt
    <3>1. k \in DOMAIN T /\ rate'[k].vt = n /\ Succeeded(t, PairOf(k))
      BY <1>1, <1>4, <2>4
    <3>2. rate[k].vf <= n BY <1>1, <1>4, <1>5, <3>1
    <3>3. CASE x < n
      BY <1>1, <1>5, <2>1, <3>1, <3>3 DEF LaterCovers, Covers
    <3>4. CASE n <= x
      <4>1. LaterCovers(PairOf(i), n, x)' BY <1>8, <2>1, <2>2, <3>1, <3>4
      <4>2. PICK j \in DOMAIN rate' :
               PairOf(j) = PairOf(i) /\ Covers(rate'[j], x) /\ n <= rate'[j].vf
        BY <4>1 DEF LaterCovers
      <4>3. rate'[j].vf \in Nat BY <1>1, <1>3, <1>4
      <4>4. v <= rate'[j].vf BY <1>2, <1>3, <2>1, <2>2, <3>2, <4>2, <4>3
      <4>5. QED BY <4>2, <4>4 DEF LaterCovers
    <3>5. QED BY <1>2, <2>2, <3>3, <3>4
  <2>5. QED BY <2>3, <2>4
<1>10. ASSUME NEW i \in DOMAIN rate', NEW v, v = rate'[i].vf,
              NEW e, e = rate'[i].vt
       PROVE  /\ GoesOn(PairOf(i), e)'
              /\ \A x \in v .. MaxDate - 1 : LaterCovers(PairOf(i), v, x)'
              /\ i[1] \in Txns => pc'[i[1]] = "done"
  <2>1. \A p : Succeeded(t, p) => GoesOn(p, n)'
    BY <1>1 DEF Succeeded, GoesOn
  <2>2. GoesOn(PairOf(i), e)' BY <1>1, <1>3, <1>4, <1>6, <1>10, <2>1
  <2>3. i[1] \in Txns => pc'[i[1]] = "done"
    BY <1>1, <1>4 DEF CallInv, Committed
  <2>4. CASE i \in DOMAIN rate BY <1>5, <1>9, <1>10, <2>2, <2>3, <2>4
  <2>5. CASE i \notin DOMAIN rate
    <3>1. i \in DOMAIN T /\ rate'[i] = T[i] /\ T[i].vf = n BY <1>1, <1>4, <2>5
    <3>2. Succeeded(t, PairOf(i)) BY <1>2, <1>4, <3>1 DEF Succeeded
    <3>3. \A x \in n .. MaxDate - 1 : LaterCovers(PairOf(i), n, x)'
      BY <1>2, <1>8, <3>2
    <3>4. QED BY <1>10, <2>2, <2>3, <3>1, <3>3
  <2>6. QED BY <2>4, <2>5
<1>11. QED BY <1>6, <1>7, <1>10 DEF Committed

LEMMA CommitStep ==
    ASSUME CallInv, NEW t \in Txns, Commit(t)
    PROVE  CallInv'
<1>1. /\ pc[t] = "next" /\ pc'[t] = "done"
      /\ \A u \in Txns \ {t} : pc'[u] = pc[u]
      /\ rate' = Over(own[t], rate)
      /\ DOMAIN own'[t] = {} /\ \A u \in Txns \ {t} : own'[u] = own[u]
      /\ UNCHANGED <<clock, now, to, found, targets>>
  BY DEF CallInv, CallTypes, Commit, Goto, Empty
<1>2. CallTypes' BY DEF CallInv, CallTypes, Commit, Goto, Ends
<1>3. Committed' /\ \A p, e : GoesOn(p, e) => GoesOn(p, e)'
  BY <1>1, CommitTable
<1>4. DOMAIN rate' = DOMAIN own[t] \cup DOMAIN rate BY <1>1 DEF Over
<1>5. ASSUME NEW u \in Txns \ {t}
      PROVE  /\ RowsOK(own[u])'
             /\ \A id \in DOMAIN own'[u] : WrittenRow(u, id)'
             /\ pc'[u] = "idle" => DOMAIN own'[u] = {}
  <2>1. \A id \in DOMAIN own[u] :
           /\ id \in DOMAIN rate' <=> id \in DOMAIN rate
           /\ id \in DOMAIN rate => rate'[id] = rate[id]
    BY <1>1, <1>4 DEF CallInv, Locked, Over
  <2>2. RowsOK(own[u])' BY <1>1 DEF CallInv, Written, RowsOK
  <2>3. \A p : Succeeded(u, p)' = Succeeded(u, p) BY <1>1 DEF Succeeded
  <2>4. \A p : Closing(u, p)' = Closing(u, p) BY <1>1 DEF Closing
  <2>5. QED BY <1>1, <1>3, <2>1, <2>2, <2>3, <2>4
            DEF CallInv, Written, WrittenRow
<1>6. Written' BY <1>1, <1>5 DEF Written, RowsOK
<1>7. Locked' BY <1>1 DEF CallInv, Locked
<1>8. Remembered' BY <1>1, <1>3, <1>4 DEF CallInv, Remembered
<1>9. QED BY <1>2, <1>3, <1>6, <1>7, <1>8 DEF CallInv

-----------------------------------------------------------------------------
(***************************************************************************)
(* The other steps of a call.                                              *)
(***************************************************************************)
LEMMA BeginStep ==
    ASSUME CallInv, NEW t \in Txns, Begin(t)
    PROVE  CallInv'
<1>1. /\ pc[t] = "idle" /\ pc'[t] \in {"next", "ignored"}
      /\ \A u \in Txns \ {t} : pc'[u] = pc[u] /\ now'[u] = now[u]
      /\ UNCHANGED <<rate, own, clock, to, found, targets>>
  BY DEF CallInv, CallTypes, Begin, Goto
<1>2. CallTypes'
  <2>1. clock \in 0 .. MaxClock BY DEF CallInv, CallTypes
  <2>2. now' \in [Txns -> 0 .. MaxClock]
    BY <2>1 DEF CallInv, CallTypes, Begin
  <2>3. pc' \in [Txns -> Ends \cup {"idle", "next", "select", "refresh",
                                    "refreshing", "close", "closing"}]
    BY DEF CallInv, CallTypes, Begin, Goto, Ends
  <2>4. QED BY <1>1, <2>2, <2>3 DEF CallInv, CallTypes
<1>3. \A p : ~Closing(t, p) BY <1>1 DEF Closing
<1>4. QED BY <1>1, <1>2, <1>3, Reads

LEMMA LookUpStep ==
    ASSUME CallInv, NEW t \in Txns, LookUp(t)
    PROVE  CallInv'
<1>1. /\ pc[t] = "next" /\ pc'[t] \in {"next", "select"}
      /\ \A u \in Txns \ {t} : pc'[u] = pc[u] /\ to'[u] = to[u]
      /\ UNCHANGED <<rate, own, clock, now, found, targets>>
  BY DEF CallInv, CallTypes, LookUp, NextQuote, Goto
<1>2. CallTypes'
  <2>1. DOMAIN to' = Txns BY DEF CallInv, CallTypes, LookUp
  <2>2. pc' \in [Txns -> Ends \cup {"idle", "next", "select", "refresh",
                                    "refreshing", "close", "closing"}]
    BY DEF CallInv, CallTypes, LookUp, NextQuote, Goto
  <2>3. QED BY <1>1, <2>1, <2>2 DEF CallInv, CallTypes
<1>3. \A p : ~Closing(t, p) BY <1>1 DEF Closing
<1>4. QED BY <1>1, <1>2, <1>3, Reads

LEMMA SelectStep ==
    ASSUME CallInv, NEW t \in Txns, SelectPeriod(t)
    PROVE  CallInv'
<1>1. /\ pc[t] = "select"
      /\ UNCHANGED <<rate, own, clock, now, to, targets>>
  BY DEF SelectPeriod
<1>2. ASSUME NEW id \in CoveringIds(Visible(t), to[t], now[t]),
             found' = [found EXCEPT ![t] = Visible(t)[id].vt],
             Goto(t, "refresh") \/ Goto(t, "close")
      PROVE  CallInv'
  <2>1. id \in DOMAIN Visible(t) /\ PairOf(id) = to[t]
        /\ now[t] < Visible(t)[id].vt
    BY DEF CoveringIds, Covers
  <2>2. /\ now[t] \in Nat /\ Visible(t)[id].vt \in 0 .. MaxDate
        /\ GoesOn(to[t], Visible(t)[id].vt)
    <3>1. Visible(t)[id] \in Row BY <2>1, VisibleRow
    <3>2. now[t] \in Nat /\ Visible(t)[id].vt \in 0 .. MaxDate
      BY <3>1, CallbackAssumption DEF Row, CallInv, CallTypes
    <3>3. QED BY <2>1, <3>2, VisibleRow
  <2>3. CallTypes' BY <1>1, <1>2, <2>2 DEF CallInv, CallTypes, Goto
  <2>4. /\ pc'[t] \in {"refresh", "close"} /\ found'[t] = Visible(t)[id].vt
        /\ \A u \in Txns \ {t} : pc'[u] = pc[u] /\ found'[u] = found[u]
    BY <1>2 DEF CallInv, CallTypes, Goto
  <2>5. \A p : ~Closing(t, p) BY <1>1 DEF Closing
  <2>6. QED BY <1>1, <2>1, <2>2, <2>3, <2>4, <2>5, Reads
<1>3. ASSUME found' = [found EXCEPT ![t] = Null], Goto(t, "close")
      PROVE  CallInv'
  <2>1. CallTypes' BY <1>1, <1>3 DEF CallInv, CallTypes, Goto
  <2>2. /\ pc'[t] = "close" /\ found'[t] = Null
        /\ \A u \in Txns \ {t} : pc'[u] = pc[u] /\ found'[u] = found[u]
    BY <1>3 DEF CallInv, CallTypes, Goto
  <2>3. \A p : ~Closing(t, p) BY <1>1 DEF Closing
  <2>4. QED BY <1>1, <2>1, <2>2, <2>3, Reads
<1>4. QED BY <1>2, <1>3 DEF SelectPeriod

LEMMA StartUpdateStep ==
    ASSUME CallInv, NEW t \in Txns, StartUpdate(t)
    PROVE  CallInv'
<1>1. /\ pc[t] \in {"refresh", "close"} /\ pc'[t] \in {"refreshing", "closing"}
      /\ targets'[t] = RowsToUpdate(t)
      /\ \A u \in Txns \ {t} : pc'[u] = pc[u] /\ targets'[u] = targets[u]
      /\ UNCHANGED <<rate, own, clock, now, to, found>>
  BY DEF CallInv, CallTypes, StartUpdate, Goto
<1>2. CallTypes' BY <1>1 DEF CallInv, CallTypes, StartUpdate, Goto
<1>3. \A p : ~Closing(t, p) BY <1>1 DEF Closing
<1>4. \A id \in RowsToUpdate(t) :
         id \in DOMAIN own[t] \cup DOMAIN rate /\ PairOf(id) = to[t]
  BY DEF RowsToUpdate, CoveringIds, Visible, Over
<1>5. \/ found[t] = Null
      \/ now[t] < found[t] /\ GoesOn(to[t], found[t])
  <2>1. pc[t] \in {"refresh", "refreshing", "close", "closing"} BY <1>1
  <2>2. QED BY <2>1 DEF CallInv, Remembered
<1>6. GoesOn(to[t], found[t])' = GoesOn(to[t], found[t]) BY <1>1 DEF GoesOn
<1>7. QED BY <1>1, <1>2, <1>3, <1>4, <1>5, Reads

LEMMA EndRefreshStep ==
    ASSUME CallInv, NEW t \in Txns, EndRefresh(t)
    PROVE  CallInv'
<1>1. /\ pc[t] = "refreshing" /\ pc'[t] = "next"
      /\ \A u \in Txns \ {t} : pc'[u] = pc[u]
      /\ UNCHANGED <<rate, own, clock, now, to, found, targets>>
  BY DEF CallInv, CallTypes, EndRefresh, NextQuote, Goto
<1>2. CallTypes' BY <1>1 DEF CallInv, CallTypes, EndRefresh, NextQuote, Goto
<1>3. \A p : ~Closing(t, p) BY <1>1 DEF Closing
<1>4. QED BY <1>1, <1>2, <1>3, Reads

(***************************************************************************)
(* Steps that are none of a call's: the rows and the calls stay.           *)
(***************************************************************************)
LEMMA CallsStay ==
    ASSUME CallInv, clock' \in 1 .. MaxClock,
           UNCHANGED <<rate, pc, now, to, found, targets, own>>
    PROVE  CallInv'
<1>1. CallTypes' BY DEF CallInv, CallTypes
<1>2. Committed' /\ \A p, e : GoesOn(p, e) => GoesOn(p, e)'
  BY SameTable
<1>3. Written'
  BY <1>2 DEF CallInv, Written, WrittenRow, RowsOK, Succeeded, Closing
<1>4. Locked' BY DEF CallInv, Locked
<1>5. Remembered' BY <1>2 DEF CallInv, Remembered
<1>6. QED BY <1>1, <1>2, <1>3, <1>4, <1>5 DEF CallInv

-----------------------------------------------------------------------------
LEMMA CallStart == Init => CallInv
<1> SUFFICES ASSUME Init PROVE CallInv OBVIOUS
<1>1. IsTable(rate) /\ LeftByCalls(rate) BY SeedsAssumption DEF Init
<1>2. RowsOK(rate) BY <1>1 DEF IsTable, LeftByCalls, RowsOK
<1>3. Committed
  BY <1>1, <1>2 DEF Committed, LeftByCalls, GoesOn, LaterCovers, CoveringIds
<1>4. CallTypes BY CallbackAssumption DEF Init, CallTypes, Null
<1>5. \A t \in Txns : DOMAIN own[t] = {} /\ pc[t] = "idle"
  BY DEF Init, Empty
<1>6. Written /\ Locked /\ Remembered
  BY <1>5 DEF Written, Locked, Remembered, RowsOK
<1>7. QED BY <1>3, <1>4, <1>6 DEF CallInv

LEMMA CallSteps == CallInv /\ [Next]_vars => CallInv'
<1> SUFFICES ASSUME CallInv, [Next]_vars PROVE CallInv' OBVIOUS
<1>1. CASE Tick
  BY <1>1, CallsStay, CallbackAssumption DEF Tick, CallInv, CallTypes
<1>2. CASE ChangeRegistry
  BY <1>2, CallsStay DEF ChangeRegistry, CallInv, CallTypes
<1>3. ASSUME NEW t \in Txns, Begin(t) PROVE CallInv' BY <1>3, BeginStep
<1>4. ASSUME NEW t \in Txns, Step(t) PROVE CallInv'
  <2>1. CASE LookUp(t) BY <2>1, LookUpStep
  <2>2. CASE BadNumber(t) BY <2>2, Undone DEF BadNumber, Running, Ends
  <2>3. CASE SelectPeriod(t) BY <2>3, SelectStep
  <2>4. CASE StartUpdate(t) BY <2>4, StartUpdateStep
  <2>5. CASE \E id \in targets[t] : RefreshRow(t, id) \/ CloseRow(t, id)
    BY <2>5, RefreshStep, CloseStep
  <2>6. CASE EndRefresh(t) BY <2>6, EndRefreshStep
  <2>7. CASE InsertPeriod(t) BY <2>7, InsertStep
  <2>8. CASE Commit(t) BY <2>8, CommitStep
  <2>9. CASE DeadlockDetected(t) BY <2>9, Undone DEF DeadlockDetected
  <2>10. QED
    BY <1>4, <2>1, <2>2, <2>3, <2>4, <2>5, <2>6, <2>7, <2>8, <2>9 DEF Step
<1>5. ASSUME NEW t \in Txns, ConnectionLost(t) PROVE CallInv'
  BY <1>5, Undone DEF ConnectionLost
<1>6. CASE UNCHANGED vars
  BY <1>6, CallsStay DEF vars, context, CallInv, CallTypes
<1>7. QED BY <1>1, <1>2, <1>3, <1>4, <1>5, <1>6 DEF Next

(***************************************************************************)
(* The inductive invariant holds in every state of exchange_rate_done's    *)
(* concurrent calls.                                                       *)
(***************************************************************************)
THEOREM CallsInvariant == Spec => []CallInv
BY CallStart, CallSteps, PTL DEF Spec

(***************************************************************************)
(* A pair that has a rate has one at every later instant, however the      *)
(* calls interleave, wait, fail or are cut off: callback.sql's closes      *)
(* commit with the periods that take over.                                 *)
(***************************************************************************)
THEOREM RatesGoOn == Spec => []NoGap
<1>1. CallInv => NoGap
  BY DEF CallInv, Committed, NoGap, LaterCovers, CoveringIds
<1>2. QED BY <1>1, CallsInvariant, PTL

(***************************************************************************)
(* No committed period of public.rate ends before it starts, whatever row  *)
(* an UPDATE that waited comes to act on.                                  *)
(***************************************************************************)
THEOREM NoBackwardPeriod == Spec => []PeriodsOrdered
<1>1. CallInv => PeriodsOrdered
  BY DEF CallInv, Committed, RowsOK, PeriodsOrdered
<1>2. QED BY <1>1, CallsInvariant, PTL

-----------------------------------------------------------------------------
(***************************************************************************)
(* The foreign key: a currency some row refers to, committed or not, is    *)
(* registered, since the delete waits for the one and is refused for the   *)
(* other.                                                                  *)
(***************************************************************************)
HasRow(id) == id \in DOMAIN rate \/ \E t \in Txns : id \in DOMAIN own[t]

Registered(i) == \E k \in currency : k.id = i

KeysHeld ==
    /\ currency \subseteq Registry!Currency
    /\ \A id : HasRow(id) => Registered(PairOf(id))

(***************************************************************************)
(* A step that changes no row of public.currency, and writes no row but    *)
(* of a registered currency.                                               *)
(***************************************************************************)
LEMMA SameRegistry ==
    ASSUME KeysHeld, UNCHANGED currency,
           \A id : HasRow(id)' => HasRow(id) \/ Registered(PairOf(id))
    PROVE  KeysHeld'
BY DEF KeysHeld, Registered, Registry!Currency

LEMMA WritesOne ==
    ASSUME CallInv, NEW t \in Txns, NEW id, NEW row, UNCHANGED rate,
           own' = [own EXCEPT ![t] = Assign(own[t], id, row)]
    PROVE  \A k : HasRow(k)' => HasRow(k) \/ k = id
<1>1. \A u \in Txns : DOMAIN own'[u] =
         IF u = t THEN DOMAIN own[u] \cup {id} ELSE DOMAIN own[u]
  BY DEF CallInv, CallTypes, Assign
<1>2. QED BY <1>1 DEF HasRow

LEMMA KeysHeldSteps == CallInv /\ KeysHeld /\ [Next]_vars => KeysHeld'
<1> SUFFICES ASSUME CallInv, KeysHeld, [Next]_vars PROVE KeysHeld'
  OBVIOUS
<1>1. ASSUME UNCHANGED <<currency, rate, own>> PROVE KeysHeld'
  BY <1>1, SameRegistry DEF HasRow
<1>2. ASSUME NEW t \in Txns, Fail(t) PROVE KeysHeld'
  <2>1. \A u \in Txns : DOMAIN own'[u] \subseteq DOMAIN own[u]
    BY <1>2 DEF Fail, Empty, CallInv, CallTypes
  <2>2. QED BY <1>2, <2>1, SameRegistry DEF Fail, context, HasRow
<1>3. CASE ChangeRegistry
  <2>1. \A id : HasRow(id)' = HasRow(id) BY <1>3 DEF ChangeRegistry, HasRow
  <2>2. ASSUME NEW c \in Codes, Registry!add_currency(c) PROVE KeysHeld'
    <3>1. PICK i \in Ids : currency' = currency \cup {[id |-> i, code |-> c]}
      BY <2>2 DEF Registry!add_currency, Registry!new_currency, Registry!Entry
    <3>2. currency' \subseteq Registry!Currency
      BY <3>1 DEF KeysHeld, Registry!Currency
    <3>3. QED BY <2>1, <3>1, <3>2
              DEF KeysHeld, Registered, Registry!Currency
  <2>3. ASSUME NEW i \in Ids, NEW c \in Codes, Registry!update_currency(i, c)
        PROVE  KeysHeld'
    <3>1. PICK k \in currency :
             currency' = (currency \ {k}) \cup
                {[k EXCEPT !.code = Registry!coalesce(c, @)]}
      BY <2>3 DEF Registry!update_currency, Registry!RowsOf
    <3>2. PICK j : j = [k EXCEPT !.code = Registry!coalesce(c, @)]
      OBVIOUS
    <3>3. j.id = k.id /\ j \in Registry!Currency
      BY <3>2 DEF KeysHeld, Registry!Currency, Registry!coalesce
    <3>4. currency' = (currency \ {k}) \cup {j} BY <3>1, <3>2
    <3>5. currency' \subseteq Registry!Currency BY <3>3, <3>4 DEF KeysHeld
    <3>6. \A n : Registered(n) => Registered(n)'
      BY <3>3, <3>4 DEF Registered
    <3>7. QED BY <2>1, <3>5, <3>6 DEF KeysHeld, Registry!Currency
  <2>4. ASSUME NEW i \in Ids,
               Registry!DeleteCurrency(i, Referenced \cup KeyShared)
        PROVE  KeysHeld'
    <3>1. ASSUME NEW id, HasRow(id) PROVE PairOf(id) # i
      <4>1. PairOf(id) \in Referenced \cup KeyShared
        <5>1. CASE id \in DOMAIN rate BY <5>1 DEF Referenced
        <5>2. CASE id \notin DOMAIN rate
          <6>1. PICK t \in Txns : id \in DOMAIN own[t]
            BY <3>1, <5>2 DEF HasRow
          <6>2. id \in UNION {DOMAIN own[u] : u \in Txns} BY <6>1
          <6>3. QED BY <5>2, <6>2 DEF KeyShared
        <5>3. QED BY <5>1, <5>2
      <4>2. QED
        BY <2>4, <4>1 DEF Registry!DeleteCurrency, Registry!Restricted
    <3>2. currency' = {k \in currency : k.id # i}
      BY <2>4 DEF Registry!DeleteCurrency, Registry!RowsOf
    <3>3. QED
      BY <2>1, <3>1, <3>2 DEF KeysHeld, Registered, Registry!Currency
  <2>5. QED BY <1>3, <2>2, <2>3, <2>4 DEF ChangeRegistry
<1>4. ASSUME NEW t \in Txns, NEW id \in targets[t],
             RefreshRow(t, id) \/ CloseRow(t, id)
      PROVE  KeysHeld'
  <2>1. HasRow(id)
    BY <1>4 DEF RefreshRow, CloseRow, CallInv, Remembered, HasRow
  <2>2. ASSUME NEW row, UNCHANGED <<context, rate>>,
               \/ own' = own
               \/ own' = [own EXCEPT ![t] = Assign(own[t], id, row)]
        PROVE  KeysHeld'
    <3>1. CASE own' = own BY <1>1, <2>2, <3>1 DEF context
    <3>2. CASE own' = [own EXCEPT ![t] = Assign(own[t], id, row)]
      BY <2>1, <2>2, <3>2, WritesOne, SameRegistry DEF context
    <3>3. QED BY <2>2, <3>1, <3>2
  <2>3. CASE RefreshRow(t, id) BY <2>2, <2>3 DEF RefreshRow
  <2>4. CASE CloseRow(t, id) BY <1>2, <2>2, <2>4 DEF CloseRow
  <2>5. QED BY <1>4, <2>3, <2>4
<1>5. ASSUME NEW t \in Txns, InsertPeriod(t) PROVE KeysHeld'
  <2>1. CASE Fail(t) BY <2>1, <1>2
  <2>2. ASSUME NEW id, id = <<t, to[t]>>, NEW row, Referable(t),
               UNCHANGED <<context, rate>>,
               own' = [own EXCEPT ![t] = Assign(own[t], id, row)]
        PROVE  KeysHeld'
    <3>1. Registered(PairOf(id))
      BY <2>2 DEF Referable, Registry!RowsOf, Registered, PairOf
    <3>2. QED BY <2>2, <3>1, WritesOne, SameRegistry DEF context
  <2>3. QED BY <1>5, <2>1, <2>2 DEF InsertPeriod
<1>6. ASSUME NEW t \in Txns, Commit(t) PROVE KeysHeld'
  <2>1. DOMAIN rate' = DOMAIN own[t] \cup DOMAIN rate
    BY <1>6 DEF Commit, Over
  <2>2. \A u \in Txns : DOMAIN own'[u] \subseteq DOMAIN own[u]
    BY <1>6 DEF Commit, Empty, CallInv, CallTypes
  <2>3. \A id : HasRow(id)' => HasRow(id) BY <2>1, <2>2 DEF HasRow
  <2>4. QED BY <1>6, <2>3, SameRegistry DEF Commit, context
<1>7. CASE Tick BY <1>1, <1>7 DEF Tick, context
<1>8. ASSUME NEW t \in Txns,
             \/ Begin(t) \/ LookUp(t) \/ SelectPeriod(t) \/ StartUpdate(t)
             \/ EndRefresh(t)
      PROVE  KeysHeld'
  BY <1>1, <1>8
     DEF Begin, LookUp, SelectPeriod, StartUpdate, EndRefresh, context
<1>9. CASE UNCHANGED vars BY <1>1, <1>9 DEF vars, context
<1>10. QED
  BY <1>2, <1>3, <1>4, <1>5, <1>6, <1>7, <1>8, <1>9
     DEF Next, Step, BadNumber, DeadlockDetected, ConnectionLost

(***************************************************************************)
(* public.rate's foreign keys: the currency of every committed row is in   *)
(* public.currency, although other sessions delete and rename currencies   *)
(* while callbacks run, however many of them at once.                      *)
(***************************************************************************)
THEOREM ReferencesKept == Spec => []RatesRegistered
<1>1. Init => KeysHeld
  <2>1. Init => IsTable(rate) /\ LeftByCalls(rate)
    BY SeedsAssumption DEF Init
  <2>2. QED
    BY <2>1, CallbackAssumption
       DEF Init, KeysHeld, HasRow, Registered, LeftByCalls, Empty,
           Registry!Currency
<1>2. KeysHeld => RatesRegistered
  BY DEF KeysHeld, HasRow, Registered, RatesRegistered, Registry!RowsOf
<1>3. QED BY <1>1, <1>2, KeysHeldSteps, CallsInvariant, PTL DEF Spec

-----------------------------------------------------------------------------
(***************************************************************************)
(* Calls that ran side by side.  A call sees what every other call wrote   *)
(* that had ended before it began, and the Now() of that call is no later  *)
(* than its own: so only calls beside one another leave two current rows.  *)
(***************************************************************************)
Meetings ==
    /\ beside \in [Txns -> SUBSET Txns]
    /\ \A t, u \in Txns : t \in beside[u] <=> u \in beside[t]
    /\ \A t \in Txns : pc[t] = "idle" => beside[t] = {}
    /\ \A t, u \in Running : t # u => t \in beside[u]
    /\ \A t \in Txns : pc[t] # "idle" => now[t] <= clock
    /\ \A u \in Running : \A t \in Txns \ {u} :
          pc[t] # "idle" /\ t \notin beside[u] => now[t] <= now[u]

\* Of the rows that cover Now(), those no call beside this one has written.
StillOpen(u, p) ==
    {i \in CoveringIds(Visible(u), p, now[u]) : i[1] \notin beside[u] \cup {u}}

\* They are closed when the call inserts the period that takes over.
Takeover(u) ==
    /\ pc[u] = "closing" => StillOpen(u, to[u]) \subseteq targets[u]
    /\ \A p : <<u, p>> \in DOMAIN own[u] => StillOpen(u, p) = {}

\* Where a row starts and how far it may go.
Provenance ==
    /\ \A id \in DOMAIN rate : id[1] \in Txns => rate[id].vf = now[id[1]]
    /\ \A t \in Txns : \A id \in DOMAIN own[t] :
          id \in DOMAIN rate => own[t][id].vt <= rate[id].vt
    /\ \A t \in Txns : DOMAIN own[t] # {} => t \in Running

RaceInv ==
    /\ Meetings /\ Provenance /\ OverlapNeedsRace
    /\ \A u \in Txns : Takeover(u)

-----------------------------------------------------------------------------
(***************************************************************************)
(* A step that begins no call: each call keeps its Now() and its meetings, *)
(* and those that run ran before.                                          *)
(***************************************************************************)
BeginsNone ==
    /\ UNCHANGED <<beside, now>> /\ clock <= clock'
    /\ \A t \in Txns : pc'[t] = "idle" <=> pc[t] = "idle"
    /\ \A t \in Txns : t \in Running' => t \in Running

LEMMA OneGoesOn ==
    ASSUME CallInv, NEW t \in Running, UNCHANGED <<beside, now, clock>>,
           \A u \in Txns \ {t} : pc'[u] = pc[u], pc'[t] # "idle"
    PROVE  BeginsNone
BY DEF BeginsNone, Running, Ends, CallInv, CallTypes

LEMMA FailGoesOn ==
    ASSUME CallInv, NEW t \in Running, Fail(t)
    PROVE  BeginsNone
<1>1. /\ \A u \in Txns \ {t} : pc'[u] = pc[u]
      /\ pc'[t] = "failed" /\ UNCHANGED <<beside, now, clock>>
  BY DEF Fail, Goto, context, CallInv, CallTypes, Running
<1>2. QED BY <1>1, OneGoesOn

LEMMA OthersBeginNone ==
    ASSUME CallInv, [Next]_vars, \A t \in Txns : ~Begin(t)
    PROVE  BeginsNone
<1>1. CASE Tick
  BY <1>1 DEF Tick, context, BeginsNone, Running, CallInv, CallTypes
<1>2. CASE ChangeRegistry
  BY <1>2 DEF ChangeRegistry, BeginsNone, Running, CallInv, CallTypes
<1>3. CASE UNCHANGED vars
  BY <1>3 DEF vars, context, BeginsNone, Running, CallInv, CallTypes
<1>4. ASSUME NEW t \in Txns, Step(t) PROVE BeginsNone
  <2>1. CASE BadNumber(t) \/ DeadlockDetected(t)
    BY <2>1, FailGoesOn DEF BadNumber, DeadlockDetected, Running, Ends
  <2>2. CASE LookUp(t) \/ SelectPeriod(t) \/ StartUpdate(t)
    <3>1. /\ UNCHANGED <<beside, now, clock>> /\ t \in Running
          /\ \A u \in Txns \ {t} : pc'[u] = pc[u]
          /\ pc'[t] # "idle"
      BY <2>2 DEF LookUp, NextQuote, SelectPeriod, StartUpdate, Goto, context,
                  Running, Ends, CallInv, CallTypes
    <3>2. QED BY <3>1, OneGoesOn
  <2>3. CASE EndRefresh(t) \/ Commit(t)
    <3>1. /\ UNCHANGED <<beside, now, clock>> /\ t \in Running
          /\ \A u \in Txns \ {t} : pc'[u] = pc[u]
          /\ pc'[t] # "idle"
      BY <2>3 DEF EndRefresh, NextQuote, Commit, Goto, context,
                  Running, Ends, CallInv, CallTypes
    <3>2. QED BY <3>1, OneGoesOn
  <2>4. ASSUME NEW id \in targets[t], RefreshRow(t, id) \/ CloseRow(t, id)
        PROVE  BeginsNone
    <3>1. t \in Running BY <2>4 DEF RefreshRow, CloseRow, Running, Ends
    <3>2. CASE Fail(t) BY <3>1, <3>2, FailGoesOn
    <3>3. CASE UNCHANGED <<context, now, pc, clock>>
      BY <3>1, <3>3, OneGoesOn DEF context, Running
    <3>4. QED BY <2>4, <3>2, <3>3 DEF RefreshRow, CloseRow
  <2>5. CASE InsertPeriod(t)
    <3>1. t \in Running BY <2>5 DEF InsertPeriod, Running, Ends
    <3>2. CASE Fail(t) BY <3>1, <3>2, FailGoesOn
    <3>3. CASE NextQuote(t) /\ UNCHANGED <<context, now, clock>>
      <4>1. pc'[t] = "next" /\ \A u \in Txns \ {t} : pc'[u] = pc[u]
        BY <3>3 DEF NextQuote, Goto, CallInv, CallTypes
      <4>2. QED BY <3>1, <3>3, <4>1, OneGoesOn DEF context
    <3>4. QED BY <2>5, <3>2, <3>3 DEF InsertPeriod
  <2>6. CASE \E id \in targets[t] : RefreshRow(t, id) \/ CloseRow(t, id)
    BY <2>4, <2>6
  <2>7. QED BY <1>4, <2>1, <2>2, <2>3, <2>5, <2>6 DEF Step
<1>5. ASSUME NEW t \in Txns, ConnectionLost(t) PROVE BeginsNone
  BY <1>5, FailGoesOn DEF ConnectionLost
<1>6. QED BY <1>1, <1>2, <1>3, <1>4, <1>5 DEF Next

LEMMA MeetingsSteps ==
    ASSUME CallInv, Meetings, [Next]_vars
    PROVE  Meetings'
<1>1. ASSUME NEW t \in Txns, Begin(t) PROVE Meetings'
  <2>1. /\ pc[t] = "idle" /\ pc'[t] # "idle" /\ UNCHANGED clock
        /\ \A u \in Txns \ {t} : pc'[u] = pc[u] /\ now'[u] = now[u]
        /\ now'[t] = clock
    BY <1>1 DEF Begin, Goto, CallInv, CallTypes
  <2>2. /\ t \notin Running /\ Running' \subseteq Running \cup {t}
        /\ Running \subseteq Txns
    BY <2>1 DEF Running
  <2>3. /\ beside' = [u \in Txns |->
                        IF u = t THEN Running
                        ELSE IF u \in Running THEN beside[u] \cup {t}
                        ELSE beside[u]]
    BY <1>1 DEF Begin
  <2>4. beside' \in [Txns -> SUBSET Txns] BY <2>2, <2>3 DEF Meetings
  <2>5. \A u \in Txns : t \notin beside[u] BY <2>1 DEF Meetings
  <2>6. \A u, w \in Txns : u \in beside'[w] <=> w \in beside'[u]
    BY <2>2, <2>3, <2>5 DEF Meetings
  <2>7. \A u \in Txns : pc'[u] = "idle" => beside'[u] = {}
    <3>1. ASSUME NEW u \in Txns, pc'[u] = "idle" PROVE beside'[u] = {}
      BY <2>1, <2>3, <3>1 DEF Meetings, Running
    <3>2. QED BY <3>1
  <2>8. \A u, w \in Running' : u # w => u \in beside'[w]
    BY <2>2, <2>3 DEF Meetings
  <2>9. clock \in Nat /\ \A u \in Txns : now[u] \in Nat
    BY CallbackAssumption DEF CallInv, CallTypes
  <2>10. \A u \in Txns : pc'[u] # "idle" => now'[u] <= clock'
    BY <2>1, <2>9 DEF Meetings
  <2>11. \A u \in Running' : \A w \in Txns \ {u} :
            pc'[w] # "idle" /\ w \notin beside'[u] => now'[w] <= now'[u]
    <3>1. ASSUME NEW u \in Running', NEW w \in Txns \ {u},
                 pc'[w] # "idle", w \notin beside'[u]
          PROVE  now'[w] <= now'[u]
      <4>1. CASE u = t BY <2>1, <2>10, <3>1, <4>1
      <4>2. CASE u # t
        <5>1. u \in Running /\ w # t /\ w \notin beside[u]
          BY <2>2, <2>3, <3>1, <4>2
        <5>2. QED BY <2>1, <2>2, <3>1, <4>2, <5>1 DEF Meetings
      <4>3. QED BY <4>1, <4>2
    <3>2. QED BY <3>1
  <2>12. QED BY <2>4, <2>6, <2>7, <2>8, <2>10, <2>11 DEF Meetings
<1>2. CASE BeginsNone
  <2>1. /\ clock \in Nat /\ \A u \in Txns : now[u] \in Nat
        /\ clock' \in Int /\ clock <= clock' /\ UNCHANGED <<beside, now>>
    <3>1. clock' \in Int
      BY CallSteps, CallbackAssumption DEF CallInv, CallTypes
    <3>2. QED BY <1>2, <3>1, CallbackAssumption
              DEF BeginsNone, CallInv, CallTypes
  <2>2. \A t \in Txns : pc'[t] # "idle" => now'[t] <= clock'
    BY <1>2, <2>1 DEF Meetings, BeginsNone
  <2>3. Running' \subseteq Running BY <1>2 DEF BeginsNone, Running
  <2>4. QED BY <1>2, <2>1, <2>2, <2>3 DEF Meetings, BeginsNone
<1>3. QED BY <1>1, <1>2, OthersBeginNone

-----------------------------------------------------------------------------
(***************************************************************************)
(* A row stays closed for a call while it sees no row become longer, and   *)
(* no new one but its own and those of calls beside it.                    *)
(***************************************************************************)
LEMMA StaysClosed ==
    ASSUME NEW u, now'[u] = now[u], beside[u] \subseteq beside'[u],
           \A i \in DOMAIN Visible(u)' :
              \/ i[1] \in beside'[u] \cup {u}
              \/ /\ i \in DOMAIN Visible(u)
                 /\ Covers(Visible(u)'[i], now[u]) =>
                       Covers(Visible(u)[i], now[u])
    PROVE  \A p : StillOpen(u, p)' \subseteq StillOpen(u, p)
BY DEF StillOpen, CoveringIds

(***************************************************************************)
(* Steps that write no row.                                                *)
(***************************************************************************)
LEMMA RaceReads ==
    ASSUME CallInv, RaceInv, Meetings', UNCHANGED <<rate, own>>,
           \A u \in Txns :
              /\ pc[u] # "idle" => now'[u] = now[u]
              /\ beside[u] \subseteq beside'[u] \/ pc[u] = "idle"
              /\ pc[u] = "done" => pc'[u] = "done"
              /\ DOMAIN own[u] # {} /\ u \in Running => u \in Running',
           \A u \in Txns : pc'[u] = "closing" =>
              /\ pc[u] # "idle"
              /\ StillOpen(u, to'[u]) \subseteq targets'[u]
    PROVE  RaceInv'
<1>1. ASSUME NEW u \in Txns, pc[u] # "idle"
      PROVE  \A p : StillOpen(u, p)' \subseteq StillOpen(u, p)
  <2>1. Visible(u)' = Visible(u) BY DEF Visible, Over
  <2>2. QED BY <1>1, <2>1, StaysClosed
<1>2. ASSUME NEW u \in Txns PROVE Takeover(u)'
  <2>1. pc'[u] = "closing" => StillOpen(u, to[u])' \subseteq targets'[u]
    BY <1>1
  <2>2. ASSUME NEW p, <<u, p>> \in DOMAIN own'[u] PROVE StillOpen(u, p)' = {}
    <3>1. pc[u] # "idle" BY <2>2 DEF CallInv, Written
    <3>2. StillOpen(u, p) = {} BY <2>2 DEF RaceInv, Takeover
    <3>3. QED BY <1>1, <3>1, <3>2
  <2>3. QED BY <2>1, <2>2 DEF Takeover
<1>3. Provenance'
  <2>1. \A id \in DOMAIN rate : id[1] \in Txns => pc[id[1]] = "done"
    BY DEF CallInv, Committed
  <2>2. QED BY <2>1 DEF RaceInv, Provenance
<1>4. OverlapNeedsRace'
  <2>1. \A id \in DOMAIN rate : id[1] \in Txns => pc[id[1]] = "done"
    BY DEF CallInv, Committed
  <2>2. QED BY <2>1 DEF RaceInv, OverlapNeedsRace, Overlap
<1>5. QED BY <1>2, <1>3, <1>4 DEF RaceInv

(***************************************************************************)
(* A call that is undone sees what it saw, before it wrote.                *)
(***************************************************************************)
LEMMA RaceFails ==
    ASSUME CallInv, RaceInv, Meetings', NEW t \in Running, Fail(t)
    PROVE  RaceInv'
<1>1. /\ DOMAIN own'[t] = {} /\ \A u \in Txns \ {t} : own'[u] = own[u]
      /\ pc'[t] = "failed" /\ \A u \in Txns \ {t} : pc'[u] = pc[u]
      /\ \A u \in Txns \ {t} : targets'[u] = targets[u]
      /\ UNCHANGED <<rate, now, to, beside>> /\ t \in Txns
  BY DEF CallInv, CallTypes, Empty, Fail, Goto, Running, context
<1>2. ASSUME NEW u \in Txns \ {t} PROVE Takeover(u)'
  <2>1. Visible(u)' = Visible(u) BY <1>1, <1>2 DEF Visible, Over
  <2>2. \A p : StillOpen(u, p)' = StillOpen(u, p)
    BY <1>1, <2>1 DEF StillOpen
  <2>3. QED BY <1>1, <1>2, <2>2 DEF RaceInv, Takeover
<1>3. Takeover(t)' BY <1>1 DEF Takeover
<1>4. Provenance' BY <1>1 DEF RaceInv, Provenance, Running
<1>5. OverlapNeedsRace' BY <1>1 DEF RaceInv, OverlapNeedsRace, Overlap
<1>6. QED BY <1>1, <1>2, <1>3, <1>4, <1>5 DEF RaceInv

(***************************************************************************)
(* A step that writes one row: it was there and becomes no longer, or it   *)
(* is the call's own, which comes when no other row is open.               *)
(***************************************************************************)
LEMMA RaceWrites ==
    ASSUME CallInv, RaceInv, Meetings', NEW t \in Txns, NEW id, NEW row,
           UNCHANGED <<rate, now, to, beside>>,
           own' = [own EXCEPT ![t] = Assign(own[t], id, row)],
           t \in Running, t \in Running',
           \A u \in Txns \ {t} : pc'[u] = pc[u] /\ targets'[u] = targets[u],
           id \in DOMAIN rate => row.vt <= rate[id].vt,
           \/ id = <<t, to[t]>> /\ StillOpen(t, to[t]) = {}
           \/ /\ id \in DOMAIN Visible(t)
              /\ Covers(row, now[t]) => Covers(Visible(t)[id], now[t]),
           pc'[t] = "closing" => StillOpen(t, to[t])' \subseteq targets'[t]
    PROVE  RaceInv'
<1>1. /\ \A u \in Txns \ {t} : own'[u] = own[u]
      /\ DOMAIN own'[t] = DOMAIN own[t] \cup {id}
      /\ own'[t][id] = row
      /\ \A j \in DOMAIN own[t] \ {id} : own'[t][j] = own[t][j]
  BY DEF CallInv, CallTypes, Assign
<1>2. ASSUME NEW u \in Txns \ {t} PROVE Takeover(u)'
  <2>1. Visible(u)' = Visible(u) BY <1>1, <1>2 DEF Visible, Over
  <2>2. \A p : StillOpen(u, p)' = StillOpen(u, p) BY <2>1 DEF StillOpen
  <2>3. QED BY <1>1, <1>2, <2>2 DEF RaceInv, Takeover
<1>3. \A p : StillOpen(t, p)' \subseteq StillOpen(t, p)
  <2>1. \A i \in DOMAIN Visible(t)' :
           \/ i[1] \in beside'[t] \cup {t}
           \/ /\ i \in DOMAIN Visible(t)
              /\ Covers(Visible(t)'[i], now[t]) =>
                    Covers(Visible(t)[i], now[t])
    <3>1. /\ DOMAIN Visible(t)' = DOMAIN Visible(t) \cup {id}
          /\ Visible(t)'[id] = row
          /\ \A j \in DOMAIN Visible(t) \ {id} :
                Visible(t)'[j] = Visible(t)[j]
      BY ViewWrites
    <3>2. \/ id[1] = t
          \/ /\ id \in DOMAIN Visible(t)
             /\ Covers(row, now[t]) => Covers(Visible(t)[id], now[t])
      OBVIOUS
    <3>3. QED BY <3>1, <3>2
  <2>2. QED BY <2>1, StaysClosed
<1>4. ASSUME NEW p, <<t, p>> \in DOMAIN own'[t] PROVE StillOpen(t, p) = {}
  <2>1. CASE <<t, p>> \in DOMAIN own[t]
    BY <2>1 DEF RaceInv, Takeover
  <2>2. CASE <<t, p>> = id /\ <<t, p>> \notin DOMAIN own[t]
    <3>1. id \notin DOMAIN rate
      BY <2>2 DEF CallInv, Committed, Running, Ends
    <3>2. id \notin DOMAIN Visible(t) BY <2>2, <3>1 DEF Visible, Over
    <3>3. QED BY <2>2, <3>2
  <2>3. QED BY <1>1, <1>4, <2>1, <2>2
<1>5. Takeover(t)' BY <1>3, <1>4 DEF Takeover
<1>6. Provenance'
  <2>1. \A u \in Txns \ {t} : DOMAIN own'[u] # {} => u \in Running'
    BY <1>1 DEF RaceInv, Provenance, Running
  <2>2. QED BY <1>1, <2>1 DEF RaceInv, Provenance
<1>7. OverlapNeedsRace' BY DEF RaceInv, OverlapNeedsRace, Overlap
<1>8. QED BY <1>2, <1>5, <1>6, <1>7 DEF RaceInv

(***************************************************************************)
(* The commit.  The rows that cover the instant the call began at, and     *)
(* are not those of calls beside it, end there; a row that starts then or  *)
(* later was written by a call that ran beside it, or found in the table.  *)
(***************************************************************************)
LEMMA RaceCommits ==
    ASSUME CallInv, CallInv', RaceInv, Meetings', NEW t \in Txns, Commit(t)
    PROVE  RaceInv'
<1> PICK T : T = own[t] OBVIOUS
<1> PICK n : n = now[t] OBVIOUS
<1>1. /\ pc[t] = "next" /\ pc'[t] = "done" /\ t \in Running
      /\ \A u \in Txns \ {t} : pc'[u] = pc[u] /\ own'[u] = own[u]
      /\ DOMAIN own'[t] = {}
      /\ UNCHANGED <<clock, now, to, targets, beside>>
  BY DEF CallInv, CallTypes, Commit, Goto, Empty, Running, Ends, context
<1>2. /\ DOMAIN rate' = DOMAIN T \cup DOMAIN rate
      /\ \A i \in DOMAIN T : rate'[i] = T[i]
      /\ \A i \in DOMAIN rate \ DOMAIN T : rate'[i] = rate[i]
  BY DEF Commit, Over
<1>3. \A i \in DOMAIN rate :
         /\ rate[i].vf \in Nat /\ rate[i].vt \in Nat
         /\ i[1] \in Txns =>
               i[1] # t /\ pc[i[1]] # "idle" /\ rate[i].vf = now[i[1]]
  BY <1>1, CallbackAssumption
     DEF CallInv, Committed, RowsOK, Row, RaceInv, Provenance
<1>4. \A i \in DOMAIN T :
         /\ T[i].vf \in Nat /\ T[i].vt \in Nat
         /\ i \in DOMAIN rate => T[i].vf = rate[i].vf /\ T[i].vt <= rate[i].vt
         /\ i \notin DOMAIN rate => i = <<t, PairOf(i)>> /\ T[i].vf = n
  BY CallbackAssumption
     DEF CallInv, Written, WrittenRow, RowsOK, Row, RaceInv, Provenance
<1>5. n \in Nat /\ \A u \in Txns : now[u] \in Nat
  BY CallbackAssumption DEF CallInv, CallTypes
<1>6. \A i \in DOMAIN rate :
         rate'[i].vf = rate[i].vf /\ rate'[i].vt <= rate[i].vt
               /\ rate'[i].vt \in Nat
  BY <1>2, <1>3, <1>4
<1>7. ASSUME NEW u \in Txns \ {t}, u \in Running PROVE Takeover(u)'
  <2>1. \A i \in DOMAIN Visible(u)' :
           \/ i[1] \in beside'[u] \cup {u}
           \/ /\ i \in DOMAIN Visible(u)
              /\ Covers(Visible(u)'[i], now[u]) =>
                    Covers(Visible(u)[i], now[u])
    <3> SUFFICES ASSUME NEW i \in DOMAIN Visible(u)'
                 PROVE  \/ i[1] \in beside'[u] \cup {u}
                        \/ /\ i \in DOMAIN Visible(u)
                           /\ Covers(Visible(u)'[i], now[u]) =>
                                 Covers(Visible(u)[i], now[u])
      OBVIOUS
    <3>1. CASE i \in DOMAIN own[u]
      BY <1>1, <3>1 DEF Visible, Over
    <3>2. CASE i \notin DOMAIN own[u] /\ i \in DOMAIN rate
      <4>1. /\ i \in DOMAIN Visible(u)
            /\ Visible(u)[i] = rate[i] /\ Visible(u)'[i] = rate'[i]
        BY <1>1, <1>2, <3>2 DEF Visible, Over
      <4>2. now[u] < rate'[i].vt => now[u] < rate[i].vt
        BY <1>3, <1>5, <1>6, <3>2
      <4>3. QED BY <1>6, <3>2, <4>1, <4>2 DEF Covers
    <3>3. CASE i \notin DOMAIN own[u] /\ i \notin DOMAIN rate
      <4>1. i \in DOMAIN T BY <1>1, <1>2, <3>3 DEF Visible, Over
      <4>2. i[1] = t BY <1>4, <3>3, <4>1
      <4>3. t \in beside[u] BY <1>1, <1>7 DEF RaceInv, Meetings
      <4>4. QED BY <1>1, <4>2, <4>3
    <3>4. QED BY <3>1, <3>2, <3>3
  <2>2. \A p : StillOpen(u, p)' \subseteq StillOpen(u, p)
    BY <1>1, <2>1, StaysClosed
  <2>3. QED BY <1>1, <2>2 DEF RaceInv, Takeover
<1>8. ASSUME NEW u \in Txns, u = t \/ u \notin Running PROVE Takeover(u)'
  <2>1. DOMAIN own'[u] = {} /\ pc'[u] # "closing"
    BY <1>1, <1>8 DEF RaceInv, Provenance, Running, Ends
  <2>2. QED BY <2>1 DEF Takeover
<1>9. Provenance'
  <2>1. \A i \in DOMAIN rate' : i[1] \in Txns => rate'[i].vf = now'[i[1]]
    <3>1. \A i \in DOMAIN T : i \notin DOMAIN rate => i[1] = t BY <1>4
    <3>2. QED BY <1>1, <1>2, <1>3, <1>4, <1>6, <3>1
  <2>2. ASSUME NEW u \in Txns, NEW i \in DOMAIN own'[u], i \in DOMAIN rate'
        PROVE  own'[u][i].vt <= rate'[i].vt
    <3>1. u # t /\ own'[u] = own[u] BY <1>1, <2>2
    <3>2. i \notin DOMAIN T BY <2>2, <3>1 DEF CallInv, Locked
    <3>3. QED BY <1>2, <2>2, <3>1, <3>2 DEF RaceInv, Provenance
  <2>3. \A u \in Txns : DOMAIN own'[u] # {} => u \in Running'
    BY <1>1 DEF RaceInv, Provenance, Running
  <2>4. QED BY <2>1, <2>2, <2>3 DEF Provenance
<1>10. ASSUME NEW p, <<t, p>> \in DOMAIN T, NEW i \in DOMAIN rate,
              PairOf(i) = p, rate'[i].vf <= n, n < rate'[i].vt
       PROVE  i[1] \in beside[t]
  <2>1. i \in DOMAIN Visible(t) /\ Visible(t)[i] = rate'[i]
    BY <1>2, <1>10 DEF Visible, Over
  <2>2. i[1] # t BY <1>3
  <2>3. i \in CoveringIds(Visible(t), p, now[t])
    BY <1>10, <2>1 DEF CoveringIds, Covers
  <2>4. StillOpen(t, p) = {} BY <1>10 DEF RaceInv, Takeover
  <2>5. QED BY <2>2, <2>3, <2>4 DEF StillOpen
<1>11. OverlapNeedsRace'
  <2> SUFFICES ASSUME NEW i \in DOMAIN rate', NEW j \in DOMAIN rate',
                      i # j, PairOf(i) = PairOf(j),
                      rate'[i].vf < rate'[j].vt, rate'[j].vf < rate'[i].vt,
                      rate'[i].vf <= rate'[j].vf, j[1] \in Txns
               PROVE  i[1] \in beside[j[1]]
    BY <1>1 DEF OverlapNeedsRace, Overlap
  <2>1. CASE i \in DOMAIN rate /\ j \in DOMAIN rate
    <3>1. /\ rate[i].vf < rate[j].vt /\ rate[j].vf < rate[i].vt
          /\ rate[i].vf <= rate[j].vf
      BY <1>3, <1>6, <2>1
    <3>2. QED BY <2>1, <3>1 DEF RaceInv, OverlapNeedsRace, Overlap
  <2>2. CASE j \notin DOMAIN rate
    <3>1. j \in DOMAIN T /\ j = <<t, PairOf(j)>> /\ rate'[j].vf = n
      BY <1>2, <1>4, <2>2
    <3>2. i \in DOMAIN rate BY <1>2, <1>4, <3>1
    <3>3. i[1] \in beside[t] BY <1>10, <3>1, <3>2
    <3>4. QED BY <3>1, <3>3
  <2>3. CASE i \notin DOMAIN rate /\ j \in DOMAIN rate
    <3>1. i \in DOMAIN T /\ i = <<t, PairOf(i)>> /\ rate'[i].vf = n
      BY <1>2, <1>4, <2>3
    <3>2. t \in beside[j[1]] <=> j[1] \in beside[t]
      BY DEF RaceInv, Meetings
    <3>3. SUFFICES ASSUME j[1] \notin beside[t] PROVE FALSE
      BY <3>1, <3>2
    <3>4. rate'[j].vf = now[j[1]] BY <1>3, <1>6, <2>3
    <3>5. now[j[1]] <= n
      BY <1>1, <1>3, <2>3, <3>3 DEF RaceInv, Meetings
    <3>6. rate'[j].vf <= n /\ n < rate'[j].vt BY <3>1, <3>4, <3>5
    <3>7. QED BY <1>10, <2>3, <3>1, <3>3, <3>6
  <2>4. QED BY <2>1, <2>2, <2>3
<1>12. QED BY <1>7, <1>8, <1>9, <1>11 DEF RaceInv

-----------------------------------------------------------------------------
(***************************************************************************)
(* The steps of a call.                                                    *)
(***************************************************************************)
LEMMA RaceRest ==
    ASSUME CallInv, RaceInv, Meetings', BeginsNone,
           UNCHANGED <<rate, own, pc, to, targets>>
    PROVE  RaceInv'
BY RaceReads DEF RaceInv, Takeover, BeginsNone, Running

LEMMA RaceBegins ==
    ASSUME CallInv, RaceInv, Meetings', NEW t \in Txns, Begin(t)
    PROVE  RaceInv'
<1>1. /\ pc[t] = "idle" /\ pc'[t] \in {"next", "ignored"}
      /\ \A u \in Txns \ {t} : pc'[u] = pc[u] /\ now'[u] = now[u]
      /\ UNCHANGED <<rate, own, to, targets>>
  BY DEF CallInv, CallTypes, Begin, Goto
<1>2. \A u \in Txns \ {t} : beside[u] \subseteq beside'[u]
  BY DEF Begin
<1>3. QED BY <1>1, <1>2, RaceReads DEF RaceInv, Takeover, Running

LEMMA RaceMovesOn ==
    ASSUME CallInv, RaceInv, Meetings', BeginsNone, NEW t \in Txns,
           LookUp(t) \/ SelectPeriod(t) \/ EndRefresh(t)
    PROVE  RaceInv'
<1>1. /\ t \in Running /\ pc'[t] \in {"next", "select", "refresh", "close"}
      /\ \A u \in Txns \ {t} : pc'[u] = pc[u] /\ to'[u] = to[u]
      /\ UNCHANGED <<rate, own, targets>>
  BY DEF CallInv, CallTypes, LookUp, SelectPeriod, EndRefresh, NextQuote,
         Goto, Running, Ends
<1>2. t \in Running' BY <1>1 DEF Running, Ends
<1>3. QED BY <1>1, <1>2, RaceReads
          DEF RaceInv, Takeover, BeginsNone, Running, Ends

LEMMA RaceStarts ==
    ASSUME CallInv, RaceInv, Meetings', BeginsNone, NEW t \in Txns,
           StartUpdate(t)
    PROVE  RaceInv'
<1>1. /\ t \in Running /\ pc'[t] \in {"refreshing", "closing"}
      /\ targets'[t] = RowsToUpdate(t)
      /\ \A u \in Txns \ {t} : pc'[u] = pc[u] /\ targets'[u] = targets[u]
      /\ UNCHANGED <<rate, own, to>>
  BY DEF CallInv, CallTypes, StartUpdate, Goto, Running, Ends
<1>2. t \in Running' BY <1>1 DEF Running, Ends
<1>3. StillOpen(t, to[t]) \subseteq RowsToUpdate(t)
  BY DEF StillOpen, RowsToUpdate
<1>4. QED BY <1>1, <1>2, <1>3, RaceReads
          DEF RaceInv, Takeover, BeginsNone, Running, Ends

\* A row the call sees ends no later than the committed one.
LEMMA SeenNoLonger ==
    ASSUME CallInv, RaceInv, NEW t \in Txns, NEW id \in DOMAIN Visible(t),
           id \in DOMAIN rate
    PROVE  Visible(t)[id].vt \in Nat /\ rate[id].vt \in Nat
              /\ Visible(t)[id].vt <= rate[id].vt
<1>1. rate[id] \in Row /\ Visible(t)[id] \in Row
  BY VisibleRow DEF CallInv, Committed, RowsOK
<1>2. rate[id].vt \in Nat /\ Visible(t)[id].vt \in Nat
  BY <1>1, CallbackAssumption DEF Row
<1>3. Visible(t)[id] = IF id \in DOMAIN own[t] THEN own[t][id] ELSE rate[id]
  BY VisibleRow
<1>4. QED BY <1>2, <1>3 DEF RaceInv, Provenance

LEMMA RaceRefreshes ==
    ASSUME CallInv, RaceInv, Meetings', BeginsNone, NEW t \in Txns,
           NEW id \in targets[t], RefreshRow(t, id)
    PROVE  RaceInv'
<1> DEFINE row == [Visible(t)[id] EXCEPT !.val = t]
<1>1. /\ pc[t] = "refreshing" /\ t \in Running /\ t \in Running'
      /\ UNCHANGED <<rate, pc, now, to, beside>>
      /\ \A u \in Txns \ {t} : pc'[u] = pc[u] /\ targets'[u] = targets[u]
  BY DEF RefreshRow, context, Running, Ends, CallInv, CallTypes
<1>2. id \in DOMAIN Visible(t)
  BY <1>1 DEF CallInv, Remembered, Visible, Over
<1>3. CASE own' = own
  BY <1>1, <1>3, RaceReads DEF RaceInv, Takeover, BeginsNone, Running
<1>4. CASE own' = [own EXCEPT ![t] = Assign(own[t], id, row)]
  <2>1. row.vf = Visible(t)[id].vf /\ row.vt = Visible(t)[id].vt
    BY <1>2, VisibleRow DEF Row
  <2>2. Covers(row, now[t]) => Covers(Visible(t)[id], now[t])
    BY <2>1 DEF Covers
  <2>3. id \in DOMAIN rate => row.vt <= rate[id].vt
    BY <1>2, <2>1, SeenNoLonger
  <2>4. HIDE DEF row
  <2>5. QED BY <1>1, <1>2, <1>4, <2>2, <2>3, RaceWrites
<1>5. QED BY <1>3, <1>4 DEF RefreshRow

LEMMA RaceCloses ==
    ASSUME CallInv, RaceInv, Meetings', BeginsNone, NEW t \in Txns,
           NEW id \in targets[t], CloseRow(t, id)
    PROVE  RaceInv'
<1> DEFINE row == [Visible(t)[id] EXCEPT !.vt = now[t]]
<1>1. pc[t] = "closing" /\ t \in Running BY DEF CloseRow, Running, Ends
<1>2. id \in DOMAIN Visible(t)
  BY <1>1 DEF CallInv, Remembered, Visible, Over
<1>3. StillOpen(t, to[t]) \subseteq targets[t]
  BY <1>1 DEF RaceInv, Takeover
<1>4. CASE Fail(t) BY <1>1, <1>4, RaceFails
<1>5. CASE /\ ~Covers(Visible(t)[id], now[t])
           /\ targets' = [targets EXCEPT ![t] = @ \ {id}]
           /\ UNCHANGED <<rate, pc, to, own>>
  <2>1. /\ targets'[t] = targets[t] \ {id}
        /\ \A u \in Txns \ {t} : targets'[u] = targets[u]
    BY <1>5 DEF CallInv, CallTypes
  <2>2. id \notin StillOpen(t, to[t]) BY <1>5 DEF StillOpen, CoveringIds
  <2>3. QED BY <1>1, <1>3, <1>5, <2>1, <2>2, RaceReads
            DEF RaceInv, Takeover, BeginsNone, Running
<1>6. CASE /\ Covers(Visible(t)[id], now[t])
           /\ targets' = [targets EXCEPT ![t] = @ \ {id}]
           /\ own' = [own EXCEPT ![t] = Assign(own[t], id, row)]
           /\ UNCHANGED <<rate, pc, to>>
  <2>1. /\ targets'[t] = targets[t] \ {id}
        /\ \A u \in Txns \ {t} : targets'[u] = targets[u]
        /\ t \in Running' /\ UNCHANGED <<now, beside>>
    BY <1>1, <1>6 DEF CallInv, CallTypes, Running, BeginsNone
  <2>2. row.vt = now[t] /\ now[t] \in Nat
    BY <1>2, VisibleRow, CallbackAssumption DEF Row, CallInv, CallTypes
  <2>3. ~Covers(row, now[t]) BY <2>2 DEF Covers
  <2>4. id \in DOMAIN rate => row.vt <= rate[id].vt
    BY <1>2, <1>6, <2>2, SeenNoLonger DEF Covers
  <2>5. HIDE DEF row
  <2>6. /\ DOMAIN Visible(t)' = DOMAIN Visible(t) \cup {id}
        /\ Visible(t)'[id] = row
        /\ \A j \in DOMAIN Visible(t) \ {id} :
              Visible(t)'[j] = Visible(t)[j]
    BY <1>6, ViewWrites
  <2>7. StillOpen(t, to[t])' \subseteq StillOpen(t, to[t])
    BY <1>2, <1>6, <2>1, <2>3, <2>6, StaysClosed
  <2>8. id \notin StillOpen(t, to[t])'
    BY <1>6, <2>1, <2>3, <2>6 DEF StillOpen, CoveringIds
  <2>9. QED BY <1>1, <1>2, <1>3, <1>6, <2>1, <2>3, <2>4, <2>7, <2>8,
               RaceWrites
<1>7. QED BY <1>4, <1>5, <1>6 DEF CloseRow

LEMMA RaceInserts ==
    ASSUME CallInv, RaceInv, Meetings', BeginsNone, NEW t \in Txns,
           InsertPeriod(t)
    PROVE  RaceInv'
<1> PICK id : id = <<t, to[t]>> OBVIOUS
<1> PICK row : row = [vf |-> now[t], vt |-> coalesce(found[t]), val |-> t]
  OBVIOUS
<1>1. /\ pc[t] = "closing" /\ t \in Running /\ targets[t] = {}
      /\ t \in Txns /\ id[1] = t
  BY DEF InsertPeriod, Running, Ends
<1>2. CASE Fail(t) BY <1>1, <1>2, RaceFails
<1>3. CASE /\ own' = [own EXCEPT ![t] = Assign(own[t], id, row)]
           /\ NextQuote(t)
           /\ UNCHANGED <<rate, to, targets>>
  <2>1. /\ pc'[t] = "next" /\ t \in Running' /\ UNCHANGED <<now, beside>>
        /\ \A u \in Txns \ {t} : pc'[u] = pc[u]
    BY <1>1, <1>3
       DEF CallInv, CallTypes, NextQuote, Goto, Running, Ends, BeginsNone
  <2>2. StillOpen(t, to[t]) = {} BY <1>1 DEF RaceInv, Takeover
  <2>3. id \notin DOMAIN rate BY <1>1 DEF CallInv, Committed
  <2>4. QED BY <1>1, <1>3, <2>1, <2>2, <2>3, RaceWrites
<1>4. QED BY <1>2, <1>3 DEF InsertPeriod

LEMMA RaceSteps == CallInv /\ RaceInv /\ [Next]_vars => RaceInv'
<1> SUFFICES ASSUME CallInv, RaceInv, [Next]_vars PROVE RaceInv' OBVIOUS
<1>1. CallInv' BY CallSteps
<1>2. Meetings' BY MeetingsSteps DEF RaceInv
<1>3. ASSUME NEW t \in Txns, Begin(t) PROVE RaceInv'
  BY <1>2, <1>3, RaceBegins
<1>4. CASE \A t \in Txns : ~Begin(t)
  <2>1. BeginsNone BY <1>4, OthersBeginNone
  <2>2. CASE Tick \/ ChangeRegistry \/ UNCHANGED vars
    BY <1>2, <2>1, <2>2, RaceRest DEF Tick, ChangeRegistry, vars
  <2>3. ASSUME NEW t \in Txns, Step(t) PROVE RaceInv'
    <3>1. CASE LookUp(t) \/ SelectPeriod(t) \/ EndRefresh(t)
      BY <1>2, <2>1, <3>1, RaceMovesOn
    <3>2. CASE BadNumber(t) \/ DeadlockDetected(t)
      BY <1>2, <3>2, RaceFails DEF BadNumber, DeadlockDetected, Running, Ends
    <3>3. CASE StartUpdate(t) BY <1>2, <2>1, <3>3, RaceStarts
    <3>4. CASE \E id \in targets[t] : RefreshRow(t, id) \/ CloseRow(t, id)
      BY <1>2, <2>1, <3>4, RaceRefreshes, RaceCloses
    <3>5. CASE InsertPeriod(t) BY <1>2, <2>1, <3>5, RaceInserts
    <3>6. CASE Commit(t) BY <1>1, <1>2, <3>6, RaceCommits
    <3>7. QED BY <2>3, <3>1, <3>2, <3>3, <3>4, <3>5, <3>6 DEF Step
  <2>4. ASSUME NEW t \in Txns, ConnectionLost(t) PROVE RaceInv'
    BY <1>2, <2>4, RaceFails DEF ConnectionLost
  <2>5. QED BY <1>4, <2>2, <2>3, <2>4 DEF Next
<1>5. QED BY <1>3, <1>4

LEMMA RaceInvariant == Spec => []RaceInv
<1>1. Init => RaceInv
  <2>1. SUFFICES ASSUME Init PROVE RaceInv OBVIOUS
  <2>2. /\ Running = {} /\ \A t \in Txns : pc[t] = "idle"
        /\ \A t \in Txns : DOMAIN own[t] = {}
        /\ \A t \in Txns : beside[t] = {}
    BY <2>1 DEF Init, Running, Empty
  <2>3. Meetings BY <2>1, <2>2 DEF Init, Meetings
  <2>4. \A id \in DOMAIN rate : id[1] \notin Txns
    BY <2>1, SeedsAssumption DEF Init, LeftByCalls
  <2>5. QED BY <2>2, <2>3, <2>4
            DEF RaceInv, Provenance, OverlapNeedsRace, Takeover
<1>2. QED BY <1>1, RaceSteps, CallsInvariant, PTL DEF Spec

(***************************************************************************)
(* Two rates of a pair for one instant are a race of two calls of          *)
(* exchange_rate_done: the period that starts last, if a call wrote it,    *)
(* was written beside the call that wrote the other, whatever table the    *)
(* calls found and however many of them failed or were cut off.            *)
(***************************************************************************)
THEOREM OverlapsAreRaces == Spec => []OverlapNeedsRace
<1>1. RaceInv => OverlapNeedsRace BY DEF RaceInv
<1>2. QED BY <1>1, RaceInvariant, PTL
=============================================================================
