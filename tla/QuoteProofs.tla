---------------------------- MODULE QuoteProofs ----------------------------
(***************************************************************************)
(* A committed call's quotes stay (QuoteKept), for any number of calls at  *)
(* once.  The argument is again about starts: a call that has dealt with a *)
(* quote sees a period that starts at its Now() and has the value of some  *)
(* call; such a period is closed only by a call with the same Now(), which *)
(* commits a period of its own in its place.  That the value is of no      *)
(* earlier call follows, since a row gets it only while it covers the      *)
(* Now() of the writer.                                                    *)
(*                                                                         *)
(* The second part is about the order in which calls come to the pairs,    *)
(* and why they do not wait for one another in a circle                    *)
(* (DeadlockNeedsOverlap); the last one collects the types of the state.   *)
(***************************************************************************)
EXTENDS ExchangeCallbackProofs

\* The value of a row is of a call that began at its start or later.
LaterValue(row) ==
    row.val \in Txns => pc[row.val] # "idle" /\ row.vf <= now[row.val]

\* A call gives a row its value, or closes it at its Now().
OwnValue(t, id) ==
    \/ own[t][id].val = t
    \/ /\ own[t][id].vt = now[t]
       /\ id \in DOMAIN rate /\ own[t][id].val = rate[id].val

ValuesOK ==
    /\ \A id \in DOMAIN rate : LaterValue(rate[id])
    /\ \A t \in Txns : \A id \in DOMAIN own[t] :
          LaterValue(own[t][id]) /\ OwnValue(t, id)

-----------------------------------------------------------------------------
(***************************************************************************)
(* Steps that write no row: no call that has begun changes its Now().      *)
(***************************************************************************)
LEMMA ValuesStay ==
    ASSUME ValuesOK, UNCHANGED rate,
           \A u \in Txns : pc[u] # "idle" => pc'[u] # "idle" /\ now'[u] = now[u],
           \A u \in Txns : DOMAIN own'[u] # {} =>
              own'[u] = own[u] /\ now'[u] = now[u]
    PROVE  ValuesOK'
<1>1. \A row : LaterValue(row) => LaterValue(row)' BY DEF LaterValue
<1>2. \A u \in Txns : \A id \in DOMAIN own'[u] :
         LaterValue(own[u][id])' /\ OwnValue(u, id)'
  BY <1>1 DEF ValuesOK, OwnValue
<1>3. \A u \in Txns : \A id \in DOMAIN own'[u] : own'[u][id] = own[u][id]
  OBVIOUS
<1>4. QED BY <1>1, <1>2, <1>3 DEF ValuesOK, LaterValue

LEMMA ValuesFail ==
    ASSUME CallInv, ValuesOK, NEW t \in Running, Fail(t)
    PROVE  ValuesOK'
<1>1. /\ DOMAIN own'[t] = {} /\ \A u \in Txns \ {t} : own'[u] = own[u]
      /\ pc'[t] = "failed" /\ \A u \in Txns \ {t} : pc'[u] = pc[u]
      /\ UNCHANGED <<rate, now>>
  BY DEF CallInv, CallTypes, Empty, Fail, Goto, Running
<1>2. QED BY <1>1, ValuesStay

(***************************************************************************)
(* A step that writes one row.                                             *)
(***************************************************************************)
LEMMA ValuesWrite ==
    ASSUME CallInv, ValuesOK, NEW t \in Txns, NEW id, NEW row,
           UNCHANGED <<rate, now>>,
           own' = [own EXCEPT ![t] = Assign(own[t], id, row)],
           \A u \in Txns : pc[u] # "idle" => pc'[u] # "idle",
           LaterValue(row),
           \/ row.val = t
           \/ row.vt = now[t] /\ id \in DOMAIN rate /\ row.val = rate[id].val
    PROVE  ValuesOK'
<1>1. \A r : LaterValue(r) => LaterValue(r)' BY DEF LaterValue
<1>2. /\ DOMAIN own'[t] = DOMAIN own[t] \cup {id}
      /\ own'[t][id] = row
      /\ \A k \in DOMAIN own[t] \ {id} : own'[t][k] = own[t][k]
      /\ \A u \in Txns \ {t} : own'[u] = own[u]
  BY DEF Assign, CallInv, CallTypes
<1>3. OwnValue(t, id)' BY <1>2 DEF OwnValue
<1>4. \A u \in Txns : \A k \in DOMAIN own'[u] : OwnValue(u, k)'
  BY <1>2, <1>3 DEF OwnValue, ValuesOK
<1>5. \A u \in Txns : \A k \in DOMAIN own'[u] : LaterValue(own'[u][k])
  BY <1>2 DEF ValuesOK, LaterValue
<1>6. QED BY <1>1, <1>4, <1>5 DEF ValuesOK, LaterValue

LEMMA ValuesRefresh ==
    ASSUME CallInv, ValuesOK, NEW t \in Txns, NEW id \in targets[t],
           RefreshRow(t, id)
    PROVE  ValuesOK'
<1>1. pc[t] = "refreshing" /\ UNCHANGED <<rate, pc, now>> BY DEF RefreshRow
<1>2. id \in DOMAIN Visible(t)
  BY <1>1 DEF CallInv, Remembered, Visible, Over
<1>3. CASE own' = own BY <1>1, <1>3, ValuesStay
<1>4. ASSUME NEW row, row = [Visible(t)[id] EXCEPT !.val = t],
             Covers(Visible(t)[id], now[t]),
             own' = [own EXCEPT ![t] = Assign(own[t], id, row)]
      PROVE  ValuesOK'
  <2>1. row.vf = Visible(t)[id].vf /\ row.val = t
    BY <1>2, <1>4, VisibleRow DEF Row
  <2>2. LaterValue(row) BY <1>1, <1>4, <2>1 DEF LaterValue, Covers
  <2>3. QED BY <1>1, <1>4, <2>1, <2>2, ValuesWrite
<1>5. QED BY <1>3, <1>4 DEF RefreshRow

LEMMA ValuesClose ==
    ASSUME CallInv, ValuesOK, NEW t \in Txns, NEW id \in targets[t],
           CloseRow(t, id)
    PROVE  ValuesOK'
<1>1. pc[t] = "closing" /\ t \in Running BY DEF CloseRow, Running, Ends
<1>2. id \in DOMAIN Visible(t)
  BY <1>1 DEF CallInv, Remembered, Visible, Over
<1>3. CASE Fail(t) BY <1>1, <1>3, ValuesFail
<1>4. CASE UNCHANGED <<rate, pc, now, own>> BY <1>4, ValuesStay
<1>5. ASSUME NEW row, row = [Visible(t)[id] EXCEPT !.vt = now[t]],
             own' = [own EXCEPT ![t] = Assign(own[t], id, row)],
             UNCHANGED <<rate, pc, now>>
      PROVE  ValuesOK'
  <2>1. /\ row.vf = Visible(t)[id].vf /\ row.vt = now[t]
        /\ row.val = Visible(t)[id].val
    BY <1>2, <1>5, VisibleRow DEF Row
  <2>2. /\ LaterValue(Visible(t)[id])
        /\ \/ Visible(t)[id].val = t
           \/ id \in DOMAIN rate /\ Visible(t)[id].val = rate[id].val
    <3>1. CASE id \in DOMAIN own[t]
      <4>1. Visible(t)[id] = own[t][id] BY <1>2, <3>1, VisibleRow
      <4>2. QED BY <3>1, <4>1 DEF ValuesOK, OwnValue
    <3>2. CASE id \notin DOMAIN own[t]
      <4>1. Visible(t)[id] = rate[id] /\ id \in DOMAIN rate
        BY <1>2, <3>2, VisibleRow
      <4>2. QED BY <4>1 DEF ValuesOK
    <3>3. QED BY <3>1, <3>2
  <2>3. LaterValue(row) BY <2>1, <2>2 DEF LaterValue
  <2>4. QED BY <1>5, <2>1, <2>2, <2>3, ValuesWrite
<1>6. QED BY <1>3, <1>4, <1>5 DEF CloseRow

LEMMA ValuesInsert ==
    ASSUME CallInv, ValuesOK, NEW t \in Txns, InsertPeriod(t)
    PROVE  ValuesOK'
<1>1. pc[t] = "closing" /\ t \in Running
  BY DEF InsertPeriod, Running, Ends
<1>2. CASE Fail(t) BY <1>1, <1>2, ValuesFail
<1>3. ASSUME NEW id, NEW row,
             row = [vf |-> now[t], vt |-> coalesce(found[t]), val |-> t],
             own' = [own EXCEPT ![t] = Assign(own[t], id, row)],
             NextQuote(t), UNCHANGED <<rate, now>>
      PROVE  ValuesOK'
  <2>1. \A u \in Txns : pc[u] # "idle" => pc'[u] # "idle"
    BY <1>3 DEF NextQuote, Goto, CallInv, CallTypes
  <2>2. now[t] \in Nat
    BY CallbackAssumption DEF CallInv, CallTypes
  <2>3. row.val = t /\ LaterValue(row)
    BY <1>1, <1>3, <2>2 DEF LaterValue
  <2>4. QED BY <1>3, <2>1, <2>3, ValuesWrite
<1>4. QED BY <1>2, <1>3 DEF InsertPeriod

LEMMA ValuesCommit ==
    ASSUME CallInv, ValuesOK, NEW t \in Txns, Commit(t)
    PROVE  ValuesOK'
<1>1. /\ pc'[t] = "done" /\ \A u \in Txns \ {t} : pc'[u] = pc[u]
      /\ rate' = Over(own[t], rate) /\ UNCHANGED now
      /\ DOMAIN own'[t] = {} /\ \A u \in Txns \ {t} : own'[u] = own[u]
  BY DEF CallInv, CallTypes, Commit, Goto, Empty
<1>2. /\ DOMAIN rate' = DOMAIN own[t] \cup DOMAIN rate
      /\ \A id \in DOMAIN rate' :
            rate'[id] = IF id \in DOMAIN own[t] THEN own[t][id] ELSE rate[id]
  BY <1>1 DEF Over
<1>3. \A row : LaterValue(row) => LaterValue(row)' BY <1>1 DEF LaterValue
<1>4. \A id \in DOMAIN rate' : LaterValue(rate'[id])
  BY <1>2 DEF ValuesOK
<1>5. ASSUME NEW u \in Txns \ {t}, NEW id \in DOMAIN own[u]
      PROVE  OwnValue(u, id)'
  <2>1. id \notin DOMAIN own[t] BY <1>5 DEF CallInv, Locked
  <2>2. id \in DOMAIN rate => id \in DOMAIN rate' /\ rate'[id] = rate[id]
    BY <1>2, <2>1
  <2>3. OwnValue(u, id) BY <1>5 DEF ValuesOK
  <2>4. QED BY <1>1, <2>2, <2>3 DEF OwnValue
<1>6. \A u \in Txns : \A id \in DOMAIN own'[u] :
         LaterValue(own'[u][id]) /\ OwnValue(u, id)'
  BY <1>1, <1>5 DEF ValuesOK
<1>7. QED BY <1>3, <1>4, <1>6 DEF ValuesOK, LaterValue

LEMMA ValuesSteps == CallInv /\ ValuesOK /\ [Next]_vars => ValuesOK'
<1> SUFFICES ASSUME CallInv, ValuesOK, [Next]_vars PROVE ValuesOK' OBVIOUS
<1>1. ASSUME UNCHANGED <<rate, own, pc, now>> PROVE ValuesOK'
  BY <1>1, ValuesStay
<1>2. ASSUME NEW t \in Txns, Begin(t) PROVE ValuesOK'
  <2>1. /\ pc[t] = "idle" /\ pc'[t] # "idle" /\ DOMAIN own[t] = {}
        /\ \A u \in Txns \ {t} : pc'[u] = pc[u] /\ now'[u] = now[u]
        /\ UNCHANGED <<rate, own>>
    BY <1>2 DEF Begin, Goto, CallInv, CallTypes, Written
  <2>2. QED BY <2>1, ValuesStay
<1>3. ASSUME NEW t \in Txns,
             LookUp(t) \/ SelectPeriod(t) \/ StartUpdate(t) \/ EndRefresh(t)
      PROVE  ValuesOK'
  <2>1. /\ \A u \in Txns : pc[u] # "idle" => pc'[u] # "idle"
        /\ UNCHANGED <<rate, own, now>>
    BY <1>3 DEF LookUp, SelectPeriod, StartUpdate, EndRefresh, NextQuote, Goto,
                CallInv, CallTypes
  <2>2. QED BY <2>1, ValuesStay
<1>4. ASSUME NEW t \in Txns, Fail(t), pc[t] \notin Ends \cup {"idle"}
      PROVE  ValuesOK'
  BY <1>4, ValuesFail DEF Running
<1>5. ASSUME NEW t \in Txns, Step(t) PROVE ValuesOK'
  BY <1>3, <1>4, <1>5, ValuesRefresh, ValuesClose, ValuesInsert, ValuesCommit
     DEF Step, BadNumber, DeadlockDetected, Running, Ends
<1>6. CASE Tick \/ ChangeRegistry \/ UNCHANGED vars
  BY <1>1, <1>6 DEF Tick, ChangeRegistry, vars
<1>7. QED BY <1>2, <1>4, <1>5, <1>6 DEF Next, ConnectionLost, Running

-----------------------------------------------------------------------------
(***************************************************************************)
(* The replies, and what a call has seen of the registry.                  *)
(***************************************************************************)
RepliesOK ==
    /\ DOMAIN held = Txns /\ pos \in [Txns -> Nat \ {0}]
    /\ reply \in [Txns -> Seq([code : Codes, numeric : BOOLEAN])]
    /\ \A t \in Txns : pc[t] = "idle" => pos[t] = 1
    /\ \A t \in Running : Holdings \subseteq held[t]

LEMMA CodesFinite == IsFiniteSet(Codes)
<1>1. KeyOrder \in [1 .. Len(KeyOrder) -> Codes] /\ Len(KeyOrder) \in Nat
  BY KeysAssumption
<1>2. \A c \in Codes : \E i \in 1 .. Len(KeyOrder) : KeyOrder[i] = c
  BY <1>1 DEF Codes, ToSet
<1>3. KeyOrder \in Surjection(1 .. Len(KeyOrder), Codes)
  BY <1>1, <1>2 DEF Surjection
<1>4. QED BY <1>1, <1>3, FS_NatSurjection DEF ExistsSurjection

(***************************************************************************)
(* The keys of a reply are a sequence of codes.                            *)
(***************************************************************************)
LEMMA KeysAreCodes ==
    ASSUME NEW S \in SUBSET Codes, NEW keys \in JsonbOrder(S)
    PROVE  \E n \in Nat : keys \in [1 .. n -> Codes]
<1>1. IsFiniteSet(S) BY CodesFinite, FS_Subset
<1>2. Cardinality(S) \in Nat BY <1>1, FS_CardinalityType
<1>3. keys \in [1 .. Cardinality(S) -> S] BY DEF JsonbOrder, SetToSeqs
<1>4. QED BY <1>2, <1>3

LEMMA RepliesStay ==
    ASSUME RepliesOK, UNCHANGED <<currency, held, reply>>,
           pos' \in [Txns -> Nat \ {0}],
           \A u \in Txns : pc'[u] = "idle" => pc[u] = "idle" /\ pos'[u] = pos[u],
           Running' \subseteq Running
    PROVE  RepliesOK'
<1>1. Holdings' = Holdings
  BY DEF Holdings, Holders, Registry!get_currency_id
<1>2. QED BY <1>1 DEF RepliesOK

LEMMA RepliesBegin ==
    ASSUME CallInv, RepliesOK, NEW t \in Txns, Begin(t)
    PROVE  RepliesOK'
<1>1. /\ UNCHANGED <<currency, pos>> /\ held' = [held EXCEPT ![t] = Holdings]
      /\ \A u \in Txns \ {t} : pc'[u] = pc[u]
      /\ pc'[t] # "idle"
  BY DEF Begin, Goto, CallInv, CallTypes
<1>2. Holdings' = Holdings
  BY <1>1 DEF Holdings, Holders, Registry!get_currency_id
<1>3. reply' \in [Txns -> Seq([code : Codes, numeric : BOOLEAN])]
  <2>1. ASSUME NEW S \in SUBSET Codes, NEW bad \in SUBSET Codes,
               NEW keys \in JsonbOrder(S)
        PROVE  [i \in DOMAIN keys |-> [code |-> keys[i],
                                       numeric |-> keys[i] \notin bad]]
                  \in Seq([code : Codes, numeric : BOOLEAN])
    <3>1. PICK n \in Nat : keys \in [1 .. n -> Codes] BY KeysAreCodes
    <3>2. [i \in DOMAIN keys |-> [code |-> keys[i],
                                  numeric |-> keys[i] \notin bad]]
             \in [1 .. n -> [code : Codes, numeric : BOOLEAN]]
      BY <3>1
    <3>3. QED BY <3>2
  <2>2. CASE UNCHANGED reply BY <2>2 DEF RepliesOK
  <2>3. ASSUME NEW S \in SUBSET Codes, NEW bad \in SUBSET Codes,
               NEW keys \in JsonbOrder(S),
               reply' = [reply EXCEPT ![t] =
                  [i \in DOMAIN keys |-> [code |-> keys[i],
                                          numeric |-> keys[i] \notin bad]]]
        PROVE  reply' \in [Txns -> Seq([code : Codes, numeric : BOOLEAN])]
    <3>1. PICK quotes \in Seq([code : Codes, numeric : BOOLEAN]) :
             reply' = [reply EXCEPT ![t] = quotes]
      BY <2>1, <2>3
    <3>2. QED BY <3>1 DEF RepliesOK
  <2>4. \/ UNCHANGED reply
        \/ \E S \in SUBSET Codes, bad \in SUBSET Codes :
              \E keys \in JsonbOrder(S) :
                 reply' = [reply EXCEPT ![t] =
                    [i \in DOMAIN keys |-> [code |-> keys[i],
                                            numeric |-> keys[i] \notin bad]]]
    BY Zenon DEF Begin
  <2>5. QED BY <2>2, <2>3, <2>4, Zenon
<1>4. QED BY <1>1, <1>2, <1>3 DEF RepliesOK, Running

LEMMA RepliesChange ==
    ASSUME RepliesOK, ChangeRegistry
    PROVE  RepliesOK'
<1>1. /\ UNCHANGED <<pc, reply, pos>>
      /\ held' = [t \in Txns |-> held[t] \cup IF t \in Running THEN Holdings'
                                                               ELSE {}]
  BY DEF ChangeRegistry
<1>2. Running' = Running BY <1>1 DEF Running
<1>3. \A t \in Running : Holdings' \subseteq held'[t] BY <1>1 DEF Running
<1>4. DOMAIN held' = Txns BY <1>1
<1>5. QED BY <1>1, <1>2, <1>3, <1>4 DEF RepliesOK

LEMMA RepliesSteps == CallInv /\ RepliesOK /\ [Next]_vars => RepliesOK'
<1> SUFFICES ASSUME CallInv, RepliesOK, [Next]_vars PROVE RepliesOK' OBVIOUS
<1>1. ASSUME NEW t \in Txns, Fail(t), t \in Running PROVE RepliesOK'
  <2>1. /\ pc'[t] = "failed" /\ \A u \in Txns \ {t} : pc'[u] = pc[u]
        /\ UNCHANGED <<currency, held, reply, pos>>
    BY <1>1 DEF Fail, Goto, CallInv, CallTypes, context
  <2>2. QED BY <2>1, RepliesStay DEF Running, Ends, RepliesOK
<1>2. ASSUME NEW t \in Txns, NEW p \in Nat \ {0}, t \in Running, pc'[t] # "idle",
             \A u \in Txns \ {t} : pc'[u] = pc[u],
             UNCHANGED pos \/ pos' = [pos EXCEPT ![t] = p],
             UNCHANGED <<currency, held, reply>>
      PROVE  RepliesOK'
  BY <1>2, RepliesStay DEF Running, Ends, RepliesOK
<1>3. ASSUME NEW t \in Txns, Step(t) PROVE RepliesOK'
  <2>1. pos[t] + 1 \in Nat \ {0} BY DEF RepliesOK
  <2>2. CASE LookUp(t)
    BY <1>2, <2>1, <2>2
       DEF LookUp, NextQuote, Goto, CallInv, CallTypes, context, Running, Ends
  <2>3. CASE BadNumber(t) BY <1>1, <2>3 DEF BadNumber, Running, Ends
  <2>4. CASE SelectPeriod(t)
    BY <1>2, <2>1, <2>4
       DEF SelectPeriod, Goto, CallInv, CallTypes, context, Running, Ends
  <2>5. CASE StartUpdate(t)
    BY <1>2, <2>1, <2>5
       DEF StartUpdate, Goto, CallInv, CallTypes, context, Running, Ends
  <2>6. ASSUME NEW id \in targets[t], RefreshRow(t, id) PROVE RepliesOK'
    BY <1>2, <2>1, <2>6
       DEF RefreshRow, Goto, CallInv, CallTypes, context, Running, Ends
  <2>7. ASSUME NEW id \in targets[t], CloseRow(t, id) PROVE RepliesOK'
    <3>1. t \in Running /\ pc[t] # "idle"
      BY <2>7 DEF CloseRow, Running, Ends
    <3>2. CASE UNCHANGED <<context, pc, reply, pos>>
      BY <1>2, <2>1, <3>1, <3>2 DEF context
    <3>3. QED BY <1>1, <2>7, <3>1, <3>2 DEF CloseRow, context
  <2>8. CASE EndRefresh(t)
    BY <1>2, <2>1, <2>8
       DEF EndRefresh, NextQuote, Goto, CallInv, CallTypes, context, Running,
           Ends
  <2>9. CASE InsertPeriod(t)
    <3>1. t \in Running BY <2>9 DEF InsertPeriod, Running, Ends
    <3>2. CASE NextQuote(t) /\ UNCHANGED <<context, reply>>
      BY <1>2, <2>1, <3>1, <3>2
         DEF NextQuote, Goto, CallInv, CallTypes, context
    <3>3. QED BY <1>1, <2>9, <3>1, <3>2 DEF InsertPeriod, context
  <2>10. CASE Commit(t)
    BY <1>2, <2>1, <2>10
       DEF Commit, Goto, CallInv, CallTypes, context, Running, Ends
  <2>11. CASE DeadlockDetected(t)
    BY <1>1, <2>11 DEF DeadlockDetected
  <2>12. QED
    BY <1>3, <2>2, <2>3, <2>4, <2>5, <2>6, <2>7, <2>8, <2>9, <2>10, <2>11
       DEF Step
<1>4. CASE Tick \/ UNCHANGED vars
  BY <1>4, RepliesStay DEF Tick, vars, context, Running, RepliesOK
<1>5. QED BY <1>1, <1>3, <1>4, RepliesBegin, RepliesChange
          DEF Next, ConnectionLost

-----------------------------------------------------------------------------
(***************************************************************************)
(* What a call has done about its quotes.                                  *)
(***************************************************************************)
\* Row id gives the rate of p from x on.
PeriodAt(tab, id, p, x) ==
    /\ id \in DOMAIN tab /\ PairOf(id) = p
    /\ tab[id].vf = x /\ x < tab[id].vt

\* A period starts at x, with the value of some call.
Published(tab, p, x) ==
    \E id \in DOMAIN tab : PeriodAt(tab, id, p, x) /\ tab[id].val \in Txns

\* Quote n had currency i at some time of the call, if any.
Placed(t, n, i) == <<reply[t][n].code, i>> \in held[t]

Handled(t) ==
    t \in Running => \A n \in DOMAIN reply[t] : n < pos[t] =>
        \E i \in Ids \cup {NoId} :
            /\ Placed(t, n, i)
            /\ i # NoId => Published(Visible(t), i, now[t]) \/ Closing(t, i)

AtQuote(t) ==
    pc[t] \in {"select", "refresh", "refreshing", "close", "closing"} =>
        /\ pos[t] \in DOMAIN reply[t] /\ to[t] \in Ids
        /\ Placed(t, pos[t], to[t])

\* The row a refresh found is still there, or one that took its place.
Refreshes(t) ==
    /\ pc[t] = "refresh" =>
          \E id \in DOMAIN Visible(t) :
             PeriodAt(Visible(t), id, to[t], now[t])
    /\ pc[t] = "refreshing" =>
          \/ Published(Visible(t), to[t], now[t])
          \/ \E id \in targets[t] : PeriodAt(Visible(t), id, to[t], now[t])

Kept(t) ==
    pc[t] = "done" => \A n \in DOMAIN reply[t] :
        \E i \in Ids \cup {NoId} :
            /\ Placed(t, n, i)
            /\ i # NoId => Published(rate, i, now[t])

CallQuotes(t) == Handled(t) /\ AtQuote(t) /\ Refreshes(t) /\ Kept(t)

(***************************************************************************)
(* A call another call's step does not touch.                              *)
(***************************************************************************)
LEMMA QuotesStay ==
    ASSUME NEW u \in Txns, CallQuotes(u),
           UNCHANGED <<rate, own[u], pc[u], now[u], reply[u], pos[u], to[u],
                       targets[u]>>,
           held[u] \subseteq held'[u]
    PROVE  CallQuotes(u)'
<1>1. Visible(u)' = Visible(u) BY DEF Visible
<1>2. \A n, i : Placed(u, n, i) => Placed(u, n, i)' BY DEF Placed
<1>3. \A i : Closing(u, i)' = Closing(u, i) BY DEF Closing
<1>4. (u \in Running') = (u \in Running) BY DEF Running
<1>5. Handled(u)' BY <1>1, <1>2, <1>3, <1>4 DEF CallQuotes, Handled
<1>6. AtQuote(u)' BY <1>2 DEF CallQuotes, AtQuote
<1>7. Refreshes(u)' BY <1>1 DEF CallQuotes, Refreshes
<1>8. Kept(u)' BY <1>2 DEF CallQuotes, Kept
<1>9. QED BY <1>5, <1>6, <1>7, <1>8 DEF CallQuotes

LEMMA QuotesFail ==
    ASSUME CallInv, \A u \in Txns : CallQuotes(u), NEW t \in Running, Fail(t)
    PROVE  \A u \in Txns : CallQuotes(u)'
<1>1. /\ pc'[t] = "failed"
      /\ \A u \in Txns \ {t} :
            /\ pc'[u] = pc[u] /\ own'[u] = own[u] /\ targets'[u] = targets[u]
      /\ UNCHANGED <<rate, now, reply, pos, to, held>>
  BY DEF CallInv, CallTypes, Fail, Goto, Running, context
<1>2. CallQuotes(t)'
  BY <1>1 DEF CallQuotes, Handled, AtQuote, Refreshes, Kept, Running, Ends
<1>3. ASSUME NEW u \in Txns \ {t} PROVE CallQuotes(u)'
  BY <1>1, <1>3, QuotesStay
<1>4. QED BY <1>2, <1>3

(***************************************************************************)
(* A period that is committed survives the commit of another call, or that *)
(* call puts one of its own in its place.                                  *)
(***************************************************************************)
LEMMA PeriodCommits ==
    ASSUME CallInv, ValuesOK, NEW u \in Txns, pc[u] = "next",
           rate' = Over(own[u], rate), NEW p, NEW x, NEW id,
           PeriodAt(rate, id, p, x)
    PROVE  \/ /\ PeriodAt(rate', id, p, x)
              /\ rate[id].val \in Txns => rate'[id].val \in Txns
           \/ \E s \in DOMAIN own[u] :
                 PeriodAt(rate', s, p, x) /\ rate'[s].val \in Txns
<1>1. /\ DOMAIN rate' = DOMAIN own[u] \cup DOMAIN rate
      /\ \A k \in DOMAIN rate' :
            rate'[k] = IF k \in DOMAIN own[u] THEN own[u][k] ELSE rate[k]
  BY DEF Over
<1>2. id \in DOMAIN rate /\ PairOf(id) = p /\ rate[id].vf = x
      /\ x < rate[id].vt
  BY DEF PeriodAt
<1>3. CASE id \notin DOMAIN own[u] BY <1>1, <1>2, <1>3 DEF PeriodAt
<1>4. CASE id \in DOMAIN own[u] /\ x < own[u][id].vt
  <2>1. own[u][id].vf = x
    BY <1>2, <1>4 DEF CallInv, Written, WrittenRow
  <2>2. own[u][id].val = u \/ own[u][id].val = rate[id].val
    BY <1>4 DEF ValuesOK, OwnValue
  <2>3. QED BY <1>1, <1>2, <1>4, <2>1, <2>2 DEF PeriodAt
<1>5. CASE id \in DOMAIN own[u] /\ ~(x < own[u][id].vt)
  <2>1. /\ own[u][id].vf = x /\ own[u][id].vt = now[u]
        /\ own[u][id].vf <= own[u][id].vt
        /\ own[u][id].vf \in Nat /\ own[u][id].vt \in Nat
    BY <1>2, <1>5, CallbackAssumption
       DEF CallInv, Written, WrittenRow, RowsOK, Row
  <2>2. now[u] = x BY <1>5, <2>1
  <2>3. Succeeded(u, p)
    BY <1>2, <1>5, <2>1 DEF CallInv, Written, WrittenRow, Closing
  <2>4. PICK s \in DOMAIN own[u] :
           PairOf(s) = p /\ own[u][s].vf = now[u] /\ now[u] < own[u][s].vt
    BY <2>3 DEF Succeeded
  <2>5. now[u] \in Nat BY CallbackAssumption DEF CallInv, CallTypes
  <2>6. own[u][s].val = u BY <2>4, <2>5 DEF ValuesOK, OwnValue
  <2>7. QED BY <1>1, <2>2, <2>4, <2>6 DEF PeriodAt
<1>6. QED BY <1>3, <1>4, <1>5

\* The same of what a running call sees.
LEMMA SeesCommit ==
    ASSUME CallInv, ValuesOK, NEW u \in Txns, pc[u] = "next",
           rate' = Over(own[u], rate), NEW t \in Txns \ {u}, own'[t] = own[t],
           NEW p, NEW x, NEW id, PeriodAt(Visible(t), id, p, x)
    PROVE  \/ /\ PeriodAt(Visible(t)', id, p, x)
              /\ Visible(t)[id].val \in Txns => Visible(t)'[id].val \in Txns
           \/ Published(Visible(t)', p, x)
<1>1. /\ DOMAIN Visible(t) = DOMAIN own[t] \cup DOMAIN rate
      /\ DOMAIN Visible(t)' = DOMAIN own[t] \cup DOMAIN rate'
      /\ \A k \in DOMAIN Visible(t) : Visible(t)[k] =
            IF k \in DOMAIN own[t] THEN own[t][k] ELSE rate[k]
      /\ \A k \in DOMAIN Visible(t)' : Visible(t)'[k] =
            IF k \in DOMAIN own[t] THEN own[t][k] ELSE rate'[k]
  BY DEF Visible, Over
<1>2. id \in DOMAIN Visible(t) BY DEF PeriodAt
<1>3. CASE id \in DOMAIN own[t] BY <1>1, <1>2, <1>3 DEF PeriodAt
<1>4. CASE id \notin DOMAIN own[t]
  <2>1. PeriodAt(rate, id, p, x) /\ Visible(t)[id] = rate[id]
    BY <1>1, <1>2, <1>4 DEF PeriodAt
  <2>2. CASE /\ PeriodAt(rate', id, p, x)
             /\ rate[id].val \in Txns => rate'[id].val \in Txns
    BY <1>1, <1>4, <2>1, <2>2 DEF PeriodAt
  <2>3. ASSUME NEW s \in DOMAIN own[u], PeriodAt(rate', s, p, x),
               rate'[s].val \in Txns
        PROVE  Published(Visible(t)', p, x)
    <3>1. s \notin DOMAIN own[t] BY <2>3 DEF CallInv, Locked
    <3>2. PeriodAt(Visible(t)', s, p, x) /\ Visible(t)'[s] = rate'[s]
      BY <1>1, <2>3, <3>1 DEF PeriodAt
    <3>3. QED BY <2>3, <3>2 DEF Published, PeriodAt
  <2>4. QED BY <2>1, <2>2, <2>3, PeriodCommits
<1>5. QED BY <1>3, <1>4

LEMMA QuotesCommit ==
    ASSUME CallInv, ValuesOK, RepliesOK, \A u \in Txns : CallQuotes(u),
           NEW t \in Txns, Commit(t)
    PROVE  \A u \in Txns : CallQuotes(u)'
<1>1. /\ pc[t] = "next" /\ pc'[t] = "done" /\ rate' = Over(own[t], rate)
      /\ pos[t] > Len(reply[t])
      /\ \A u \in Txns \ {t} : pc'[u] = pc[u] /\ own'[u] = own[u]
      /\ UNCHANGED <<now, reply, pos, to, targets, held>>
  BY DEF CallInv, CallTypes, Commit, Goto, context
<1>2. \A p, x : Published(rate, p, x) => Published(rate', p, x)
  <2>1. SUFFICES ASSUME NEW p, NEW x, Published(rate, p, x)
                 PROVE  Published(rate', p, x)
    OBVIOUS
  <2>2. PICK id \in DOMAIN rate :
           PeriodAt(rate, id, p, x) /\ rate[id].val \in Txns
    BY <2>1 DEF Published
  <2>3. QED BY <1>1, <2>2, PeriodCommits DEF Published, PeriodAt
<1>3. \A u, n, i : Placed(u, n, i)' = Placed(u, n, i) BY <1>1 DEF Placed
<1>4. CallQuotes(t)'
  <2>1. rate' = Visible(t) BY <1>1 DEF Visible
  <2>2. \A n \in DOMAIN reply[t] : n < pos[t]
    <3>1. reply[t] \in Seq([code : Codes, numeric : BOOLEAN]) /\ pos[t] \in Nat
      BY DEF RepliesOK
    <3>2. QED BY <1>1, <3>1
  <2>3. t \in Running /\ \A i : ~Closing(t, i)
    BY <1>1 DEF Running, Ends, Closing
  <2>4. Kept(t)'
    BY <1>1, <1>3, <2>1, <2>2, <2>3 DEF CallQuotes, Handled, Kept
  <2>5. QED
    BY <1>1, <2>4 DEF CallQuotes, Handled, AtQuote, Refreshes, Running, Ends
<1>5. ASSUME NEW u \in Txns \ {t} PROVE CallQuotes(u)'
  <2>1. own'[u] = own[u] /\ pc'[u] = pc[u] BY <1>1
  <2>2. ASSUME NEW p, Published(Visible(u), p, now[u])
        PROVE  Published(Visible(u), p, now[u])'
    <3>1. PICK id \in DOMAIN Visible(u) :
             /\ PeriodAt(Visible(u), id, p, now[u])
             /\ Visible(u)[id].val \in Txns
      BY <2>2 DEF Published
    <3>2. CASE Published(Visible(u)', p, now[u]) BY <1>1, <3>2
    <3>3. CASE /\ PeriodAt(Visible(u)', id, p, now[u])
               /\ Visible(u)'[id].val \in Txns
      BY <1>1, <3>3 DEF Published, PeriodAt
    <3>4. QED BY <1>1, <2>1, <3>1, <3>2, <3>3, SeesCommit
  <2>3. \A i : Closing(u, i)' = Closing(u, i) BY <1>1 DEF Closing
  <2>4. (u \in Running') = (u \in Running) BY <1>1 DEF Running
  <2>5. Handled(u)' BY <1>1, <1>3, <2>2, <2>3, <2>4 DEF CallQuotes, Handled
  <2>6. AtQuote(u)' BY <1>1, <1>3 DEF CallQuotes, AtQuote
  <2>7. ASSUME NEW id, PeriodAt(Visible(u), id, to[u], now[u])
        PROVE  \/ PeriodAt(Visible(u)', id, to[u], now[u])
               \/ Published(Visible(u)', to[u], now[u])
    BY <1>1, <2>1, <2>7, SeesCommit
  <2>8. Refreshes(u)'
    <3>1. ASSUME pc[u] = "refresh"
          PROVE  \E id \in DOMAIN Visible(u)' :
                    PeriodAt(Visible(u)', id, to[u], now[u])
      <4>1. PICK id : PeriodAt(Visible(u), id, to[u], now[u])
        BY <3>1 DEF CallQuotes, Refreshes
      <4>2. QED BY <2>7, <4>1 DEF Published, PeriodAt
    <3>2. ASSUME pc[u] = "refreshing"
          PROVE  \/ Published(Visible(u)', to[u], now[u])
                 \/ \E id \in targets[u] :
                       PeriodAt(Visible(u)', id, to[u], now[u])
      <4>1. CASE Published(Visible(u), to[u], now[u])
        BY <1>1, <2>2, <4>1
      <4>2. ASSUME NEW id \in targets[u],
                   PeriodAt(Visible(u), id, to[u], now[u])
            PROVE  \/ Published(Visible(u)', to[u], now[u])
                   \/ PeriodAt(Visible(u)', id, to[u], now[u])
        BY <2>7, <4>2
      <4>3. QED BY <3>2, <4>1, <4>2 DEF CallQuotes, Refreshes
    <3>3. QED BY <1>1, <3>1, <3>2 DEF Refreshes
  <2>9. Kept(u)' BY <1>1, <1>2, <1>3 DEF CallQuotes, Kept
  <2>10. QED BY <2>5, <2>6, <2>8, <2>9 DEF CallQuotes
<1>6. QED BY <1>4, <1>5

-----------------------------------------------------------------------------
(***************************************************************************)
(* A call's own steps.                                                     *)
(***************************************************************************)
Has(t, i) == Published(Visible(t), i, now[t]) \/ Closing(t, i)

LEMMA HandledStays ==
    ASSUME NEW t \in Running, Handled(t), pos'[t] = pos[t],
           reply'[t] = reply[t], held'[t] = held[t],
           \A i : Has(t, i) => Has(t, i)'
    PROVE  Handled(t)'
<1>1. \A n, i : Placed(t, n, i)' = Placed(t, n, i) BY DEF Placed
<1>2. QED BY <1>1 DEF Handled, Has

LEMMA HandledNext ==
    ASSUME RepliesOK, NEW t \in Running, Handled(t), pos'[t] = pos[t] + 1,
           reply'[t] = reply[t], held'[t] = held[t],
           \A i : Has(t, i) => Has(t, i)',
           NEW j \in Ids \cup {NoId}, Placed(t, pos[t], j),
           j # NoId => Has(t, j)'
    PROVE  Handled(t)'
<1>1. \A n, i : Placed(t, n, i)' = Placed(t, n, i) BY DEF Placed
<1>2. \A n \in DOMAIN reply[t] : n < pos'[t] => n < pos[t] \/ n = pos[t]
  <2>1. t \in Txns /\ pos[t] \in Nat BY DEF Running, RepliesOK
  <2>2. \A n \in DOMAIN reply[t] : n \in Nat
    <3>1. reply[t] \in Seq([code : Codes, numeric : BOOLEAN])
      BY <2>1 DEF RepliesOK
    <3>2. QED BY <3>1
  <2>3. QED BY <2>1, <2>2
<1>3. QED BY <1>1, <1>2 DEF Handled, Has

\* The other calls do not notice.
LEMMA QuotesOthers ==
    ASSUME \A u \in Txns : CallQuotes(u), NEW t \in Txns, CallQuotes(t)',
           UNCHANGED rate,
           \A u \in Txns \ {t} :
              UNCHANGED <<own[u], pc[u], now[u], reply[u], pos[u], to[u],
                          targets[u], held[u]>>
    PROVE  \A u \in Txns : CallQuotes(u)'
<1>1. ASSUME NEW u \in Txns \ {t} PROVE CallQuotes(u)' BY <1>1, QuotesStay
<1>2. QED BY <1>1

LEMMA QuotesBegin ==
    ASSUME CallInv, RepliesOK, \A u \in Txns : CallQuotes(u),
           NEW t \in Txns, Begin(t)
    PROVE  \A u \in Txns : CallQuotes(u)'
<1>1. /\ pc[t] = "idle" /\ pc'[t] \in {"next", "ignored"}
      /\ \A u \in Txns \ {t} :
            UNCHANGED <<pc[u], now[u], reply[u], held[u]>>
      /\ UNCHANGED <<rate, own, pos, to, targets>>
  BY DEF Begin, Goto, CallInv, CallTypes, RepliesOK
<1>2. RepliesOK' BY RepliesBegin
<1>3. Handled(t)'
  <2>1. pos'[t] = 1 BY <1>1 DEF RepliesOK
  <2>2. \A n \in DOMAIN reply'[t] : n \in Nat /\ 1 <= n
    <3>1. reply'[t] \in Seq([code : Codes, numeric : BOOLEAN])
      BY <1>2 DEF RepliesOK
    <3>2. QED BY <3>1
  <2>3. QED BY <2>1, <2>2 DEF Handled
<1>4. CallQuotes(t)' BY <1>1, <1>3 DEF CallQuotes, AtQuote, Refreshes, Kept
<1>5. QED BY <1>1, <1>4, QuotesOthers

LEMMA QuoteAtPos ==
    ASSUME RepliesOK, NEW t \in Txns, pos[t] <= Len(reply[t])
    PROVE  pos[t] \in DOMAIN reply[t] /\ Quote(t).code \in Codes
<1>1. /\ reply[t] \in Seq([code : Codes, numeric : BOOLEAN])
      /\ pos[t] \in Nat \ {0}
  BY DEF RepliesOK
<1>2. pos[t] \in DOMAIN reply[t] BY <1>1
<1>3. reply[t][pos[t]] \in [code : Codes, numeric : BOOLEAN]
  <2>1. ASSUME NEW S, NEW q \in Seq(S), NEW n \in DOMAIN q PROVE q[n] \in S
    OBVIOUS
  <2>2. QED BY <1>1, <1>2, <2>1, Zenon
<1>4. QED BY <1>2, <1>3 DEF Quote

LEMMA QuotesLookUp ==
    ASSUME CallInv, KeysHeld, RepliesOK, \A u \in Txns : CallQuotes(u),
           NEW t \in Txns, LookUp(t)
    PROVE  \A u \in Txns : CallQuotes(u)'
<1>1. /\ pc[t] = "next" /\ pc'[t] \in {"next", "select"}
      /\ pos[t] <= Len(reply[t]) /\ t \in Running
      /\ \A u \in Txns \ {t} : UNCHANGED <<pc[u], pos[u], to[u]>>
      /\ UNCHANGED <<rate, own, now, reply, targets, held>>
  BY DEF LookUp, NextQuote, Goto, CallInv, CallTypes, RepliesOK, context,
         Running, Ends
<1>2. pos[t] \in DOMAIN reply[t] /\ Quote(t).code \in Codes
  BY <1>1, QuoteAtPos
<1>3. \A i : Has(t, i) => Has(t, i)'
  BY <1>1 DEF Has, Closing, Visible
<1>4. ASSUME Holders(Quote(t).code) = {}, NextQuote(t)
      PROVE  CallQuotes(t)'
  <2>1. <<Quote(t).code, NoId>> \in Holdings BY <1>2, <1>4 DEF Holdings
  <2>2. Placed(t, pos[t], NoId) BY <1>1, <2>1 DEF RepliesOK, Placed, Quote
  <2>3. pos'[t] = pos[t] + 1 /\ pc'[t] = "next"
    BY <1>4 DEF NextQuote, Goto, CallInv, CallTypes, RepliesOK
  <2>4. Handled(t)' BY <1>1, <1>3, <2>2, <2>3, HandledNext DEF CallQuotes
  <2>5. AtQuote(t)' /\ Refreshes(t)' /\ Kept(t)'
    BY <2>3 DEF AtQuote, Refreshes, Kept
  <2>6. QED BY <2>4, <2>5 DEF CallQuotes
<1>5. ASSUME NEW i \in Holders(Quote(t).code), to' = [to EXCEPT ![t] = i],
             Goto(t, "select"), UNCHANGED pos
      PROVE  CallQuotes(t)'
  <2>1. i \in Ids
    BY DEF KeysHeld, Holders, Registry!get_currency_id, Registry!Currency
  <2>2. <<Quote(t).code, i>> \in Holdings BY <1>2, <2>1 DEF Holdings
  <2>3. Placed(t, pos[t], i) BY <1>1, <2>2 DEF RepliesOK, Placed, Quote
  <2>4. to'[t] = i /\ pc'[t] = "select"
    BY <1>5 DEF Goto, CallInv, CallTypes
  <2>5. AtQuote(t)' BY <1>1, <1>2, <1>5, <2>1, <2>3, <2>4 DEF AtQuote, Placed
  <2>6. Handled(t)' BY <1>1, <1>3, <1>5, HandledStays DEF CallQuotes
  <2>7. QED BY <2>4, <2>5, <2>6 DEF CallQuotes, Refreshes, Kept
<1>6. CallQuotes(t)' BY <1>4, <1>5 DEF LookUp
<1>7. QED BY <1>1, <1>6, QuotesOthers

LEMMA QuotesSelect ==
    ASSUME CallInv, RepliesOK, \A u \in Txns : CallQuotes(u),
           NEW t \in Txns, SelectPeriod(t)
    PROVE  \A u \in Txns : CallQuotes(u)'
<1>1. /\ pc[t] = "select" /\ pc'[t] \in {"refresh", "close"} /\ t \in Running
      /\ \A u \in Txns \ {t} : UNCHANGED pc[u]
      /\ UNCHANGED <<rate, own, now, reply, pos, to, targets, held>>
  BY DEF SelectPeriod, Goto, CallInv, CallTypes, context, Running, Ends
<1>2. Visible(t)' = Visible(t) BY <1>1 DEF Visible
<1>3. pc'[t] = "refresh" =>
         \E id \in DOMAIN Visible(t) : PeriodAt(Visible(t), id, to[t], now[t])
  BY DEF SelectPeriod, Goto, CallInv, CallTypes, CoveringIds, Covers,
         StartsAt, PeriodAt
<1>4. \A i : Has(t, i) => Has(t, i)' BY <1>1, <1>2 DEF Has, Closing
<1>5. Handled(t)' BY <1>1, <1>4, HandledStays DEF CallQuotes
<1>6. AtQuote(t)' BY <1>1 DEF CallQuotes, AtQuote, Placed
<1>7. Refreshes(t)' BY <1>1, <1>2, <1>3 DEF Refreshes
<1>8. CallQuotes(t)' BY <1>1, <1>5, <1>6, <1>7 DEF CallQuotes, Kept
<1>9. QED BY <1>1, <1>8, QuotesOthers

LEMMA QuotesStartUpdate ==
    ASSUME CallInv, RepliesOK, \A u \in Txns : CallQuotes(u),
           NEW t \in Txns, StartUpdate(t)
    PROVE  \A u \in Txns : CallQuotes(u)'
<1>1. /\ \/ pc[t] = "refresh" /\ pc'[t] = "refreshing"
         \/ pc[t] = "close" /\ pc'[t] = "closing"
      /\ t \in Running /\ targets'[t] = RowsToUpdate(t)
      /\ \A u \in Txns \ {t} : UNCHANGED <<pc[u], targets[u]>>
      /\ UNCHANGED <<rate, own, now, reply, pos, to, held>>
  BY DEF StartUpdate, Goto, CallInv, CallTypes, context, Running, Ends
<1>2. Visible(t)' = Visible(t) BY <1>1 DEF Visible
<1>3. now[t] \in Nat BY CallbackAssumption DEF CallInv, CallTypes
<1>4. \A id : PeriodAt(Visible(t), id, to[t], now[t]) => id \in RowsToUpdate(t)
  BY <1>3 DEF PeriodAt, RowsToUpdate, CoveringIds, Covers
<1>5. \A i : Has(t, i) => Has(t, i)' BY <1>1, <1>2 DEF Has, Closing
<1>6. Handled(t)' BY <1>1, <1>5, HandledStays DEF CallQuotes
<1>7. AtQuote(t)' BY <1>1 DEF CallQuotes, AtQuote, Placed
<1>8. Refreshes(t)' BY <1>1, <1>2, <1>4 DEF CallQuotes, Refreshes
<1>9. CallQuotes(t)' BY <1>1, <1>6, <1>7, <1>8 DEF CallQuotes, Kept
<1>10. QED BY <1>1, <1>9, QuotesOthers

(***************************************************************************)
(* A row the call writes takes no period away, if it gives the rate of its *)
(* pair from Now() on whenever the row did before.                         *)
(***************************************************************************)
LEMMA PublishedStays ==
    ASSUME CallInv, NEW t \in Txns, NEW id, NEW row, UNCHANGED rate,
           own' = [own EXCEPT ![t] = Assign(own[t], id, row)],
           NEW p, NEW x, Published(Visible(t), p, x),
           PeriodAt(Visible(t), id, p, x) =>
              row.vf = x /\ x < row.vt /\ row.val \in Txns
    PROVE  Published(Visible(t)', p, x)
<1>1. PICK k \in DOMAIN Visible(t) :
         PeriodAt(Visible(t), k, p, x) /\ Visible(t)[k].val \in Txns
  BY DEF Published
<1>2. /\ DOMAIN Visible(t)' = DOMAIN Visible(t) \cup {id}
      /\ Visible(t)'[id] = row
      /\ \A j \in DOMAIN Visible(t) \ {id} : Visible(t)'[j] = Visible(t)[j]
  BY ViewWrites
<1>3. CASE k = id BY <1>1, <1>2, <1>3 DEF Published, PeriodAt
<1>4. CASE k # id BY <1>1, <1>2, <1>4 DEF Published, PeriodAt
<1>5. QED BY <1>3, <1>4

LEMMA QuotesRefresh ==
    ASSUME CallInv, RepliesOK, \A u \in Txns : CallQuotes(u),
           NEW t \in Txns, NEW id \in targets[t], RefreshRow(t, id)
    PROVE  \A u \in Txns : CallQuotes(u)'
<1>1. /\ pc[t] = "refreshing" /\ t \in Running
      /\ targets'[t] = targets[t] \ {id}
      /\ \A u \in Txns \ {t} : UNCHANGED <<own[u], targets[u]>>
      /\ UNCHANGED <<rate, pc, now, reply, pos, to, held>>
  BY DEF RefreshRow, CallInv, CallTypes, context, Running, Ends
<1>2. id \in DOMAIN Visible(t)
  BY <1>1 DEF CallInv, Remembered, Visible, Over
<1>3. ASSUME own' = own, ~Covers(Visible(t)[id], now[t])
      PROVE  (\A i : Has(t, i) => Has(t, i)') /\ Refreshes(t)'
  <2>1. Visible(t)' = Visible(t) BY <1>1, <1>3 DEF Visible
  <2>2. \A i : Has(t, i) => Has(t, i)' BY <1>1, <2>1 DEF Has, Closing
  <2>3. now[t] \in Nat BY CallbackAssumption DEF CallInv, CallTypes
  <2>4. ~PeriodAt(Visible(t), id, to[t], now[t])
    BY <1>3, <2>3 DEF PeriodAt, Covers
  <2>5. Refreshes(t)' BY <1>1, <2>1, <2>4 DEF CallQuotes, Refreshes
  <2>6. QED BY <2>2, <2>5
<1>4. ASSUME NEW row, row = [Visible(t)[id] EXCEPT !.val = t],
             own' = [own EXCEPT ![t] = Assign(own[t], id, row)]
      PROVE  (\A i : Has(t, i) => Has(t, i)') /\ Refreshes(t)'
  <2>1. /\ row.vf = Visible(t)[id].vf /\ row.vt = Visible(t)[id].vt
        /\ row.val = t
    BY <1>2, <1>4, VisibleRow DEF Row
  <2>2. \A p : PeriodAt(Visible(t), id, p, now[t]) =>
           row.vf = now[t] /\ now[t] < row.vt /\ row.val \in Txns
    BY <2>1 DEF PeriodAt
  <2>3. \A p : Published(Visible(t), p, now[t]) =>
                  Published(Visible(t)', p, now[t])
    BY <1>1, <1>4, <2>2, PublishedStays
  <2>4. \A i : Has(t, i) => Has(t, i)' BY <1>1, <2>3 DEF Has, Closing
  <2>5. /\ DOMAIN Visible(t)' = DOMAIN Visible(t) \cup {id}
        /\ Visible(t)'[id] = row
        /\ \A j \in DOMAIN Visible(t) \ {id} : Visible(t)'[j] = Visible(t)[j]
    <3>1. UNCHANGED rate /\ own' = [own EXCEPT ![t] = Assign(own[t], id, row)]
      BY <1>1, <1>4
    <3>2. QED BY <3>1, ViewWrites
  <2>6. ASSUME NEW k \in targets[t], PeriodAt(Visible(t), k, to[t], now[t])
        PROVE  \/ Published(Visible(t)', to[t], now[t])
               \/ k \in targets'[t] /\ PeriodAt(Visible(t)', k, to[t], now[t])
    <3>1. CASE k = id
      BY <2>1, <2>2, <2>5, <2>6, <3>1 DEF Published, PeriodAt
    <3>2. CASE k # id BY <1>1, <2>5, <2>6, <3>2 DEF PeriodAt
    <3>3. QED BY <3>1, <3>2
  <2>7. Refreshes(t)' BY <1>1, <2>3, <2>6 DEF CallQuotes, Refreshes
  <2>8. QED BY <2>4, <2>7
<1>5. (\A i : Has(t, i) => Has(t, i)') /\ Refreshes(t)'
  BY <1>3, <1>4 DEF RefreshRow
<1>6. Handled(t)' BY <1>1, <1>5, HandledStays DEF CallQuotes
<1>7. AtQuote(t)' BY <1>1 DEF CallQuotes, AtQuote, Placed
<1>8. CallQuotes(t)' BY <1>1, <1>5, <1>6, <1>7 DEF CallQuotes, Kept
<1>9. QED BY <1>1, <1>8, QuotesOthers

LEMMA QuotesEndRefresh ==
    ASSUME CallInv, RepliesOK, \A u \in Txns : CallQuotes(u),
           NEW t \in Txns, EndRefresh(t)
    PROVE  \A u \in Txns : CallQuotes(u)'
<1>1. /\ pc[t] = "refreshing" /\ pc'[t] = "next" /\ t \in Running
      /\ targets[t] = {} /\ pos'[t] = pos[t] + 1
      /\ \A u \in Txns \ {t} : UNCHANGED <<pc[u], pos[u]>>
      /\ UNCHANGED <<rate, own, now, reply, to, targets, held>>
  BY DEF EndRefresh, NextQuote, Goto, CallInv, CallTypes, RepliesOK, context,
         Running, Ends
<1>2. Visible(t)' = Visible(t) BY <1>1 DEF Visible
<1>3. \A i : Has(t, i) => Has(t, i)' BY <1>1, <1>2 DEF Has, Closing
<1>4. Placed(t, pos[t], to[t]) /\ to[t] \in Ids
  BY <1>1 DEF CallQuotes, AtQuote
<1>5. Has(t, to[t])' BY <1>1, <1>2 DEF CallQuotes, Refreshes, Has
<1>6. Handled(t)' BY <1>1, <1>3, <1>4, <1>5, HandledNext DEF CallQuotes, Has
<1>7. AtQuote(t)' /\ Refreshes(t)' /\ Kept(t)'
  BY <1>1 DEF AtQuote, Refreshes, Kept
<1>8. CallQuotes(t)' BY <1>6, <1>7 DEF CallQuotes
<1>9. QED BY <1>1, <1>8, QuotesOthers

LEMMA QuotesClose ==
    ASSUME CallInv, RepliesOK, \A u \in Txns : CallQuotes(u),
           NEW t \in Txns, NEW id \in targets[t], CloseRow(t, id)
    PROVE  \A u \in Txns : CallQuotes(u)'
<1>1. pc[t] = "closing" /\ t \in Running BY DEF CloseRow, Running, Ends
<1>2. PairOf(id) = to[t] BY <1>1 DEF CallInv, Remembered
<1>3. CASE Fail(t) BY <1>1, <1>3, QuotesFail
<1>4. ASSUME NEW row,
             \/ own' = own
             \/ own' = [own EXCEPT ![t] = Assign(own[t], id, row)],
             targets' = [targets EXCEPT ![t] = @ \ {id}],
             UNCHANGED <<context, rate, pc, now, reply, pos, to>>
      PROVE  \A u \in Txns : CallQuotes(u)'
  <2>1. \A u \in Txns \ {t} : UNCHANGED <<own[u], targets[u]>>
    BY <1>4 DEF CallInv, CallTypes
  <2>2. held' = held BY <1>4 DEF context
  <2>3. \A i : Closing(t, i)' = Closing(t, i) BY <1>4 DEF Closing
  <2>4. ASSUME NEW i, i # to[t], Published(Visible(t), i, now[t])
        PROVE  Published(Visible(t)', i, now[t])
    <3>1. CASE own' = own
      <4>1. Visible(t)' = Visible(t) BY <1>4, <3>1 DEF Visible
      <4>2. QED BY <2>4, <4>1
    <3>2. CASE own' = [own EXCEPT ![t] = Assign(own[t], id, row)]
      <4>1. ~PeriodAt(Visible(t), id, i, now[t]) BY <1>2, <2>4 DEF PeriodAt
      <4>2. QED BY <1>4, <2>4, <3>2, <4>1, PublishedStays
    <3>3. QED BY <1>4, <3>1, <3>2
  <2>5. \A i : Has(t, i) => Has(t, i)'
    BY <1>1, <1>4, <2>3, <2>4 DEF Has, Closing
  <2>6. Handled(t)' BY <1>1, <1>4, <2>2, <2>5, HandledStays DEF CallQuotes
  <2>7. AtQuote(t)' BY <1>4, <2>2 DEF CallQuotes, AtQuote, Placed
  <2>8. CallQuotes(t)'
    BY <1>1, <1>4, <2>6, <2>7 DEF CallQuotes, Refreshes, Kept
  <2>9. QED BY <1>4, <2>1, <2>2, <2>8, QuotesOthers
<1>5. QED BY <1>3, <1>4 DEF CloseRow

LEMMA QuotesInsert ==
    ASSUME CallInv, RepliesOK, \A u \in Txns : CallQuotes(u),
           NEW t \in Txns, InsertPeriod(t)
    PROVE  \A u \in Txns : CallQuotes(u)'
<1>1. pc[t] = "closing" /\ t \in Running BY DEF InsertPeriod, Running, Ends
<1>2. CASE Fail(t) BY <1>1, <1>2, QuotesFail
<1>3. ASSUME NEW id, id = <<t, to[t]>>, NEW row,
             row = [vf |-> now[t], vt |-> coalesce(found[t]), val |-> t],
             own' = [own EXCEPT ![t] = Assign(own[t], id, row)],
             NextQuote(t), UNCHANGED <<context, rate, now, reply, to, targets>>
      PROVE  \A u \in Txns : CallQuotes(u)'
  <2>1. /\ pc'[t] = "next" /\ pos'[t] = pos[t] + 1 /\ held' = held
        /\ \A u \in Txns \ {t} : UNCHANGED <<own[u], pc[u], pos[u]>>
    BY <1>3 DEF NextQuote, Goto, CallInv, CallTypes, RepliesOK, context
  <2>2. PairOf(id) = to[t] BY <1>3 DEF PairOf
  <2>3. now[t] < coalesce(found[t])
    BY <1>1, CallbackAssumption
       DEF CallInv, CallTypes, Remembered, coalesce, Null
  <2>4. Published(Visible(t)', to[t], now[t])
    <3>1. /\ DOMAIN Visible(t)' = DOMAIN Visible(t) \cup {id}
          /\ Visible(t)'[id] = row
      <4>1. UNCHANGED rate /\ own' = [own EXCEPT ![t] = Assign(own[t], id, row)]
        BY <1>3
      <4>2. QED BY <4>1, ViewWrites
    <3>2. row.vf = now[t] /\ now[t] < row.vt /\ row.val = t BY <1>3, <2>3
    <3>3. QED BY <2>2, <3>1, <3>2 DEF Published, PeriodAt
  <2>5. ASSUME NEW i, i # to[t], Published(Visible(t), i, now[t])
        PROVE  Published(Visible(t)', i, now[t])
    <3>1. ~PeriodAt(Visible(t), id, i, now[t]) BY <2>2, <2>5 DEF PeriodAt
    <3>2. QED BY <1>3, <2>5, <3>1, PublishedStays
  <2>6. \A i : Has(t, i) => Has(t, i)'
    <3>1. \A i : Has(t, i) => i = to[t] \/ Published(Visible(t), i, now[t])
      BY DEF Has, Closing
    <3>2. QED BY <1>3, <2>4, <2>5, <3>1 DEF Has
  <2>7. Placed(t, pos[t], to[t]) /\ to[t] \in Ids
    BY <1>1 DEF CallQuotes, AtQuote
  <2>8. \A j : j = to[t] => Has(t, j)' BY <1>3, <2>4 DEF Has
  <2>9. \E j \in Ids \cup {NoId} :
           Placed(t, pos[t], j) /\ (j # NoId => Has(t, j)')
    BY <2>7, <2>8
  <2>10. Handled(t)'
    BY <1>1, <1>3, <2>1, <2>6, <2>9, HandledNext DEF CallQuotes
  <2>11. AtQuote(t)' /\ Refreshes(t)' /\ Kept(t)'
    BY <2>1 DEF AtQuote, Refreshes, Kept
  <2>12. CallQuotes(t)' BY <2>10, <2>11 DEF CallQuotes
  <2>13. QED BY <1>3, <2>1, <2>12, QuotesOthers
<1>4. QED BY <1>2, <1>3 DEF InsertPeriod

LEMMA QuotesSteps ==
    ASSUME CallInv, KeysHeld, ValuesOK, RepliesOK,
           \A u \in Txns : CallQuotes(u), [Next]_vars
    PROVE  \A u \in Txns : CallQuotes(u)'
<1>1. ASSUME NEW t \in Txns, Step(t) PROVE \A u \in Txns : CallQuotes(u)'
  <2>1. CASE LookUp(t) BY <2>1, QuotesLookUp
  <2>2. CASE BadNumber(t) BY <2>2, QuotesFail DEF BadNumber, Running, Ends
  <2>3. CASE SelectPeriod(t) BY <2>3, QuotesSelect
  <2>4. CASE StartUpdate(t) BY <2>4, QuotesStartUpdate
  <2>5. CASE \E id \in targets[t] : RefreshRow(t, id) \/ CloseRow(t, id)
    BY <2>5, QuotesRefresh, QuotesClose
  <2>6. CASE EndRefresh(t) BY <2>6, QuotesEndRefresh
  <2>7. CASE InsertPeriod(t) BY <2>7, QuotesInsert
  <2>8. CASE Commit(t) BY <2>8, QuotesCommit
  <2>9. CASE DeadlockDetected(t) BY <2>9, QuotesFail DEF DeadlockDetected
  <2>10. QED
    BY <1>1, <2>1, <2>2, <2>3, <2>4, <2>5, <2>6, <2>7, <2>8, <2>9 DEF Step
<1>2. ASSUME NEW t \in Txns, ConnectionLost(t)
      PROVE  \A u \in Txns : CallQuotes(u)'
  BY <1>2, QuotesFail DEF ConnectionLost
<1>3. CASE Tick \/ ChangeRegistry \/ UNCHANGED vars
  <2>1. /\ UNCHANGED <<rate, pc, now, reply, pos, to, targets, own>>
        /\ \A u \in Txns : held[u] \subseteq held'[u]
    BY <1>3 DEF Tick, ChangeRegistry, vars, context, RepliesOK
  <2>2. ASSUME NEW u \in Txns PROVE CallQuotes(u)'
    BY <2>1, <2>2, QuotesStay
  <2>3. QED BY <2>2
<1>4. QED BY <1>1, <1>2, <1>3, QuotesBegin DEF Next

QuotesInv ==
    CallInv /\ KeysHeld /\ ValuesOK /\ RepliesOK
            /\ \A t \in Txns : CallQuotes(t)

LEMMA QuotesStart == Init => QuotesInv
<1> SUFFICES ASSUME Init PROVE QuotesInv OBVIOUS
<1>1. IsTable(rate) /\ LeftByCalls(rate) BY SeedsAssumption DEF Init
<1>2. CallInv BY CallStart
<1>3. KeysHeld
  BY <1>1, CallbackAssumption
     DEF Init, KeysHeld, HasRow, Registered, LeftByCalls, Empty,
         Registry!Currency
<1>4. ValuesOK BY <1>1 DEF Init, ValuesOK, LaterValue, LeftByCalls, Empty
<1>5. \A t \in Txns : pc[t] = "idle" BY DEF Init
<1>6. RepliesOK
  <2>1. << >> \in Seq([code : Codes, numeric : BOOLEAN]) OBVIOUS
  <2>2. reply \in [Txns -> Seq([code : Codes, numeric : BOOLEAN])]
    BY <2>1 DEF Init
  <2>3. QED BY <1>5, <2>2 DEF Init, RepliesOK, Running
<1>7. \A t \in Txns : CallQuotes(t)
  BY <1>5 DEF CallQuotes, Handled, AtQuote, Refreshes, Kept, Running
<1>8. QED BY <1>2, <1>3, <1>4, <1>6, <1>7 DEF QuotesInv

(***************************************************************************)
(* Every quote of a committed call of exchange_rate_done stays in          *)
(* public.rate: under a currency that held its code during the call, as a  *)
(* period that starts at the call's Now() and has its value or that of a   *)
(* call made then or later.  However many calls interleave, refresh and    *)
(* close one another's rows, fail or are cut off, and whatever is          *)
(* registered, renamed or deleted meanwhile.                               *)
(***************************************************************************)
THEOREM QuotesStand == Spec => []QuoteKept
<1>1. QuotesInv /\ [Next]_vars => QuotesInv'
  BY CallSteps, KeysHeldSteps, ValuesSteps, RepliesSteps, QuotesSteps
     DEF QuotesInv
<1>2. QuotesInv => QuoteKept
  <2>1. SUFFICES ASSUME QuotesInv, NEW t \in Txns, pc[t] = "done",
                        NEW n \in DOMAIN reply[t]
                 PROVE  \E i \in Ids \cup {NoId} :
                           /\ <<reply[t][n].code, i>> \in held[t]
                           /\ i # NoId => RateKept(t, i)
    BY DEF QuoteKept
  <2>2. PICK i \in Ids \cup {NoId} :
           /\ <<reply[t][n].code, i>> \in held[t]
           /\ i # NoId => Published(rate, i, now[t])
    BY <2>1 DEF QuotesInv, CallQuotes, Kept, Placed
  <2>3. ASSUME i # NoId PROVE RateKept(t, i)
    <3>1. PICK id \in DOMAIN rate :
             PeriodAt(rate, id, i, now[t]) /\ rate[id].val \in Txns
      BY <2>2, <2>3 DEF Published
    <3>2. now[t] \in Nat /\ now[rate[id].val] \in Nat
      BY <2>1, <3>1, CallbackAssumption DEF QuotesInv, CallInv, CallTypes
    <3>3. id \in CoveringIds(rate, i, now[t])
      BY <3>1, <3>2 DEF PeriodAt, CoveringIds, Covers
    <3>4. now[rate[id].val] >= now[t]
      BY <2>1, <3>1, <3>2 DEF QuotesInv, ValuesOK, LaterValue, PeriodAt
    <3>5. QED BY <3>1, <3>3, <3>4 DEF RateKept, PeriodAt
  <2>4. QED BY <2>2, <2>3
<1>3. QED BY <1>1, <1>2, QuotesStart, PTL DEF Spec

-----------------------------------------------------------------------------
(***************************************************************************)
(* The order calls write in.  A reply's codes come in the order of         *)
(* KeyOrder; so, of calls whose registry has not changed since they began, *)
(* one that has written a row of a pair is at that pair or past it.        *)
(***************************************************************************)
Rank(c) == CHOOSE i \in DOMAIN KeyOrder : KeyOrder[i] = c

LEMMA RankOfCode ==
    ASSUME NEW c \in Codes
    PROVE  /\ Rank(c) \in DOMAIN KeyOrder /\ KeyOrder[Rank(c)] = c
           /\ Rank(c) \in Nat /\ Rank(c) <= Len(KeyOrder)
<1>1. \E i \in DOMAIN KeyOrder : KeyOrder[i] = c BY DEF Codes, ToSet
<1>2. Rank(c) \in DOMAIN KeyOrder /\ KeyOrder[Rank(c)] = c
  BY <1>1 DEF Rank
<1>3. QED BY <1>2, KeysAssumption

LEMMA RanksOrdered ==
    ASSUME NEW a \in Codes, NEW b \in Codes, Before(a, b)
    PROVE  Rank(a) < Rank(b)
<1>1. PICK i, j \in DOMAIN KeyOrder :
         i < j /\ KeyOrder[i] = a /\ KeyOrder[j] = b
  BY DEF Before
<1>2. Rank(a) = i /\ Rank(b) = j BY <1>1, RankOfCode, KeysAssumption
<1>3. QED BY <1>1, <1>2

\* public.currency: PRIMARY KEY (id), UNIQUE INDEX (code).
KeysUnique ==
    /\ currency \subseteq Registry!Currency
    /\ \A k, l \in currency : k.id = l.id \/ k.code = l.code => k = l

KeysOrdered(t) ==
    \A i, j \in DOMAIN reply[t] :
        i < j => Rank(reply[t][i].code) < Rank(reply[t][j].code)

\* The call has dealt with a quote of currency p.
Earlier(t, p) == \E n \in DOMAIN reply[t] : n < pos[t] /\ Placed(t, n, p)

\* A row the running UPDATE changes.
AtHand(t, id) ==
    /\ pc[t] \in {"refreshing", "closing"} /\ PairOf(id) = to[t]
    /\ id \in DOMAIN rate /\ Covers(rate[id], now[t])

OwnPlaced(t) ==
    \A id \in DOMAIN own[t] : Earlier(t, PairOf(id)) \/ AtHand(t, id)

TargetsBegun(t) ==
    /\ pc[t] \notin {"refreshing", "closing"} => targets[t] = {}
    /\ \A id \in targets[t] : id \in DOMAIN rate => rate[id].vf <= now[t]

InOrder(t) == KeysOrdered(t) /\ OwnPlaced(t) /\ TargetsBegun(t)

OrderInv == QuotesInv /\ KeysUnique /\ \A t \in Txns : InOrder(t)

(***************************************************************************)
(* The registry's keys.                                                    *)
(***************************************************************************)
LEMMA KeysUniqueSteps == CallInv /\ KeysUnique /\ [Next]_vars => KeysUnique'
<1> SUFFICES ASSUME KeysUnique, [Next]_vars PROVE KeysUnique' OBVIOUS
<1>1. ASSUME UNCHANGED currency PROVE KeysUnique'
  BY <1>1 DEF KeysUnique, Registry!Currency
<1>2. CASE ChangeRegistry
  <2>1. ASSUME NEW c \in Codes, Registry!add_currency(c) PROVE KeysUnique'
    <3>1. PICK i \in Ids :
             /\ currency' = currency \cup {[id |-> i, code |-> c]}
             /\ \A k \in currency : k.id # i /\ k.code # c
      BY <2>1 DEF Registry!add_currency, Registry!new_currency, Registry!Entry,
                  Registry!RowsOf, Registry!CodeFree
    <3>2. QED BY <3>1 DEF KeysUnique, Registry!Currency
  <2>2. ASSUME NEW i \in Ids, NEW c \in Codes, Registry!update_currency(i, c)
        PROVE  KeysUnique'
    <3>1. PICK k \in currency :
             /\ currency' = (currency \ {k}) \cup
                   {[k EXCEPT !.code = Registry!coalesce(c, @)]}
             /\ Registry!CodeFree(Registry!coalesce(c, k.code), {k})
      BY <2>2 DEF Registry!update_currency, Registry!RowsOf
    <3>2. PICK j : j = [k EXCEPT !.code = Registry!coalesce(c, @)]
      OBVIOUS
    <3>3. /\ j.id = k.id /\ j \in Registry!Currency
          /\ j.code = Registry!coalesce(c, k.code)
      BY <3>2 DEF KeysUnique, Registry!Currency, Registry!coalesce
    <3>4. currency' = (currency \ {k}) \cup {j} BY <3>1, <3>2
    <3>5. \A l \in currency \ {k} : l.code # j.code /\ l.id # j.id
      BY <3>1, <3>3 DEF Registry!CodeFree, KeysUnique
    <3>6. QED BY <3>3, <3>4, <3>5 DEF KeysUnique, Registry!Currency
  <2>3. ASSUME NEW i \in Ids,
               Registry!DeleteCurrency(i, Referenced \cup KeyShared)
        PROVE  KeysUnique'
    <3>1. currency' \subseteq currency BY <2>3 DEF Registry!DeleteCurrency
    <3>2. QED BY <3>1 DEF KeysUnique, Registry!Currency
  <2>4. QED BY <1>2, <2>1, <2>2, <2>3 DEF ChangeRegistry
<1>3. ASSUME NEW t \in Txns, Begin(t) \/ Step(t) \/ ConnectionLost(t)
      PROVE  UNCHANGED currency
  BY <1>3
     DEF Begin, Step, ConnectionLost, LookUp, BadNumber, SelectPeriod,
         StartUpdate, RefreshRow, CloseRow, EndRefresh, InsertPeriod, Commit,
         DeadlockDetected, Fail, context
<1>4. CASE Tick \/ UNCHANGED vars BY <1>1, <1>4 DEF Tick, vars, context
<1>5. QED BY <1>1, <1>2, <1>3, <1>4 DEF Next

(***************************************************************************)
(* A call another call's step does not touch, and a step that commits.     *)
(***************************************************************************)
LEMMA OrderStays ==
    ASSUME NEW u \in Txns, InOrder(u),
           UNCHANGED <<rate, own[u], pc[u], now[u], reply[u], pos[u], to[u],
                       targets[u]>>,
           held[u] \subseteq held'[u]
    PROVE  InOrder(u)'
<1>1. \A n, i : Placed(u, n, i) => Placed(u, n, i)' BY DEF Placed
<1>2. \A p : Earlier(u, p) => Earlier(u, p)' BY <1>1 DEF Earlier
<1>3. \A id : AtHand(u, id)' = AtHand(u, id) BY DEF AtHand
<1>4. OwnPlaced(u)' BY <1>2, <1>3 DEF InOrder, OwnPlaced
<1>5. KeysOrdered(u)' /\ TargetsBegun(u)'
  BY DEF InOrder, KeysOrdered, TargetsBegun
<1>6. QED BY <1>4, <1>5 DEF InOrder

\* The other calls do not notice.
LEMMA OrderOthers ==
    ASSUME \A u \in Txns : InOrder(u), NEW t \in Txns, InOrder(t)',
           UNCHANGED rate,
           \A u \in Txns \ {t} :
              UNCHANGED <<own[u], pc[u], now[u], reply[u], pos[u], to[u],
                          targets[u], held[u]>>
    PROVE  \A u \in Txns : InOrder(u)'
<1>1. ASSUME NEW u \in Txns \ {t} PROVE InOrder(u)' BY <1>1, OrderStays
<1>2. QED BY <1>1

LEMMA OrderFail ==
    ASSUME CallInv, \A u \in Txns : InOrder(u), NEW t \in Running, Fail(t)
    PROVE  \A u \in Txns : InOrder(u)'
<1>1. /\ pc'[t] = "failed" /\ DOMAIN own'[t] = {} /\ targets'[t] = {}
      /\ \A u \in Txns \ {t} :
            /\ pc'[u] = pc[u] /\ own'[u] = own[u] /\ targets'[u] = targets[u]
      /\ UNCHANGED <<rate, now, reply, pos, to, held>>
  BY DEF CallInv, CallTypes, Fail, Goto, Running, context, Empty
<1>2. InOrder(t)'
  BY <1>1 DEF InOrder, KeysOrdered, OwnPlaced, TargetsBegun, Running
<1>3. QED BY <1>1, <1>2, OrderOthers DEF Running

LEMMA OrderCommit ==
    ASSUME CallInv, \A u \in Txns : InOrder(u), NEW t \in Txns, Commit(t)
    PROVE  \A u \in Txns : InOrder(u)'
<1>1. /\ pc[t] = "next" /\ pc'[t] = "done" /\ rate' = Over(own[t], rate)
      /\ DOMAIN own'[t] = {}
      /\ \A u \in Txns \ {t} : pc'[u] = pc[u] /\ own'[u] = own[u]
      /\ UNCHANGED <<now, reply, pos, to, targets, held>>
  BY DEF CallInv, CallTypes, Commit, Goto, context, Empty
<1>2. /\ DOMAIN rate' = DOMAIN own[t] \cup DOMAIN rate
      /\ \A id \in DOMAIN rate' :
            rate'[id] = IF id \in DOMAIN own[t] THEN own[t][id] ELSE rate[id]
  BY <1>1 DEF Over
<1>3. targets[t] = {} BY <1>1 DEF InOrder, TargetsBegun
<1>4. InOrder(t)'
  BY <1>1, <1>3 DEF InOrder, KeysOrdered, OwnPlaced, TargetsBegun
<1>5. ASSUME NEW u \in Txns \ {t} PROVE InOrder(u)'
  <2>1. KeysOrdered(u)' BY <1>1 DEF InOrder, KeysOrdered
  <2>2. \A p : Earlier(u, p)' = Earlier(u, p) BY <1>1 DEF Earlier, Placed
  <2>3. ASSUME NEW id \in DOMAIN own[u], AtHand(u, id) PROVE AtHand(u, id)'
    <3>1. id \notin DOMAIN own[t] BY <2>3 DEF CallInv, Locked
    <3>2. QED BY <1>1, <1>2, <2>3, <3>1 DEF AtHand
  <2>4. OwnPlaced(u)' BY <1>1, <2>2, <2>3 DEF InOrder, OwnPlaced
  <2>5. ASSUME NEW id \in targets[u], id \in DOMAIN rate'
        PROVE  rate'[id].vf <= now[u]
    <3>1. CASE id \in DOMAIN rate
      BY <1>2, <2>5, <3>1
         DEF CallInv, Written, WrittenRow, InOrder, TargetsBegun
    <3>2. CASE id \notin DOMAIN rate
      <4>1. id \in DOMAIN own[t] BY <1>2, <2>5, <3>2
      <4>2. id \in DOMAIN own[u]
        BY <2>5, <3>2 DEF CallInv, Remembered, InOrder, TargetsBegun
      <4>3. QED BY <4>1, <4>2 DEF CallInv, Locked
    <3>3. QED BY <3>1, <3>2
  <2>6. TargetsBegun(u)' BY <1>1, <2>5 DEF InOrder, TargetsBegun
  <2>7. QED BY <2>1, <2>4, <2>6 DEF InOrder
<1>6. QED BY <1>4, <1>5

-----------------------------------------------------------------------------
(***************************************************************************)
(* A call's own steps.                                                     *)
(***************************************************************************)
LEMMA OrderBegin ==
    ASSUME CallInv, RepliesOK, \A u \in Txns : InOrder(u),
           NEW t \in Txns, Begin(t)
    PROVE  \A u \in Txns : InOrder(u)'
<1>1. /\ pc[t] = "idle" /\ pc'[t] \in {"next", "ignored"}
      /\ DOMAIN own[t] = {} /\ targets[t] = {}
      /\ \A u \in Txns \ {t} :
            UNCHANGED <<pc[u], now[u], reply[u], held[u]>>
      /\ UNCHANGED <<rate, own, pos, to, targets>>
  BY DEF Begin, Goto, CallInv, CallTypes, RepliesOK, Written, InOrder,
         TargetsBegun
<1>2. ASSUME NEW S \in SUBSET Codes, NEW bad \in SUBSET Codes,
             NEW keys \in JsonbOrder(S),
             reply' = [reply EXCEPT ![t] =
                [i \in DOMAIN keys |-> [code |-> keys[i],
                                        numeric |-> keys[i] \notin bad]]]
      PROVE  KeysOrdered(t)'
  <2>1. /\ DOMAIN reply'[t] = DOMAIN keys
        /\ \A i \in DOMAIN keys : reply'[t][i].code = keys[i]
    BY <1>2 DEF RepliesOK
  <2>2. \A i \in DOMAIN keys : keys[i] \in Codes
    <3>1. PICK n \in Nat : keys \in [1 .. n -> Codes] BY KeysAreCodes
    <3>2. QED BY <3>1
  <2>3. \A i, j \in DOMAIN keys : i < j => Rank(keys[i]) < Rank(keys[j])
    BY <2>2, RanksOrdered DEF JsonbOrder
  <2>4. QED BY <2>1, <2>3 DEF KeysOrdered
<1>3. ASSUME UNCHANGED reply PROVE KeysOrdered(t)'
  BY <1>3 DEF InOrder, KeysOrdered
<1>4. \/ UNCHANGED reply
      \/ \E S \in SUBSET Codes, bad \in SUBSET Codes :
            \E keys \in JsonbOrder(S) :
               reply' = [reply EXCEPT ![t] =
                  [i \in DOMAIN keys |-> [code |-> keys[i],
                                          numeric |-> keys[i] \notin bad]]]
  BY Zenon DEF Begin
<1>5. KeysOrdered(t)' BY <1>2, <1>3, <1>4, Zenon
<1>6. InOrder(t)' BY <1>1, <1>5 DEF InOrder, OwnPlaced, TargetsBegun
<1>7. QED BY <1>1, <1>6, OrderOthers

\* Steps that write no row, between one UPDATE and the next.
LEMMA OrderReads ==
    ASSUME RepliesOK, \A u \in Txns : InOrder(u), NEW t \in Txns,
           UNCHANGED <<rate, own, now, reply, held>>,
           \A u \in Txns \ {t} : UNCHANGED <<pc[u], pos[u], to[u], targets[u]>>,
           pos'[t] \in {pos[t], pos[t] + 1},
           pc'[t] \notin {"refreshing", "closing"} => targets'[t] = {},
           \A id \in targets'[t] : id \in DOMAIN rate => rate[id].vf <= now[t],
           \A id \in DOMAIN own[t] : AtHand(t, id) =>
              AtHand(t, id)' \/ Earlier(t, PairOf(id))'
    PROVE  \A u \in Txns : InOrder(u)'
<1>1. \A p : Earlier(t, p) => Earlier(t, p)'
  <2>1. \A n \in DOMAIN reply[t] : n < pos[t] => n < pos'[t]
    <3>1. reply[t] \in Seq([code : Codes, numeric : BOOLEAN]) /\ pos[t] \in Nat
      BY DEF RepliesOK
    <3>2. \A n \in DOMAIN reply[t] : n \in Nat BY <3>1
    <3>3. QED BY <3>1, <3>2
  <2>2. \A n, i : Placed(t, n, i)' = Placed(t, n, i) BY DEF Placed
  <2>3. QED BY <2>1, <2>2 DEF Earlier
<1>2. OwnPlaced(t)' BY <1>1 DEF InOrder, OwnPlaced
<1>3. KeysOrdered(t)' /\ TargetsBegun(t)'
  BY DEF InOrder, KeysOrdered, TargetsBegun
<1>4. InOrder(t)' BY <1>2, <1>3 DEF InOrder
<1>5. QED BY <1>4, OrderOthers

LEMMA OrderStartUpdate ==
    ASSUME CallInv, RepliesOK, \A u \in Txns : InOrder(u),
           NEW t \in Txns, StartUpdate(t)
    PROVE  \A u \in Txns : InOrder(u)'
<1>1. /\ pc[t] \in {"refresh", "close"}
      /\ pc'[t] \in {"refreshing", "closing"}
      /\ targets'[t] = RowsToUpdate(t)
      /\ \A u \in Txns \ {t} : UNCHANGED <<pc[u], targets[u]>>
      /\ UNCHANGED <<rate, own, now, reply, pos, to, held>>
  BY DEF StartUpdate, Goto, CallInv, CallTypes, context
<1>2. ASSUME NEW id \in targets'[t], id \in DOMAIN rate
      PROVE  rate[id].vf <= now[t]
  <2>1. id \in DOMAIN Visible(t) /\ Visible(t)[id].vf <= now[t]
    BY <1>1, <1>2 DEF RowsToUpdate, CoveringIds, Covers
  <2>2. QED BY <1>2, <2>1, VisibleRow
<1>3. \A id \in DOMAIN own[t] : ~AtHand(t, id) BY <1>1 DEF AtHand
<1>4. QED BY <1>1, <1>2, <1>3, OrderReads

(***************************************************************************)
(* The UPDATE comes to a row.                                              *)
(***************************************************************************)
LEMMA OrderVisit ==
    ASSUME CallInv, \A u \in Txns : InOrder(u), NEW t \in Txns,
           NEW id \in targets[t],
           pc[t] \in {"refreshing", "closing"},
           \A k \in DOMAIN own'[t] :
              \/ k \in DOMAIN own[t]
              \/ k = id /\ Covers(Visible(t)[id], now[t]),
           \A u \in Txns \ {t} : own'[u] = own[u],
           targets' = [targets EXCEPT ![t] = @ \ {id}],
           UNCHANGED <<rate, pc, now, reply, pos, to, held>>
    PROVE  \A u \in Txns : InOrder(u)'
<1>1. /\ targets'[t] \subseteq targets[t]
      /\ \A u \in Txns \ {t} : targets'[u] = targets[u]
  BY DEF CallInv, CallTypes
<1>2. \A p : Earlier(t, p)' = Earlier(t, p) BY DEF Earlier, Placed
<1>3. \A k : AtHand(t, k)' = AtHand(t, k) BY DEF AtHand
<1>4. ASSUME NEW k \in DOMAIN own'[t]
      PROVE  Earlier(t, PairOf(k)) \/ AtHand(t, k)
  <2>1. CASE k \in DOMAIN own[t] BY <2>1 DEF InOrder, OwnPlaced
  <2>2. CASE k \notin DOMAIN own[t]
    <3>1. k = id /\ Covers(Visible(t)[id], now[t])
      BY <1>4, <2>2
    <3>2. id \in DOMAIN rate /\ PairOf(id) = to[t]
      BY <2>2, <3>1 DEF CallInv, Remembered
    <3>3. Visible(t)[id] = rate[id]
      BY <2>2, <3>1, <3>2 DEF Visible, Over
    <3>4. QED BY <3>1, <3>2, <3>3 DEF AtHand
  <2>3. QED BY <2>1, <2>2
<1>5. OwnPlaced(t)' BY <1>2, <1>3, <1>4 DEF OwnPlaced
<1>6. KeysOrdered(t)' /\ TargetsBegun(t)'
  BY <1>1 DEF InOrder, KeysOrdered, TargetsBegun
<1>7. InOrder(t)' BY <1>5, <1>6 DEF InOrder
<1>8. QED BY <1>1, <1>7, OrderOthers

\* The quote is dealt with: to[t] is an earlier currency now.
LEMMA PastQuote ==
    ASSUME RepliesOK, NEW t \in Txns, AtQuote(t),
           pc[t] \in {"refreshing", "closing"}, pos'[t] = pos[t] + 1,
           reply'[t] = reply[t], held'[t] = held[t], to'[t] = to[t]
    PROVE  Earlier(t, to[t])'
<1>1. pos[t] \in DOMAIN reply[t] /\ Placed(t, pos[t], to[t]) BY DEF AtQuote
<1>2. pos[t] < pos'[t] BY DEF RepliesOK
<1>3. QED BY <1>1, <1>2 DEF Earlier, Placed

LEMMA OrderEndRefresh ==
    ASSUME CallInv, RepliesOK, \A u \in Txns : InOrder(u),
           NEW t \in Txns, AtQuote(t), EndRefresh(t)
    PROVE  \A u \in Txns : InOrder(u)'
<1>1. /\ pc[t] = "refreshing" /\ pc'[t] = "next" /\ targets'[t] = {}
      /\ pos'[t] = pos[t] + 1
      /\ \A u \in Txns \ {t} : UNCHANGED <<pc[u], pos[u]>>
      /\ UNCHANGED <<rate, own, now, reply, to, targets, held>>
  BY DEF EndRefresh, NextQuote, Goto, CallInv, CallTypes, RepliesOK, context
<1>2. Earlier(t, to[t])' BY <1>1, PastQuote
<1>3. \A id \in DOMAIN own[t] : AtHand(t, id) => Earlier(t, PairOf(id))'
  BY <1>1, <1>2 DEF AtHand
<1>4. QED BY <1>1, <1>3, OrderReads

LEMMA OrderInsert ==
    ASSUME CallInv, RepliesOK, \A u \in Txns : InOrder(u),
           NEW t \in Txns, AtQuote(t), InsertPeriod(t)
    PROVE  \A u \in Txns : InOrder(u)'
<1>1. pc[t] = "closing" /\ targets[t] = {} /\ t \in Running
  BY DEF InsertPeriod, Running, Ends
<1>2. CASE Fail(t) BY <1>1, <1>2, OrderFail
<1>3. ASSUME NEW id, id = <<t, to[t]>>, NEW row,
             own' = [own EXCEPT ![t] = Assign(own[t], id, row)],
             NextQuote(t), UNCHANGED <<context, rate, now, reply, to, targets>>
      PROVE  \A u \in Txns : InOrder(u)'
  <2>1. /\ pc'[t] = "next" /\ pos'[t] = pos[t] + 1 /\ held' = held
        /\ \A u \in Txns \ {t} : UNCHANGED <<own[u], pc[u], pos[u]>>
        /\ DOMAIN own'[t] = DOMAIN own[t] \cup {id}
    BY <1>3 DEF NextQuote, Goto, CallInv, CallTypes, RepliesOK, context, Assign
  <2>2. Earlier(t, to[t])' BY <1>1, <1>3, <2>1, PastQuote
  <2>3. \A p : Earlier(t, p) => Earlier(t, p)'
    <3>1. \A n \in DOMAIN reply[t] : n < pos[t] => n < pos'[t]
      <4>1. /\ reply[t] \in Seq([code : Codes, numeric : BOOLEAN])
            /\ pos[t] \in Nat
        BY DEF RepliesOK
      <4>2. \A n \in DOMAIN reply[t] : n \in Nat BY <4>1
      <4>3. QED BY <2>1, <4>1, <4>2
    <3>2. \A n, i : Placed(t, n, i)' = Placed(t, n, i)
      BY <1>3, <2>1 DEF Placed
    <3>3. QED BY <1>3, <3>1, <3>2 DEF Earlier
  <2>4. \A k \in DOMAIN own'[t] : Earlier(t, PairOf(k))'
    <3>1. PairOf(id) = to[t] BY <1>3 DEF PairOf
    <3>2. \A k \in DOMAIN own[t] :
             Earlier(t, PairOf(k)) \/ PairOf(k) = to[t]
      BY DEF InOrder, OwnPlaced, AtHand
    <3>3. QED BY <1>3, <2>1, <2>2, <2>3, <3>1, <3>2
  <2>5. InOrder(t)'
    BY <1>1, <1>3, <2>4 DEF InOrder, KeysOrdered, OwnPlaced, TargetsBegun
  <2>6. QED BY <1>3, <2>1, <2>5, OrderOthers
<1>4. QED BY <1>2, <1>3 DEF InsertPeriod

LEMMA OrderSteps ==
    ASSUME CallInv, RepliesOK, \A u \in Txns : AtQuote(u),
           \A u \in Txns : InOrder(u), [Next]_vars
    PROVE  \A u \in Txns : InOrder(u)'
<1>1. ASSUME NEW t \in Txns, Step(t) PROVE \A u \in Txns : InOrder(u)'
  <2>1. CASE LookUp(t) \/ SelectPeriod(t)
    <3>1. /\ pc[t] \in {"next", "select"}
          /\ pc'[t] \notin {"refreshing", "closing"}
          /\ pos'[t] \in {pos[t], pos[t] + 1}
          /\ \A u \in Txns \ {t} : UNCHANGED <<pc[u], pos[u], to[u]>>
          /\ UNCHANGED <<rate, own, now, reply, held, targets>>
      BY <2>1 DEF LookUp, SelectPeriod, NextQuote, Goto, CallInv, CallTypes,
                  RepliesOK, context
    <3>2. targets[t] = {} BY <3>1 DEF InOrder, TargetsBegun
    <3>3. \A id : ~AtHand(t, id) BY <3>1 DEF AtHand
    <3>4. QED BY <3>1, <3>2, <3>3, OrderReads
  <2>2. CASE BadNumber(t) BY <2>2, OrderFail DEF BadNumber, Running, Ends
  <2>3. CASE StartUpdate(t) BY <2>3, OrderStartUpdate
  <2>4. ASSUME NEW id \in targets[t], RefreshRow(t, id)
        PROVE  \A u \in Txns : InOrder(u)'
    <3>1. /\ pc[t] \in {"refreshing", "closing"}
          /\ targets' = [targets EXCEPT ![t] = @ \ {id}]
          /\ UNCHANGED <<rate, pc, now, reply, pos, to, held>>
      BY <2>4 DEF RefreshRow, context
    <3>2. /\ \A k \in DOMAIN own'[t] :
                \/ k \in DOMAIN own[t]
                \/ k = id /\ Covers(Visible(t)[id], now[t])
          /\ \A u \in Txns \ {t} : own'[u] = own[u]
      <4>1. CASE own' = own BY <4>1
      <4>2. ASSUME NEW row, Covers(Visible(t)[id], now[t]),
                   own' = [own EXCEPT ![t] = Assign(own[t], id, row)]
            PROVE  /\ DOMAIN own'[t] = DOMAIN own[t] \cup {id}
                   /\ \A u \in Txns \ {t} : own'[u] = own[u]
        BY <4>2 DEF Assign, CallInv, CallTypes
      <4>3. QED BY <2>4, <4>1, <4>2 DEF RefreshRow
    <3>3. QED BY <2>4, <3>1, <3>2, OrderVisit
  <2>5. ASSUME NEW id \in targets[t], CloseRow(t, id)
        PROVE  \A u \in Txns : InOrder(u)'
    <3>1. pc[t] = "closing" /\ t \in Running
      BY <2>5 DEF CloseRow, Running, Ends
    <3>2. ASSUME ~Fail(t)
          PROVE  /\ targets' = [targets EXCEPT ![t] = @ \ {id}]
                 /\ UNCHANGED <<rate, pc, now, reply, pos, to, held>>
      BY <2>5, <3>2 DEF CloseRow, context
    <3>3. ASSUME ~Fail(t)
          PROVE  /\ \A k \in DOMAIN own'[t] :
                       \/ k \in DOMAIN own[t]
                       \/ k = id /\ Covers(Visible(t)[id], now[t])
                 /\ \A u \in Txns \ {t} : own'[u] = own[u]
      BY <2>5, <3>3 DEF CloseRow, Assign, CallInv, CallTypes
    <3>4. CASE Fail(t) BY <3>1, <3>4, OrderFail
    <3>5. CASE ~Fail(t) BY <3>1, <3>2, <3>3, <3>5, OrderVisit
    <3>6. QED BY <3>4, <3>5
  <2>6. CASE EndRefresh(t) BY <2>6, OrderEndRefresh
  <2>7. CASE InsertPeriod(t) BY <2>7, OrderInsert
  <2>8. CASE Commit(t) BY <2>8, OrderCommit
  <2>9. CASE DeadlockDetected(t) BY <2>9, OrderFail DEF DeadlockDetected
  <2>10. QED
    BY <1>1, <2>1, <2>2, <2>3, <2>4, <2>5, <2>6, <2>7, <2>8, <2>9 DEF Step
<1>2. ASSUME NEW t \in Txns, ConnectionLost(t)
      PROVE  \A u \in Txns : InOrder(u)'
  BY <1>2, OrderFail DEF ConnectionLost
<1>3. CASE Tick \/ ChangeRegistry \/ UNCHANGED vars
  <2>1. /\ UNCHANGED <<rate, pc, now, reply, pos, to, targets, own>>
        /\ \A u \in Txns : held[u] \subseteq held'[u]
    BY <1>3 DEF Tick, ChangeRegistry, vars, context, RepliesOK
  <2>2. ASSUME NEW u \in Txns PROVE InOrder(u)'
    BY <2>1, <2>2, OrderStays
  <2>3. QED BY <2>2
<1>4. QED BY <1>1, <1>2, <1>3, OrderBegin DEF Next

-----------------------------------------------------------------------------
(***************************************************************************)
(* Calls that wait.                                                        *)
(***************************************************************************)
Updating == {t \in Running : pc[t] \in {"refreshing", "closing"}}

\* How far the call has come in the order of the codes.
Reached(t) == Rank(Quote(t).code)

\* The currency of a quote, while the registry is what it was.
LEMMA QuoteOf ==
    ASSUME OrderInv, NEW t \in Txns, Undisturbed(t), NEW n \in DOMAIN reply[t],
           NEW p \in Ids, Placed(t, n, p)
    PROVE  /\ reply[t][n].code \in Codes
           /\ \E k \in currency : k.id = p /\ k.code = reply[t][n].code
<1>1. <<reply[t][n].code, p>> \in Holdings BY DEF Undisturbed, Placed
<1>2. reply[t][n].code \in Codes BY <1>1 DEF Holdings
<1>3. p \in Holders(reply[t][n].code)
  BY <1>1, CallbackAssumption DEF Holdings
<1>4. QED BY <1>2, <1>3 DEF Holders, Registry!get_currency_id

LEMMA FrontOf ==
    ASSUME OrderInv, NEW t \in Updating, Undisturbed(t)
    PROVE  /\ Reached(t) \in Nat /\ Reached(t) <= Len(KeyOrder)
           /\ to[t] \in Ids /\ pos[t] \in DOMAIN reply[t]
           /\ \E k \in currency : k.id = to[t] /\ k.code = Quote(t).code
<1>1. /\ t \in Txns /\ pos[t] \in DOMAIN reply[t] /\ to[t] \in Ids
      /\ Placed(t, pos[t], to[t])
  BY DEF OrderInv, QuotesInv, CallQuotes, AtQuote, Updating, Running
<1>2. Quote(t).code \in Codes
      /\ \E k \in currency : k.id = to[t] /\ k.code = Quote(t).code
  BY <1>1, QuoteOf DEF Quote
<1>3. QED BY <1>1, <1>2, RankOfCode DEF Reached

(***************************************************************************)
(* A call that has written a row of the pair another one is at is at that  *)
(* pair too, or past it.                                                   *)
(***************************************************************************)
LEMMA WriterIsPast ==
    ASSUME OrderInv, NEW t \in Updating, NEW u \in Updating,
           Undisturbed(t), Undisturbed(u),
           NEW id \in DOMAIN own[u], PairOf(id) = to[t]
    PROVE  /\ Reached(t) <= Reached(u)
           /\ Reached(t) = Reached(u) => AtHand(u, id)
<1>1. /\ t \in Txns /\ u \in Txns
      /\ Reached(t) \in Nat /\ Reached(u) \in Nat
      /\ to[t] \in Ids /\ to[u] \in Ids
      /\ pos[u] \in DOMAIN reply[u]
      /\ \E k \in currency : k.id = to[t] /\ k.code = Quote(t).code
      /\ \E k \in currency : k.id = to[u] /\ k.code = Quote(u).code
  BY FrontOf DEF Updating, Running
<1>2. CASE AtHand(u, id)
  <2>1. to[u] = to[t] BY <1>2 DEF AtHand
  <2>2. Quote(u).code = Quote(t).code
    BY <1>1, <2>1 DEF OrderInv, KeysUnique
  <2>3. QED BY <1>1, <1>2, <2>2 DEF Reached
<1>3. CASE Earlier(u, PairOf(id))
  <2>1. PICK n \in DOMAIN reply[u] : n < pos[u] /\ Placed(u, n, to[t])
    BY <1>3 DEF Earlier
  <2>2. \E k \in currency : k.id = to[t] /\ k.code = reply[u][n].code
    BY <1>1, <2>1, QuoteOf
  <2>3. reply[u][n].code = Quote(t).code
    BY <1>1, <2>2 DEF OrderInv, KeysUnique
  <2>4. Rank(reply[u][n].code) < Rank(reply[u][pos[u]].code)
    BY <1>1, <2>1 DEF OrderInv, InOrder, KeysOrdered
  <2>5. QED BY <1>1, <2>3, <2>4 DEF Reached, Quote
<1>4. QED BY <1>1, <1>2, <1>3 DEF OrderInv, InOrder, OwnPlaced

(***************************************************************************)
(* What a call waits for: a row of its pair that another call has written. *)
(* The UPDATE has come to that row, or it would give another row the start *)
(* of that row, or the INSERT would.                                       *)
(***************************************************************************)
WaitsFor(t, id) ==
    \/ id \in targets[t]
    \/ \E k \in targets[t] :
          /\ Covers(Visible(t)[k], now[t])
          /\ id \in DOMAIN rate => rate[id].vf = Visible(t)[k].vf
    \/ id \in DOMAIN rate => rate[id].vf = now[t]

LEMMA BlockerWrote ==
    ASSUME OrderInv, NEW t \in Running, NEW u \in Blockers(t)
    PROVE  /\ t \in Updating /\ u \in Txns \ {t}
           /\ \E id \in DOMAIN own[u] :
                 PairOf(id) = to[t] /\ WaitsFor(t, id)
<1>1. t \in Txns /\ CallInv BY DEF Running, OrderInv, QuotesInv
<1>2. t \in Updating
  BY <1>1 DEF Blockers, Updating, OrderInv, InOrder, TargetsBegun
<1>3. \A id \in targets[t] : PairOf(id) = to[t]
  BY <1>1, <1>2 DEF CallInv, Remembered, Updating
<1>4. ASSUME NEW p, NEW vf, NEW vt, u \in KeyWaits(t, <<p, vf, vt>>)
      PROVE  /\ u \in Txns \ {t}
             /\ \E id \in DOMAIN own[u] :
                   /\ PairOf(id) = p
                   /\ id \in DOMAIN rate => rate[id].vf = vf
  <2>1. u \in Txns \ {t} BY <1>4 DEF KeyWaits
  <2>2. PICK id \in DOMAIN own[u] :
           \/ KeyOf(id, own[u][id]) = <<p, vf, vt>>
           \/ id \in DOMAIN rate /\ KeyOf(id, rate[id]) = <<p, vf, vt>>
    BY <1>4 DEF KeyWaits
  <2>3. id \in DOMAIN rate => own[u][id].vf = rate[id].vf
    BY <1>1, <2>1 DEF CallInv, Written, WrittenRow
  <2>4. PairOf(id) = p /\ (id \in DOMAIN rate => rate[id].vf = vf)
    BY <2>2, <2>3 DEF KeyOf
  <2>5. QED BY <2>1, <2>4
<1>5. ASSUME NEW k \in targets[t], u \in RowWaits(t, k)
      PROVE  /\ u \in Txns \ {t}
             /\ \E id \in DOMAIN own[u] :
                   PairOf(id) = to[t] /\ WaitsFor(t, id)
  <2>1. CASE u \in Lockers(t, k)
    BY <1>3, <2>1 DEF Lockers, WaitsFor
  <2>2. CASE /\ Lockers(t, k) = {} /\ Covers(Visible(t)[k], now[t])
             /\ u \in KeyWaits(t, ClosedKey(t, k))
    <3>1. /\ u \in Txns \ {t}
          /\ \E id \in DOMAIN own[u] :
                /\ PairOf(id) = PairOf(k)
                /\ id \in DOMAIN rate => rate[id].vf = Visible(t)[k].vf
      BY <1>4, <2>2 DEF ClosedKey
    <3>2. QED BY <1>3, <2>2, <3>1 DEF WaitsFor
  <2>3. QED BY <1>5, <2>1, <2>2 DEF RowWaits
<1>6. ASSUME u \in KeyWaits(t, NewKey(t))
      PROVE  /\ u \in Txns \ {t}
             /\ \E id \in DOMAIN own[u] :
                   PairOf(id) = to[t] /\ WaitsFor(t, id)
  BY <1>4, <1>6 DEF NewKey, WaitsFor
<1>7. CASE targets[t] # {}
  <2>1. PICK k \in targets[t] : u \in RowWaits(t, k)
    BY <1>7 DEF Blockers
  <2>2. QED BY <1>2, <1>5, <2>1
<1>8. CASE targets[t] = {} BY <1>2, <1>6, <1>8 DEF Blockers
<1>9. QED BY <1>7, <1>8

(***************************************************************************)
(* Where one row gives the rate, a call does not wait for one that began   *)
(* no earlier and is at the same pair, if both have written a row of it.   *)
(***************************************************************************)
LEMMA NoWaitAtPair ==
    ASSUME OrderInv, OneRate, NEW t \in Updating, NEW u \in Txns \ {t},
           NEW own1 \in DOMAIN own[t], AtHand(t, own1),
           NEW id \in DOMAIN own[u], PairOf(id) = to[t], AtHand(u, id),
           WaitsFor(t, id), now[t] <= now[u]
    PROVE  FALSE
<1>1. /\ CallInv /\ t \in Txns /\ now[t] \in Nat /\ now[u] \in Nat
  BY CallbackAssumption
     DEF OrderInv, QuotesInv, CallInv, CallTypes, Updating, Running
<1>2. /\ own1 \in DOMAIN rate /\ PairOf(own1) = to[t]
      /\ rate[own1].vf <= now[t] /\ now[t] < rate[own1].vt
      /\ id \in DOMAIN rate /\ rate[id].vf <= now[u] /\ now[u] < rate[id].vt
  BY DEF AtHand, Covers
<1>3. /\ rate[own1].vf \in Nat /\ rate[own1].vt \in Nat
      /\ rate[id].vf \in Nat /\ rate[id].vt \in Nat
  BY <1>1, <1>2, CallbackAssumption DEF CallInv, Committed, RowsOK, Row
<1>4. own1 # id BY <1>1 DEF CallInv, Locked
<1>5. now[t] < rate[id].vf
  <2>1. ~Overlap(own1, id) BY <1>2 DEF OneRate
  <2>2. QED BY <1>1, <1>2, <1>3, <1>4, <2>1 DEF Overlap
<1>6. CASE id \in targets[t]
  BY <1>1, <1>2, <1>3, <1>5, <1>6 DEF OrderInv, InOrder, TargetsBegun
<1>7. ASSUME NEW k \in targets[t],
             Covers(Visible(t)[k], now[t]), rate[id].vf = Visible(t)[k].vf
      PROVE  FALSE
  BY <1>1, <1>3, <1>5, <1>7 DEF Covers
<1>8. QED BY <1>1, <1>2, <1>3, <1>5, <1>6, <1>7 DEF WaitsFor

(***************************************************************************)
(* Of the elements of a set that have a number, one has the least.         *)
(***************************************************************************)
LEMMA Least ==
    ASSUME NEW S, S # {}, NEW f \in [S -> Nat]
    PROVE  \E x \in S : \A y \in S : f[x] <= f[y]
<1> DEFINE V == {f[x] : x \in S}
<1>1. IsWellFoundedOn(OpToRel(<, Nat), Nat) BY NatLessThanWellFounded
<1>2. V \in SUBSET Nat /\ V # {} BY Zenon
<1>3. PICK n \in V : \A k \in V : <<k, n>> \notin OpToRel(<, Nat)
  <2>1. HIDE DEF V
  <2>2. QED BY <1>1, <1>2, WFMin, Zenon
<1>4. n \in Nat /\ \A k \in V : ~(k < n) BY <1>2, <1>3 DEF OpToRel
<1>5. \A k \in V : n <= k BY <1>2, <1>4
<1>6. PICK x \in S : f[x] = n OBVIOUS
<1>7. QED BY <1>5, <1>6

LEMMA OrderStart == Init => OrderInv
<1> SUFFICES ASSUME Init PROVE OrderInv OBVIOUS
<1>1. KeysUnique
  BY CallbackAssumption DEF Init, KeysUnique, Registry!Currency
<1>2. ASSUME NEW t \in Txns PROVE InOrder(t)
  BY DEF Init, InOrder, KeysOrdered, OwnPlaced, TargetsBegun, Empty
<1>3. QED BY <1>1, <1>2, QuotesStart DEF OrderInv

LEMMA OrderInvariant == Spec => []OrderInv
<1>1. OrderInv /\ [Next]_vars => OrderInv'
  BY CallSteps, KeysHeldSteps, ValuesSteps, RepliesSteps, QuotesSteps,
     KeysUniqueSteps, OrderSteps
     DEF OrderInv, QuotesInv, CallQuotes
<1>2. QED BY <1>1, OrderStart, PTL DEF Spec

(***************************************************************************)
(* Concurrent calls of exchange_rate_done do not deadlock on rows or keys  *)
(* of public.rate while one row gives the rate of a pair and the registry  *)
(* is what each of them found: jsonb_each_text has them take the pairs in  *)
(* one order.  Of calls that wait for one another, those furthest in that  *)
(* order are all at one pair, and wait for rows of it that they have       *)
(* written; the one of these writers with the least Now() would wait for a *)
(* row that starts after it.                                               *)
(***************************************************************************)
THEOREM DeadlocksNeedOverlap == Spec => []DeadlockNeedsOverlap
<1>1. OrderInv => DeadlockNeedsOverlap
  <2>1. SUFFICES ASSUME OrderInv, OneRate, NEW S \in SUBSET Running, S # {},
                        \A t \in S : Undisturbed(t), Deadlocked(S)
                 PROVE  FALSE
    BY DEF DeadlockNeedsOverlap
  <2>2. ASSUME NEW t \in S
        PROVE  \E u \in S :
                  /\ u \in Blockers(t) /\ u \in Txns \ {t}
                  /\ \E id \in DOMAIN own[u] :
                        PairOf(id) = to[t] /\ WaitsFor(t, id)
    BY <2>1, BlockerWrote DEF Deadlocked
  <2>3. \A t \in S : t \in Updating BY <2>1, BlockerWrote DEF Deadlocked
  <2>4. \A t \in S : /\ Reached(t) \in Nat /\ Reached(t) <= Len(KeyOrder)
                     /\ now[t] \in Nat
    BY <2>1, <2>3, FrontOf, CallbackAssumption
       DEF OrderInv, QuotesInv, CallInv, CallTypes, Updating, Running
  <2>5. PICK m \in S : \A t \in S : Reached(t) <= Reached(m)
    <3>1. Len(KeyOrder) \in Nat BY KeysAssumption
    <3>2. [t \in S |-> Len(KeyOrder) - Reached(t)] \in [S -> Nat]
      BY <2>4, <3>1
    <3>3. PICK m \in S : \A t \in S :
             [x \in S |-> Len(KeyOrder) - Reached(x)][m]
                <= [x \in S |-> Len(KeyOrder) - Reached(x)][t]
      BY <2>1, <3>2, Least
    <3>4. \A t \in S :
             Len(KeyOrder) - Reached(m) <= Len(KeyOrder) - Reached(t)
      BY <3>3
    <3>5. QED BY <2>4, <3>1, <3>4
  <2> DEFINE Furthest == {t \in S : Reached(t) = Reached(m)}
             Block(t, u, id) == /\ id \in DOMAIN own[u] /\ u \in Txns \ {t}
                                /\ PairOf(id) = to[t] /\ WaitsFor(t, id)
             Writers == {u \in Furthest : \E t \in Furthest :
                            \E id \in DOMAIN own[u] : PairOf(id) = to[t]}
  <2>6. ASSUME NEW t \in Furthest, NEW u \in S,
               NEW id \in DOMAIN own[u], PairOf(id) = to[t]
        PROVE  u \in Furthest /\ AtHand(u, id)
    BY <2>1, <2>3, <2>4, <2>5, <2>6, WriterIsPast
  <2>7. \A t \in Furthest : \E u \in Writers : \E id : Block(t, u, id)
    BY <2>2, <2>6
  <2>8. PICK d \in Writers : \A u \in Writers : now[d] <= now[u]
    <3>1. [u \in Writers |-> now[u]] \in [Writers -> Nat] BY <2>4
    <3>2. Writers # {} BY <2>7
    <3>3. PICK d \in Writers : \A u \in Writers :
             [x \in Writers |-> now[x]][d] <= [x \in Writers |-> now[x]][u]
      <4>1. HIDE DEF Writers
      <4>2. QED BY <3>1, <3>2, Least
    <3>4. QED BY <3>3
  <2>9. PICK own1 \in DOMAIN own[d] : AtHand(d, own1) BY <2>6
  <2>10. PICK u \in Writers : \E id : Block(d, u, id) BY <2>7
  <2>11. PICK id : Block(d, u, id) BY <2>10
  <2>12. AtHand(u, id) BY <2>6, <2>11
  <2>13. QED
    BY <2>1, <2>3, <2>8, <2>9, <2>11, <2>12, NoWaitAtPair
<1>2. QED BY <1>1, OrderInvariant, PTL

-----------------------------------------------------------------------------
(***************************************************************************)
(* Types: what OrderInv does not say of the registry and of uCurrencyTo.   *)
(***************************************************************************)
LookUpTypes ==
    /\ changes \in 0 .. MaxChanges
    /\ held \in [Txns -> SUBSET (Codes \X (Ids \cup {NoId}))]
    /\ to \in [Txns -> Ids \cup {NoId}]

LEMMA LookUpTypesSteps ==
    ASSUME KeysHeld, LookUpTypes, [Next]_vars
    PROVE  LookUpTypes'
<1>1. Holdings \in SUBSET (Codes \X (Ids \cup {NoId})) BY DEF Holdings
<1>2. Holdings' \in SUBSET (Codes \X (Ids \cup {NoId})) BY DEF Holdings
<1>3. CASE UNCHANGED <<changes, held, to>> BY <1>3 DEF LookUpTypes
<1>4. ASSUME NEW t \in Txns, Begin(t) PROVE LookUpTypes'
  BY <1>1, <1>4 DEF Begin, LookUpTypes
<1>5. ASSUME NEW t \in Txns, LookUp(t) PROVE LookUpTypes'
  <2>1. \A c : Holders(c) \subseteq Ids
    BY DEF Holders, Registry!get_currency_id, KeysHeld, Registry!Currency
  <2>2. UNCHANGED <<changes, held>> BY <1>5 DEF LookUp, context
  <2>3. to' \in [Txns -> Ids \cup {NoId}]
    BY <1>5, <2>1 DEF LookUp, LookUpTypes
  <2>4. QED BY <2>2, <2>3 DEF LookUpTypes
<1>6. CASE ChangeRegistry
  <2>1. changes' \in 0 .. MaxChanges /\ to' = to
    BY <1>6, CallbackAssumption DEF ChangeRegistry, LookUpTypes
  <2>2. held' \in [Txns -> SUBSET (Codes \X (Ids \cup {NoId}))]
    BY <1>2, <1>6 DEF ChangeRegistry, LookUpTypes
  <2>3. QED BY <2>1, <2>2 DEF LookUpTypes
<1>7. ASSUME NEW t \in Txns, Step(t) \/ ConnectionLost(t), ~LookUp(t)
      PROVE  UNCHANGED <<changes, held, to>>
  BY <1>7
     DEF Step, ConnectionLost, BadNumber, SelectPeriod, StartUpdate,
         RefreshRow, CloseRow, EndRefresh, InsertPeriod, Commit,
         DeadlockDetected, Fail, context
<1>8. CASE Tick \/ UNCHANGED vars BY <1>3, <1>8 DEF Tick, vars, context
<1>9. QED BY <1>3, <1>4, <1>5, <1>6, <1>7, <1>8 DEF Next

(***************************************************************************)
(* The types of the state of concurrent callbacks: no call remembers a     *)
(* currency, a row or an instant that is none, whatever it waits for and   *)
(* whatever is registered, renamed or deleted meanwhile.                   *)
(***************************************************************************)
THEOREM CallbackTypes == Spec => []TypeOK
<1>1. Init => LookUpTypes
  <2>1. SUFFICES ASSUME Init PROVE LookUpTypes OBVIOUS
  <2>2. changes \in 0 .. MaxChanges BY <2>1, CallbackAssumption DEF Init
  <2>3. QED BY <2>1, <2>2 DEF Init, LookUpTypes
<1>2. OrderInv /\ LookUpTypes /\ RaceInv => TypeOK
  <2>1. SUFFICES ASSUME OrderInv, LookUpTypes, RaceInv PROVE TypeOK OBVIOUS
  <2>2. \A id : HasRow(id) => PairOf(id) \in Pairs
    BY <2>1 DEF OrderInv, QuotesInv, KeysHeld, Registered, Registry!Currency,
                Pairs
  <2>3. IsTable(rate) /\ \A t \in Txns : IsTable(own[t])
    BY <2>1, <2>2 DEF OrderInv, QuotesInv, CallInv, Committed, Written, RowsOK,
                      HasRow, IsTable
  <2>4. ASSUME NEW t \in Txns PROVE targets[t] \subseteq DOMAIN Visible(t)
    BY <2>1 DEF OrderInv, QuotesInv, CallInv, Remembered, InOrder,
                TargetsBegun, Visible, Over
  <2>5. pos \in [Txns -> Nat] BY <2>1 DEF OrderInv, QuotesInv, RepliesOK
  <2>6. QED
    BY <2>1, <2>3, <2>4, <2>5
       DEF TypeOK, LookUpTypes, OrderInv, QuotesInv, CallInv, CallTypes,
           RepliesOK, KeysUnique, RaceInv, Meetings
<1>3. OrderInv /\ LookUpTypes /\ [Next]_vars => LookUpTypes'
  BY LookUpTypesSteps DEF OrderInv, QuotesInv
<1>4. QED
  BY <1>1, <1>2, <1>3, OrderInvariant, RaceInvariant, PTL DEF Spec
=============================================================================
