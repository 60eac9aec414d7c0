-------------------------- MODULE ExchangeCallback --------------------------
(***************************************************************************)
(* exchange_rate_done(request), the callback PGFetch calls for an answered *)
(* HTTP request (db/sql/public/rate/callback.sql), run by several          *)
(* connections of the helper's pool at once.  Every call is a PostgreSQL   *)
(* transaction at READ COMMITTED: Now() is its start time, each statement  *)
(* of update_rate sees the rows committed when the statement starts and    *)
(* those the transaction wrote, an UPDATE waits for a row another          *)
(* transaction has written and rechecks its WHERE clause afterwards, an    *)
(* INSERT waits for a conflicting key that is not yet committed, and the   *)
(* handler WHEN others undoes the whole call.                              *)
(*                                                                         *)
(* The value transaction t publishes is abstracted to t itself.  The base  *)
(* of all replies is one currency, so a pair is known by its other         *)
(* currency, and a row by the transaction and the pair that inserted it.   *)
(*                                                                         *)
(* Other sessions register, rename and delete currencies meanwhile.        *)
(***************************************************************************)
EXTENDS Integers, FiniteSets, Sequences, SequencesExt

CONSTANTS Txns,        \* calls of exchange_rate_done
          KeyOrder,    \* the codes of replies, in the order jsonb keeps keys
          Ids,         \* ids of currencies
          NullCode,    \* see CurrencyRegistry
          Installed,   \* the currencies registered at first
          Seeds,       \* the possible initial contents of public.rate
          MaxDate,     \* public.max_date(); instants are 0 .. MaxDate - 1
          MaxClock,    \* bound on the clock
          PoolSize,    \* connections that run callbacks at once
          MaxChanges   \* bound on the changes of the registry

Codes == ToSet(KeyOrder)
Pairs == Ids
NoId == "none"

ASSUME KeysAssumption ==
    /\ KeyOrder \in Seq(Codes)
    /\ \A i, j \in DOMAIN KeyOrder : KeyOrder[i] = KeyOrder[j] => i = j

ASSUME CallbackAssumption ==
    /\ MaxDate \in Nat /\ MaxClock \in 1 .. MaxDate - 1
    /\ PoolSize \in Nat \ {0} /\ IsFiniteSet(Txns)
    /\ MaxChanges \in Nat /\ NullCode \notin Codes
    /\ NoId \notin Ids \cup Txns
    /\ Installed \subseteq [id : Ids, code : Codes]
    /\ \A k, l \in Installed : k.id = l.id \/ k.code = l.code => k = l

VARIABLES
    currency,  \* the rows of public.currency
    changes,   \* changes of the registry so far
    held,      \* <<code, id>>: codes and their currencies (or none) that were
               \* in the registry at some time since the call began
    beside,    \* the other calls that ran at some time while the call did
    rate,      \* committed rows: id -> [vf, vt, val]; id is <<origin, pair>>
    clock,     \* wall-clock time
    pc,        \* where each call is
    now,       \* Now() of the call's transaction
    reply,     \* the quotes of the call's reply, in the order they are read
    pos,       \* the quote being handled
    to,        \* uCurrencyTo
    found,     \* validToDate of the row the SELECT INTO found, or Null
    targets,   \* ids the running UPDATE has still to lock and change
    own        \* uncommitted row versions of the call: id -> row

context == <<currency, changes, held, beside>>
vars == <<context, rate, clock, pc, now, reply, pos, to, found, targets, own>>

Registry == INSTANCE CurrencyRegistry

Ends == {"done", "ignored", "failed"}
Running == {t \in Txns : pc[t] \notin Ends \cup {"idle"}}

Null == -1
Empty == [id \in {} |-> 0]
Over(f, g) ==
    [x \in DOMAIN f \cup DOMAIN g |-> IF x \in DOMAIN f THEN f[x] ELSE g[x]]
Assign(f, x, v) == [y \in DOMAIN f \cup {x} |-> IF y = x THEN v ELSE f[y]]
PairOf(id) == id[2]
Quote(t) == reply[t][pos[t]]

Holders(c) == Registry!get_currency_id(c)
Holdings == {h \in Codes \X (Ids \cup {NoId}) :
               h[2] \in IF Holders(h[1]) = {} THEN {NoId} ELSE Holders(h[1])}

-----------------------------------------------------------------------------
(***************************************************************************)
(* PostgreSQL: visible rows, row locks and the unique index.               *)
(***************************************************************************)
Visible(t) == Over(own[t], rate)

\* Mutant: the WHERE clause forgets validFromDate <= pDateFrom.
EndsAfter(row, d) == d < row.vt

Covers(row, d) == row.vf <= d /\ d < row.vt

CoveringIds(tab, p, d) ==
    {id \in DOMAIN tab : PairOf(id) = p /\ Covers(tab[id], d)}

Lockers(t, id) == {u \in Txns \ {t} : id \in DOMAIN own[u]}

KeyOf(id, row) == <<PairOf(id), row.vf, row.vt>>

\* Calls whose end decides whether key k is taken.
KeyWaits(t, k) ==
    {u \in Txns \ {t} : \E id \in DOMAIN own[u] :
        \/ KeyOf(id, own[u][id]) = k
        \/ id \in DOMAIN rate /\ KeyOf(id, rate[id]) = k}

KeyTaken(t, id, k) ==
    \E i \in DOMAIN Visible(t) \ {id} :
        Lockers(t, i) = {} /\ KeyOf(i, Visible(t)[i]) = k

-----------------------------------------------------------------------------
Goto(t, l) == pc' = [pc EXCEPT ![t] = l]

NextQuote(t) ==
    /\ pos' = [pos EXCEPT ![t] = @ + 1]
    /\ Goto(t, "next")

\* Mutant: the handler keeps what the call has written so far.
KeepWrites(t) ==
    /\ Goto(t, "failed")
    /\ rate' = Over(own[t], rate)
    /\ own' = [own EXCEPT ![t] = Empty]
    /\ targets' = [targets EXCEPT ![t] = {}]
    /\ UNCHANGED <<context, clock, now, reply, pos, to, found>>

\* Mutant: the handler tries the call again, from its first quote.
TriesAgain(t) ==
    /\ Goto(t, "next") /\ pos' = [pos EXCEPT ![t] = 1]
    /\ own' = [own EXCEPT ![t] = Empty]
    /\ targets' = [targets EXCEPT ![t] = {}]
    /\ UNCHANGED <<context, rate, clock, now, reply, to, found>>

\* EXCEPTION WHEN others: every change of the call is undone.
Fail(t) ==
    /\ Goto(t, "failed")
    /\ own' = [own EXCEPT ![t] = Empty]
    /\ targets' = [targets EXCEPT ![t] = {}]
    /\ UNCHANGED <<context, rate, clock, now, reply, pos, to, found>>

\* Mutant: the keys are read in an order of the sender's choice.
SenderOrder(S) == SetToSeqs(S)

\* jsonb_each_text yields the keys in the order jsonb stores them.
Before(a, b) ==
    \E i, j \in DOMAIN KeyOrder : i < j /\ KeyOrder[i] = a /\ KeyOrder[j] = b

JsonbOrder(S) ==
    {keys \in SetToSeqs(S) :
        \A i, j \in DOMAIN keys : i < j => Before(keys[i], keys[j])}

(***************************************************************************)
(* The reply is used if the status is 200, the request was a 'latest' of   *)
(* api.exchangerate.host, success is not false (NULL is not false) and the *)
(* base currency is registered.                                            *)
(***************************************************************************)
Replies == [status : {0, 200}, latest : BOOLEAN,
            success : {"true", "false", "null"}, base : BOOLEAN]

Accepts(r) ==
    r.status = 200 /\ r.latest /\ r.success # "false" /\ r.base

Begin(t) ==
    /\ pc[t] = "idle" /\ Cardinality(Running) < PoolSize
    /\ now' = [now EXCEPT ![t] = clock]
    /\ \E r \in Replies, S \in SUBSET Codes, bad \in SUBSET Codes :
         /\ bad \subseteq S /\ Cardinality(bad) <= 1
         /\ \/ /\ Accepts(r)
               /\ \E keys \in JsonbOrder(S) :
                    reply' = [reply EXCEPT ![t] =
                      [i \in DOMAIN keys |-> [code |-> keys[i],
                                              numeric |-> keys[i] \notin bad]]]
               /\ Goto(t, "next")
            \/ ~Accepts(r) /\ Goto(t, "ignored") /\ UNCHANGED reply
    /\ held' = [held EXCEPT ![t] = Holdings]
    /\ beside' = [u \in Txns |-> IF u = t THEN Running
                               ELSE IF u \in Running THEN beside[u] \cup {t}
                               ELSE beside[u]]
    /\ UNCHANGED <<currency, changes, rate, clock, pos, to, found, targets,
                   own>>

\* SELECT id INTO uCurrencyTo, then to_number, which raises on what is no
\* number; a key that is no registered code is skipped.
LookUp(t) ==
    /\ pc[t] = "next" /\ pos[t] <= Len(reply[t])
    /\ \/ /\ Holders(Quote(t).code) = {}
          /\ NextQuote(t)
          /\ UNCHANGED to
       \/ /\ Holders(Quote(t).code) # {} /\ Quote(t).numeric
          /\ \E i \in Holders(Quote(t).code) : to' = [to EXCEPT ![t] = i]
          /\ Goto(t, "select")
          /\ UNCHANGED pos
    /\ UNCHANGED <<context, rate, clock, now, reply, found, targets, own>>

BadNumber(t) ==
    /\ pc[t] = "next" /\ pos[t] <= Len(reply[t])
    /\ Holders(Quote(t).code) # {} /\ ~Quote(t).numeric
    /\ Fail(t)

\* Mutant: IF FOUND, without the comparison of the dates.
AnyPeriod(row, d) == TRUE

StartsAt(row, d) == row.vf = d

\* update_rate: SELECT ... INTO, one of the visible rows that cover now.
SelectPeriod(t) ==
    /\ pc[t] = "select"
    /\ LET ids == CoveringIds(Visible(t), to[t], now[t]) IN
         \/ \E id \in ids :
               /\ found' = [found EXCEPT ![t] = Visible(t)[id].vt]
               /\ Goto(t, IF StartsAt(Visible(t)[id], now[t]) THEN "refresh"
                                                              ELSE "close")
         \/ /\ ids = {}
            /\ found' = [found EXCEPT ![t] = Null]
            /\ Goto(t, "close")
    /\ UNCHANGED <<context, rate, clock, now, reply, pos, to, targets, own>>

\* Mutant: the current period is not closed.
NoRows(t) == {}

RowsToUpdate(t) == CoveringIds(Visible(t), to[t], now[t])

\* UPDATE public.rate ...: the statement's snapshot.
StartUpdate(t) ==
    /\ pc[t] \in {"refresh", "close"}
    /\ targets' = [targets EXCEPT ![t] = RowsToUpdate(t)]
    /\ Goto(t, IF pc[t] = "refresh" THEN "refreshing" ELSE "closing")
    /\ UNCHANGED <<context, rate, clock, now, reply, pos, to, found, own>>

\* The UPDATE locks a row and sets its value, if it still covers now.
RefreshRow(t, id) ==
    /\ pc[t] = "refreshing" /\ id \in targets[t] /\ Lockers(t, id) = {}
    /\ targets' = [targets EXCEPT ![t] = @ \ {id}]
    /\ LET row == Visible(t)[id] IN
         own' = IF Covers(row, now[t])
                THEN [own EXCEPT ![t] = Assign(@, id, [row EXCEPT !.val = t])]
                ELSE own
    /\ UNCHANGED <<context, rate, clock, pc, now, reply, pos, to, found>>

EndRefresh(t) ==
    /\ pc[t] = "refreshing" /\ targets[t] = {}
    /\ NextQuote(t)
    /\ UNCHANGED <<context, rate, clock, now, reply, to, found, targets, own>>

\* The UPDATE locks a row and closes its period at now.
ClosedKey(t, id) == <<PairOf(id), Visible(t)[id].vf, now[t]>>

CloseRow(t, id) ==
    /\ pc[t] = "closing" /\ id \in targets[t] /\ Lockers(t, id) = {}
    /\ LET row == Visible(t)[id] IN
       \/ /\ ~Covers(row, now[t])
          /\ targets' = [targets EXCEPT ![t] = @ \ {id}]
          /\ UNCHANGED <<context, rate, clock, pc, now, reply, pos, to, found,
                         own>>
       \/ /\ Covers(row, now[t])
          /\ KeyWaits(t, ClosedKey(t, id)) = {}
          /\ ~KeyTaken(t, id, ClosedKey(t, id))
          /\ targets' = [targets EXCEPT ![t] = @ \ {id}]
          /\ own' = [own EXCEPT ![t] =
                       Assign(@, id, [row EXCEPT !.vt = now[t]])]
          /\ UNCHANGED <<context, rate, clock, pc, now, reply, pos, to,
                         found>>
       \/ /\ Covers(row, now[t])
          /\ KeyWaits(t, ClosedKey(t, id)) = {}
          /\ KeyTaken(t, id, ClosedKey(t, id))
          /\ Fail(t)

\* INSERT INTO public.rate.
\* Mutant: coalesce(dtDateTo, max_date()) is left out.
NoDefault(d) == d

coalesce(d) == IF d = Null THEN MaxDate ELSE d

NewKey(t) == <<to[t], now[t], coalesce(found[t])>>

\* REFERENCES public.currency(id): it may have been deleted since LookUp.
\* Mutant: a table without the foreign key.
Unchecked(t) == TRUE

Referable(t) == Registry!RowsOf(to[t]) # {}

InsertPeriod(t) ==
    /\ pc[t] = "closing" /\ targets[t] = {}
    /\ KeyWaits(t, NewKey(t)) = {}
    /\ LET id == <<t, to[t]>> IN
       \/ /\ ~KeyTaken(t, id, NewKey(t)) /\ Referable(t)
          /\ own' = [own EXCEPT ![t] =
                Assign(@, id, [vf |-> now[t], vt |-> coalesce(found[t]),
                               val |-> t])]
          /\ NextQuote(t)
          /\ UNCHANGED <<context, rate, clock, now, reply, to, found,
                         targets>>
       \/ (KeyTaken(t, id, NewKey(t)) \/ ~Referable(t)) /\ Fail(t)

Commit(t) ==
    /\ pc[t] = "next" /\ pos[t] > Len(reply[t])
    /\ rate' = Over(own[t], rate)
    /\ own' = [own EXCEPT ![t] = Empty]
    /\ Goto(t, "done")
    /\ UNCHANGED <<context, clock, now, reply, pos, to, found, targets>>

(***************************************************************************)
(* A call that waits does so for the end of one other call: that has       *)
(* locked a row its UPDATE comes to, in whatever order it visits them, or  *)
(* that has the key it would write.  Of calls that wait for one another in *)
(* a circle, the server picks one and raises deadlock_detected in it.      *)
(***************************************************************************)
RowWaits(t, id) ==
    IF Lockers(t, id) # {} THEN Lockers(t, id)
    ELSE IF pc[t] = "closing" /\ Covers(Visible(t)[id], now[t])
         THEN KeyWaits(t, ClosedKey(t, id)) ELSE {}

Blockers(t) ==
    IF targets[t] # {} THEN UNION {RowWaits(t, id) : id \in targets[t]}
    ELSE IF pc[t] = "closing" THEN KeyWaits(t, NewKey(t)) ELSE {}

Deadlocked(S) == \A t \in S : Blockers(t) \cap S # {}

DeadlockDetected(t) ==
    /\ \E S \in SUBSET Running : t \in S /\ Deadlocked(S)
    /\ Fail(t)

\* The connection or the server goes away: the transaction is rolled back.
ConnectionLost(t) == t \in Running /\ Fail(t)

Tick ==
    /\ clock < MaxClock /\ clock' = clock + 1
    /\ UNCHANGED <<context, rate, pc, now, reply, pos, to, found, targets,
                   own>>

(***************************************************************************)
(* Other sessions change the registry, in transactions of one statement.   *)
(* A row inserted by a running call holds its currency FOR KEY SHARE:      *)
(* deleting it, or changing its code, which has a unique index, waits for  *)
(* the call.  RESTRICT refuses to delete a currency of a committed row.    *)
(***************************************************************************)
KeyShared ==
    {PairOf(id) : id \in (UNION {DOMAIN own[t] : t \in Txns}) \ DOMAIN rate}

Referenced == {PairOf(id) : id \in DOMAIN rate}

ChangeRegistry ==
    /\ changes < MaxChanges /\ changes' = changes + 1
    /\ \/ \E c \in Codes : Registry!add_currency(c)
       \/ \E i \in Ids \ KeyShared, c \in Codes :
             Registry!update_currency(i, c)
       \/ \E i \in Ids : Registry!DeleteCurrency(i, Referenced \cup KeyShared)
    /\ held' = [t \in Txns |-> held[t] \cup IF t \in Running THEN Holdings'
                                                            ELSE {}]
    /\ UNCHANGED <<beside, rate, clock, pc, now, reply, pos, to, found,
                   targets, own>>

-----------------------------------------------------------------------------
Row == [vf : 0 .. MaxDate, vt : 0 .. MaxDate, val : Txns \cup {"seed"}]
IsTable(f) == \A id \in DOMAIN f : PairOf(id) \in Pairs /\ f[id] \in Row

(***************************************************************************)
(* The tables the calls may find are those earlier calls leave: where a    *)
(* period ends another starts, and every later instant is covered by a     *)
(* period that starts no earlier.  Two rows may cover one instant.  The    *)
(* currencies of the rows are registered.                                  *)
(***************************************************************************)
LeftByCalls(tab) ==
    \A id \in DOMAIN tab :
        /\ id[1] \notin Txns /\ tab[id].val \notin Txns
        /\ \E k \in Installed : k.id = PairOf(id)
        /\ tab[id].vf <= tab[id].vt /\ tab[id].vf < MaxDate
        /\ \/ tab[id].vt = MaxDate
           \/ \E k \in DOMAIN tab :
                 PairOf(k) = PairOf(id) /\ tab[k].vf = tab[id].vt
        /\ \A x \in tab[id].vf .. MaxDate - 1 :
              \E k \in CoveringIds(tab, PairOf(id), x) :
                 tab[id].vf <= tab[k].vf

ASSUME SeedsAssumption == \A tab \in Seeds : IsTable(tab) /\ LeftByCalls(tab)

Init ==
    /\ currency = Installed /\ changes = 0
    /\ held = [t \in Txns |-> {}] /\ beside = [t \in Txns |-> {}]
    /\ rate \in Seeds
    /\ clock = 1
    /\ pc = [t \in Txns |-> "idle"]
    /\ now = [t \in Txns |-> 0]
    /\ reply = [t \in Txns |-> <<>>]
    /\ pos = [t \in Txns |-> 1]
    /\ to = [t \in Txns |-> NoId]
    /\ found = [t \in Txns |-> Null]
    /\ targets = [t \in Txns |-> {}]
    /\ own = [t \in Txns |-> Empty]

Step(t) ==
    \/ LookUp(t) \/ BadNumber(t) \/ SelectPeriod(t) \/ StartUpdate(t)
    \/ \E id \in targets[t] : RefreshRow(t, id) \/ CloseRow(t, id)
    \/ EndRefresh(t) \/ InsertPeriod(t) \/ Commit(t) \/ DeadlockDetected(t)

Next ==
    \/ Tick \/ ChangeRegistry
    \/ \E t \in Txns : Begin(t) \/ Step(t) \/ ConnectionLost(t)

Spec == Init /\ [][Next]_vars /\ \A t \in Txns : WF_vars(Step(t))
-----------------------------------------------------------------------------
(***************************************************************************)
(* Types of the state.                                                     *)
(***************************************************************************)
TypeOK ==
    /\ IsTable(rate) /\ \A t \in Txns : IsTable(own[t])
    /\ clock \in 1 .. MaxClock
    /\ pc \in [Txns -> Ends \cup {"idle", "next", "select", "refresh",
                                  "refreshing", "close", "closing"}]
    /\ now \in [Txns -> 0 .. MaxClock]
    /\ reply \in [Txns -> Seq([code : Codes, numeric : BOOLEAN])]
    /\ currency \subseteq Registry!Currency /\ changes \in 0 .. MaxChanges
    /\ held \in [Txns -> SUBSET (Codes \X (Ids \cup {NoId}))]
    /\ beside \in [Txns -> SUBSET Txns]
    /\ pos \in [Txns -> Nat] /\ to \in [Txns -> Ids \cup {NoId}]
    /\ found \in [Txns -> 0 .. MaxDate \cup {Null}]
    /\ \A t \in Txns : targets[t] \subseteq DOMAIN Visible(t)

(***************************************************************************)
(* At no instant do two rows give a rate of one pair: the reader of the    *)
(* current rates sees each pair once, and get_rate is a function.  It      *)
(* holds when callbacks run one at a time (PoolSize = 1) and not otherwise.*)
(***************************************************************************)
Overlap(i, j) ==
    /\ i # j /\ PairOf(i) = PairOf(j)
    /\ rate[i].vf < rate[j].vt /\ rate[j].vf < rate[i].vt

OneRate == \A i, j \in DOMAIN rate : ~Overlap(i, j)

(***************************************************************************)
(* A pair has two rates for an instant only by a race: of two rows that    *)
(* overlap, the one that starts last, if a call wrote it, was written      *)
(* beside the call that wrote the other.  No call's period begins within   *)
(* one it found, or one of a call that had ended.                          *)
(***************************************************************************)
OverlapNeedsRace ==
    \A i, j \in DOMAIN rate :
        Overlap(i, j) /\ rate[i].vf <= rate[j].vf /\ j[1] \in Txns
        => i[1] \in beside[j[1]]

(***************************************************************************)
(* However calls interleave, wait, fail or lose their connection, a pair   *)
(* that has a rate has one at every later instant: a close that commits    *)
(* comes with the period that takes over.                                  *)
(***************************************************************************)
NoGap ==
    \A id \in DOMAIN rate : \A x \in rate[id].vf .. MaxDate - 1 :
        CoveringIds(rate, PairOf(id), x) # {}

(***************************************************************************)
(* No period ends before it starts, although an UPDATE that waited acts on *)
(* a row other than the one its statement, or the SELECT before it, saw.   *)
(***************************************************************************)
PeriodsOrdered == \A id \in DOMAIN rate : rate[id].vf <= rate[id].vt

(***************************************************************************)
(* A committed call's quotes stay in the table: for a currency that held   *)
(* the quote's code during the call, a period starts at the instant of the *)
(* call and has its value, or that of a call made then or later.  No lost  *)
(* update, for all the staleness of SELECT INTO.  Later calls count        *)
(* because a refresh sets every row that covers its instant, and of two    *)
(* rows that do one may have started before: see README.                   *)
(***************************************************************************)
RateKept(t, i) ==
    \E id \in CoveringIds(rate, i, now[t]) :
        /\ rate[id].vf = now[t]
        /\ LET u == rate[id].val IN u \in Txns /\ now[u] >= now[t]

QuoteKept ==
    \A t \in Txns : pc[t] = "done" =>
        \A n \in DOMAIN reply[t] : \E i \in Ids \cup {NoId} :
            <<reply[t][n].code, i>> \in held[t] /\ (i # NoId => RateKept(t, i))

(***************************************************************************)
(* The currencies of committed rates are registered, although a currency   *)
(* may be deleted between the lookup of its code and the INSERT.           *)
(***************************************************************************)
RatesRegistered == \A id \in DOMAIN rate : Registry!RowsOf(PairOf(id)) # {}

(***************************************************************************)
(* Calls lock the pairs in the order of jsonb's keys, so they can deadlock *)
(* only over two rows of one pair that cover the same instant: never while *)
(* the table has one rate per pair and instant, unless the registry has    *)
(* changed under one of them, so that the order of the codes is not that   *)
(* of the currencies.                                                      *)
(***************************************************************************)
Undisturbed(t) == held[t] = Holdings

DeadlockNeedsOverlap ==
    OneRate => \A S \in (SUBSET {t \in Running : Undisturbed(t)}) \ {{}} :
                  ~Deadlocked(S)

(***************************************************************************)
(* A call that started ends: no wait for a row or a key is for ever.       *)
(***************************************************************************)
CallsEnd == \A t \in Txns : t \in Running ~> pc[t] \in Ends

(***************************************************************************)
(* Callbacks that run one at a time: a call that commits publishes all the *)
(* quotes of its reply at its Now(), in one step of the rate history, and  *)
(* no other step changes the history, that of a failing call included.     *)
(* Each quote goes to a currency that held its code at some time of the    *)
(* call, whatever was renamed meanwhile, and nothing else is published.    *)
(***************************************************************************)
StartingAt(p, d) == {id \in DOMAIN rate : PairOf(id) = p /\ rate[id].vf = d}

histOf == [p \in Pairs |-> [d \in 0 .. MaxDate - 1 |->
              IF StartingAt(p, d) = {} THEN "none"
              ELSE rate[CHOOSE id \in StartingAt(p, d) : TRUE].val]]

History == INSTANCE RateHistory
             WITH hist <- histOf, Values <- Txns, NoRate <- "none"

Placements(t) ==
    {f \in [DOMAIN reply[t] -> Ids \cup {NoId}] :
        \A n \in DOMAIN f : <<reply[t][n].code, f[n]>> \in held[t]}

PublishesAll(t) ==
    \E f \in Placements(t) :
        History!Publish([p \in Pairs |-> IF p \in Range(f) THEN t ELSE "none"],
                        now[t])

Commits(t) == pc[t] = "next" /\ pc'[t] = "done"

CallPublishesWhole ==
    [][/\ \A t \in Txns : Commits(t) => PublishesAll(t)
       /\ (\A t \in Txns : ~Commits(t)) => UNCHANGED histOf]_vars
=============================================================================
