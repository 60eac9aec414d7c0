----------------------------- MODULE RatesView -----------------------------
(***************************************************************************)
(* The tables public.currency and public.rate together: the foreign keys   *)
(* of rate, and the view public.rates, which shows the rates under the     *)
(* codes of their currencies.  Currencies are registered, renamed and      *)
(* deleted between the calls of update_rate.                               *)
(***************************************************************************)
EXTENDS RateTable

CONSTANTS Ids, Codes, NullCode,   \* see CurrencyRegistry
          Installed               \* the rows currency/init.sql inserts

VARIABLE currency

Registry == INSTANCE CurrencyRegistry

ASSUME ViewAssumption ==
    /\ Pairs \subseteq Ids \X Ids
    /\ NullCode \notin Codes
    /\ Installed \subseteq Registry!Currency
    /\ \A k, l \in Installed : k.id = l.id \/ k.code = l.code => k = l

registryVars == <<rate, currency>>

-----------------------------------------------------------------------------
\* REFERENCES public.currency(id): checked for the row update_rate inserts.
Registered(p) == Registry!RowsOf(p[1]) # {} /\ Registry!RowsOf(p[2]) # {}

\* The ids the rows of public.rate refer to.
Referenced == UNION {{r.pair[1], r.pair[2]} : r \in rate}

UpdateRate(p, v, d) ==
    /\ AllowEarlier \/ NotBeforeFirst(p, d)
    /\ Registered(p)
    /\ update_rate(p, v, d)
    /\ UNCHANGED currency

ChangeRegistry ==
    /\ \/ \E i \in Ids, c \in Codes : Registry!new_currency(i, c)
       \/ \E c \in Codes : Registry!add_currency(c)
       \/ \E i \in Ids, c \in Codes \cup {NullCode} :
             Registry!update_currency(i, c)
       \/ \E i \in Ids : Registry!DeleteCurrency(i, Referenced)
    /\ UNCHANGED rate

ViewInit == Init /\ currency = Installed

ViewNext ==
    \/ \E p \in Pairs, v \in Values, d \in Dates : UpdateRate(p, v, d)
    \/ ChangeRegistry

ViewSpec == ViewInit /\ [][ViewNext]_registryVars

-----------------------------------------------------------------------------
(***************************************************************************)
(* VIEW public.rates: rate joined with the rows of its two currencies.     *)
(***************************************************************************)
Joined(r, a, b) == [row |-> r, from |-> a, to |-> b]

rates ==
    {w \in {Joined(r, a, b) : r \in rate, a \in currency, b \in currency} :
        w.from.id = w.row.pair[1] /\ w.to.id = w.row.pair[2]}

\* SELECT * FROM rates WHERE validFromDate <= x AND validToDate > x.
Listing(x) == {w \in rates : w.row.vf <= x /\ x < w.row.vt}

-----------------------------------------------------------------------------
(***************************************************************************)
(* The listing of the rates at an instant tells what get_rate tells, for   *)
(* whatever renaming, deleting and registering came before: the rate of    *)
(* every pair is listed, a pair of codes is listed once, and its value is  *)
(* get_rate of the currencies that have these codes now.                   *)
(***************************************************************************)
ListedUnderCode(w, x) ==
    \E i \in Registry!get_currency_id(w.from.code),
       j \in Registry!get_currency_id(w.to.code) :
          w.row.val \in get_rate(<<i, j>>, x)

ListingIsGetRate ==
    \A x \in Dates :
        /\ \A p \in Pairs : get_rate(p, x) # {} =>
              \E w \in Listing(x) : w.row.pair = p
        /\ \A w, u \in Listing(x) :
              w.from.code = u.from.code /\ w.to.code = u.to.code => w = u
        /\ \A w \in Listing(x) : ListedUnderCode(w, x)
=============================================================================
