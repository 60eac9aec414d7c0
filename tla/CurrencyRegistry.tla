-------------------------- MODULE CurrencyRegistry --------------------------
(***************************************************************************)
(* The table public.currency and its functions (db/sql/public/currency),   *)
(* over a variable the including module declares.  A row is the id and the *)
(* code of a currency; its name, which no statement compares, is left out. *)
(* An action is a call that succeeds: one that raises an error, or updates *)
(* no row, leaves the table as it is.                                      *)
(***************************************************************************)
CONSTANTS Ids,       \* values of uuid
          Codes,     \* codes of currencies
          NullCode   \* NULL given as a code

VARIABLE currency    \* the rows of public.currency

Currency == [id : Ids, code : Codes]
Entry(i, c) == [id |-> i, code |-> c]
RowsOf(i) == {k \in currency : k.id = i}

-----------------------------------------------------------------------------
\* UNIQUE INDEX (code), for a row with code c put in the place of rows old.
\* Mutant: an index that is not unique.
AnyCode(c, old) == TRUE

CodeFree(c, old) == \A k \in currency \ old : k.code # c

\* new_currency: NOT NULL, PRIMARY KEY and the unique index.
new_currency(i, c) ==
    /\ c # NullCode /\ RowsOf(i) = {} /\ CodeFree(c, {})
    /\ currency' = currency \cup {Entry(i, c)}

\* add_currency: gen_random_uuid() is an id no row has.
add_currency(c) == \E i \in Ids : new_currency(i, c)

coalesce(c, d) == IF c = NullCode THEN d ELSE c

\* update_currency: NOT NULL and the unique index hold for an UPDATE too.
update_currency(i, c) ==
    \E k \in RowsOf(i) :
        /\ coalesce(c, k.code) # NullCode
        /\ CodeFree(coalesce(c, k.code), {k})
        /\ currency' =
              (currency \ {k}) \cup {[k EXCEPT !.code = coalesce(c, @)]}

\* DELETE by a session of the owner: referenced ids are kept (RESTRICT).
Restricted(i, referenced) == i \notin referenced

DeleteCurrency(i, referenced) ==
    /\ RowsOf(i) # {} /\ Restricted(i, referenced)
    /\ currency' = currency \ RowsOf(i)

get_currency_id(c) == {k.id : k \in {r \in currency : r.code = c}}
=============================================================================
