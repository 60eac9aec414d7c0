# Verification of apostol

TLA+ models of the parts of [apostol](https://github.com/apostoldevel/apostol)
whose behaviour depends on order, concurrency or failure, the TLC runs that
check them on small instances, and proofs, checked by TLAPS, for every instance.

Apostol is a template for libapostol applications. The framework and the modules
PGHTTP, WebServer and PGFetch are git submodules, so their sources are not in
this repository. What the repository itself decides is:

- the SQL that keeps currencies and exchange rates, and the callbacks that
  publish rates,
- the scripts that install the database, deploy, start, stop and upgrade the
  server, and the Docker environment around it,
- the start-up wiring of the processes, and the documentation page they serve,
- minimal servers for benchmarks.

## 1. Inventory

| Component (source) | State | Operations | Modules |
|---|---|---|---|
| Rate table (`db/sql/public/rate/{table,routine,view}.sql`) | rows of `public.rate`: pair, value, half-open period | `update_rate`, `get_rate`, the view `public.rates` | `RateHistory`, `RateTable`, `RatesView` |
| Currency registry (`db/sql/public/currency`) | `public.currency`, unique ids and codes | `new_currency`, `add_currency`, `update_currency`, `get_currency_id`, a DELETE | `CurrencyRegistry` |
| Exchange-rate callbacks (`db/sql/public/rate/callback.sql`) | one transaction per call: `Now()`, position in the reply, uncommitted rows, locks | `exchange_rate_done`, `exchange_rate_fail` (a notice) | `ExchangeCallback` |
| Database installer (`db/install.sh`, `db/runme.sh`, `db/sql/*.psql`) | the databases `web` and `template1`, the role, open connections | `--init`, `--install`, `--create`, `--database`, `--update` | `DbInstall` |
| Init script (`auto/daemon`) | pid files `$PID` and `$PID.oldbin`, configuration | `start`, `stop`, `restart`, `reload`, `configtest`, `rotate`, `upgrade` | `InitScript` |
| Deploy script and unit (`deploy`, `auto/unit.service`) | build directory, installed binary, unit active/enabled | full deploy, `--update`, `--build-only` | `Deploy` |
| Docker environment (`docker-compose.yaml`, `docker/entrypoint.sh`, `docker-*.sh`) | containers, the volume of postgres, `retries` | up, down, new database; start, wait, restart, crash | `Compose` |
| Application processes (`src/app/main.cpp`, `src/modules/{Workers,Helpers}`) | pool, registered modules | `on_worker_start`, `on_helper_start` | `Application` |
| Documentation page (`www/index.html`, `www/swagger-initializer.js`) | scripts fetched, globals, the handler of the load event | loading the page, fetching the definition | `DocPage` |
| Benchmark servers and load generator (`benchmark/`) | database pool, open requests | ping, time, database variants | not modelled |
| libapostol, PGHTTP, WebServer, PGFetch, schema `http` | - | - | submodules, absent here |
| Build system, configuration, documents, unit tests | - | - | no run-time state of their own |

How they interact. A session inserts a request with `http.fetch`; the helper
process (PGFetch) is told by LISTEN/NOTIFY, makes the HTTP request, and calls
`exchange_rate_done` or `exchange_rate_fail` on a connection of its pool, up to
ten of which run callbacks at once. `exchange_rate_done` looks every key of the
reply up in the registry, which other sessions may be changing, and calls
`update_rate` for those it finds; readers use `get_rate` and the view
`public.rates`. The pools reconnect whenever they can, also while the installer
rebuilds the database below them. The init script and the deploy script, or
Docker, start and stop the server; none of them knows about the others. In
Docker, the processes come and go with their container, and a browser that loads
the documentation page meets whatever serves at each of its requests.

What is hard, and the properties that make it right:

| Behaviour | Property |
|---|---|
| `update_rate` splits and refreshes periods in any order of dates | `NoOverlap`, `NoGap`, `CallSetsOnePoint`, `ImplementsHistory`, `GetRateIsHistory` |
| codes are renamed, freed and given to other currencies while rates refer to them | `ListingIsGetRate`, `RatesRegistered`, `CallPublishesWhole` |
| statements of concurrent callbacks interleave; each statement sees newer rows than the one before it | `NoGap`, `PeriodsOrdered`, `QuoteKept`, `OneRate`, `OverlapNeedsRace` |
| a quote in the middle of a reply is no number, a connection is lost | `CallPublishesWhole`, `NoGap` |
| callbacks wait for rows and keys of one another | `DeadlockNeedsOverlap`, `CallsEnd` |
| masters start, fork, hang and crash while a script waits for their pid files | `RestartKeepsService`, `UpgradeKeepsService`, `UpgradeStopsOld`, `StopWins` |
| a step of a deploy fails; two deploys overlap | `DeployInstallsSources`, `DeployRunsInstalled`, `NotReplacedUnderService`, `UpdateRestarts` |
| clients come and go, statements fail, and psql goes on | `LostUnlessInUse`, `DataLostAsWarned`, `UpdateKeepsData` |
| containers start in any order and crash; the entry point gives up | `BackendRuns`, `NewDatabaseIsNew` |
| what a process registers depends on what it had set up before | `ConfiguredModulesWork` |
| a page is loaded in several requests from a server that comes and goes | `DocumentationShown` |

The full list of hazards, each at its line, is in `PROJECT.json`.

## 2. The modules

### RateHistory - the promise
For each pair, a step function of time: `hist[p][d]` is the value that starts at
instant `d`. `Publish` sets the change point `d` of several pairs in one step;
`RateAt(p, x)` is the value of the last change point not after `x`.

### RateTable - update_rate and get_rate, one call at a time
`rate` is the set of rows. `Covering` is the WHERE clause all the statements
share. `update_rate` is a disjunction of the three ways through the function:
`RefreshPeriod` (a row starts at the date: its value is replaced), `SplitPeriod`
(the covering row is closed at the date, and the new one takes over its end) and
`FirstPeriod` (nothing covers the date: the period reaches to `max_date()`). A
violation of the unique index raises an error, and the call does nothing. SELECT
INTO takes any one of several rows, which is an `\E` here.

The refinement to `RateHistory` reads each row as a change point at its
`validFromDate` (`histOf`).

`AllowEarlier` says whether a caller may date a rate before the first period of
its pair. The only caller in the repository uses `Now()`, so the properties are
checked and proved with it FALSE; `rate_table_earlier` shows what happens
otherwise.

### CurrencyRegistry, RatesView - codes and ids
`CurrencyRegistry` has the functions of `public.currency` as actions over a
variable of the module that includes it. `RatesView` puts it beside `RateTable`:
currencies are registered, renamed and deleted between calls of `update_rate`,
the foreign keys refuse rates of unknown currencies and deletions of used ones,
and `Listing(x)` is the query of the article over the view at instant `x`.

### ExchangeCallback - concurrent callbacks
Every call is a PostgreSQL transaction at READ COMMITTED. An action is one
statement, or one row of an UPDATE:

| Action | Code |
|---|---|
| `Begin` | transaction start, `Now()`, the row of `http.fetch`, parsing, the early returns (`callback.sql:22-38`) |
| `LookUp`, `BadNumber` | the lookup of the target currency, which may find none, and `to_number` (`callback.sql:41-43`) |
| `SelectPeriod` | `SELECT ... INTO` and `IF FOUND AND pDateFrom = dtDateFrom` (`routine.sql:24-31`) |
| `StartUpdate`, `RefreshRow`, `EndRefresh`, `CloseRow` | the two UPDATEs: snapshot, then row by row lock, recheck, change (`routine.sql:33-44`) |
| `InsertPeriod` | the INSERT with `coalesce(dtDateTo, max_date())`, the unique index and the foreign key (`routine.sql:46-47`) |
| `Fail`, `Commit` | `EXCEPTION WHEN others`, end of the call |
| `ChangeRegistry` | another session calls `add_currency` or `update_currency`, or deletes a currency, between two statements |

External, from PostgreSQL's documented behaviour: which rows a statement sees
(`Visible`), that a writer waits for the last writer of a row and then rechecks
the WHERE clause, that an INSERT or a key-changing UPDATE waits for an
uncommitted equal key and fails on a committed one, that an inserted row holds
its currency until the transaction ends (`KeyShared`), that the deadlock detector
fails one call of a cycle, and that a lost connection rolls back. jsonb stores
object keys in one fixed order, so all calls go through the pairs in the same
order (`JsonbOrder`). Values are abstracted to the transaction that published
them, so a lost update shows. `held` records which currencies a code had while a
call ran, and `beside` the other calls that ran at some time while it did; they
are only read by properties.

### InitScript
The script is sequential: `Invoke` chooses the command, `FirstStep` applies the
configuration test of `restart` and `reload`, the other actions are the
functions `do_*`, with every return value and what is reported for it. The
masters run beside it: they write their pid file when they like, rename it and
fork on USR2, exit some time after QUIT or TERM, or never, or crash and leave
their pid file behind. What a master does with a signal is external. Pids are
not reused. The configuration may be edited at any time, also between the test
of `restart` (`auto/daemon:147`) and the start (`:156`); `edited` records it.

Every reading of a pid file is a step of its own. `do_upgrade` sends USR2 to what
`$PID` holds, then tests `$PID.oldbin` (`TestOld`) and, if that is not empty,
`$PID` (`TestNew`), sleeping and starting over while one is missing (`Poll`); at
last another process, start-stop-daemon, reads `$PID.oldbin` again and sends QUIT
to the master it finds there (`QuitOld`). Masters move between any two of these.

`served`, `hung` and `leftover` remember what the host was like when the command
was given: whether a master was up, which masters had outlived the KILL of an
earlier command, and whether `.oldbin` held a master that was no longer up.
`STOP_SCHEDULE` is the script's own default; `/etc/default/apostol` can set
another one.

### Deploy
Each run of `./deploy` goes through the steps of its branch (`StepsOf`); a
`systemctl stop`, build, installation or `systemctl start` that fails ends it
(`set -e`), and may have done its work all the same. Source, build directory,
binary and unit are shared by all runs. A binary is the version of the sources it
was built from. `cmake --build` is two steps: it begins to read the sources
(`build_project`), and some time later it writes the binary (`Link`), with
whatever version it met from then on; cmake is taken to compile all that changed
since it did so last. `alone` records that no other run overlapped this one.

### DbInstall
`install.sh` starts psql in `template1` with the script of its option; `Program`
is the sequence of statements after includes. A statement that fails changes
nothing and psql goes on; a failed `\connect` ends the script. Clients connect
when the database and the role exist, at any moment, and write. A row is the
number of the run in whose time it was written, which is what tells old data from
new. `inUse` remembers which clients the last DROP DATABASE found connected.

### Compose, Application, DocPage, and Site over them
`Compose` has `docker_up`, `docker_down` and `docker-new-database.sh` (in its
three steps), the restart policy, the wait loop of `entrypoint.sh` with its
counter, and the images: postgres loads the schema only into an empty volume;
pgbouncer, which `.env` makes the target of `pg_isready`, answers by itself.

`Application` says which modules a worker and a helper register when they start,
given the configuration and whether a pool has been set up, and which module a
request reaches. A helper without a conninfo of its own has the worker's
(`Conninfo`, after `tests/unit/test_settings.cpp:257`). `DocPage` is the load of `www/index.html` in a browser: scripts
one by one, the load event with the handler that was assigned last, and the
definition that handler fetches.

`Site` composes the three: processes start once the entry point has reached its
last line and vanish with their container, and every request of the page meets
the state of that moment (`Doc == INSTANCE DocPage WITH served <- App!Served`).

`MC*` modules hold the constants of the runs. Definitions introduced by a
comment `Mutant:` are variants of the definition that follows, each with a
plausible bug; a property is kept only if some variant of the code breaks it
under the same configuration.

## 3. Runs

Sizes are distinct states.

| Run | Instance | Shows |
|---|---|---|
| `rate_table` | 3 currencies, 4 codes, 2 pairs, 2 values, 3 instants; 9 121 | periods stay a partition of time; the table with `get_rate` implements the history; a call sets one change point; the listing is `get_rate` under the codes of now |
| `rate_table_earlier` | 4 instants, any date | **refutes** `NoOverlap`: a rate dated before the first period reaches to `max_date()` over the existing ones |
| `callback_concurrent` | 2 calls at once, 2 codes, 3 ticks; empty, good and doubled tables; 285 201 | no gap, no period that ends before it starts, no committed quote lost, deadlock only over overlapping periods while the registry stays as it is, no overlap but between calls that ran side by side, every call ends |
| `callback_serial` | 2 calls, 1 connection, 2 codes of which one is registered at first, 2 changes of the registry; 1 279 857 | a committed call is one step of the history with all its quotes; any other step changes nothing; no rate of a deleted currency |
| `callback_overlap` | 2 calls, 1 pair with a rate | **refutes** `OneRate` for concurrent calls |
| `init_script` | 4 masters, 4 commands, 2 polls; 257 753 | restart and upgrade keep the service; stop gets rid of its target |
| `init_script_upgrade` | the same | **refutes** `UpgradeStopsOld`: an upgrade after one that gave up, or during its drain |
| `deploy` | 2 runs, 2 changes of the sources; 246 424 | what a successful deploy leaves behind that no other one overlapped |
| `deploy_update` | 1 run | **refutes** `UpdateRestarts`: active but not enabled |
| `compose` | 2 probes, 3 scripts, 2 crashes, 3 configurations; 203 016 | the backend runs in the end, with the modules its configuration allows; a recreated database is new; a reader who reloads sees this server's definition |
| `db_install` | 2 clients, 2 runs; 5 112 | a rebuild that succeeds, and whose DROP found nobody connected, is complete and has no old row; update loses nothing |
| `db_install_reconnect` | the same | **refutes** `DataLostAsWarned`: a client connects before the DROP |

Why the bounds are enough. A period is split between two others with three
instants; two calls make every pairwise interleaving of statements, and three
ticks give each call a `Now()` equal to, before or after the other's and the
seeds'. Two pairs are what a lock-order deadlock needs; the doubled table is
what a deadlock over one pair needs. With one code, the safety properties of
`callback_concurrent` were also checked for three calls, two of them at once
(1 879 311 states), and
`QuoteKept` for four on an empty table (1 620 457); the proofs of section 5 are
for any number. Two changes of the registry let a code move from one currency to
another during a call; a fourth code lets three currencies exchange theirs. In
`InitScript` an upgrade during an upgrade needs three masters, the fourth lets a
restart follow; four commands are what the scenario behind `hung` needs (start,
upgrade, stop, upgrade); ten polls differ from two only in the number of waits,
likewise the probes of the entry point. When all masters have been used up,
`do_start` and `HandleUsr2` are no longer enabled: that is the bound
`MaxMasters`, not the script. In `DbInstall` the second run finds what the first
one left. `MaxDate` bounds time as `max_date()` does in the code. Workers are
alike, so `Application` has one.

Deadlock checking is off where the system stops by itself: the clock, the
number of calls and the commands given are bounded.

Premises that a reader should know of:

- `UpgradeKeepsService` excepts a master that had outlived a KILL when the
  command was given (`target \notin hung`). After `start`, an `upgrade` that
  gives up, and a `stop` whose target, the new master, does not die, `$PID` names
  that dying master and `$PID.oldbin` the one that serves; the next `upgrade`
  sends USR2 to the first and QUIT to the second.
- `UpgradeKeepsService` also excepts an upgrade that finds a draining or dead
  master in `$PID.oldbin` (`~leftover`). There the test of `.oldbin` passes at
  once, and that of `$PID` too; if the master in `$PID` handles its USR2 between
  those tests and the QUIT, it is the one `.oldbin` holds when QUIT is sent, and
  its successor may not be up yet, or have refused its configuration. Without the
  premise TLC finds this order of steps, in which nothing crashes and no server
  is left.
- `RestartKeepsService` excepts a restart during which the configuration is edited
  (`edited`): it is tested before the stop, and read again after it.
- The three properties of successful deploys leave out runs that another run
  overlapped (`alone`): a build that began before an edit may link after one that
  began later, and the service may be started between the stop and the
  installation of another run. Nothing in the script prevents either.
- `DataLostAsWarned` is about `--init`, `--install` and `--database`. `--create`
  carries the same `[*]` (`db/install.sh:56`), but works on `template1` and loses
  nothing in `web`. `LostUnlessInUse` says that a client connected at the DROP is
  the only thing that defeats the warning for the other three.
- `QuoteKept` lets the value of a *later* call stand in the period of a committed
  one. With three calls at once that happens: over a table with overlapping
  rows, a refresh sets every row that covers its instant, and one of them may
  have started earlier. It is a consequence of the overlap that
  `callback_overlap` finds; the period itself stays, and no older value returns.
- `DeadlockNeedsOverlap` is about calls during which the registry has not changed
  (`Undisturbed`). A code that moves to another currency between the lookups of
  two calls makes the order of the codes, which both follow, differ from the
  order of the currencies they lock: with three codes, two calls then wait for
  each other over pairs that have one rate each. With one change of the registry
  the property was checked for three codes on another instance (614 932
  states).
- A row of `ExchangeCallback` is known by the call and the currency that inserted
  it. A call that inserts twice for one currency (its reply has two codes, a
  rename moved the currency from the first to the second in the middle of the
  call, and another row of it appeared) keeps one row of the two: the one dropped
  is the period it has just closed at its own start, which covers no instant. In
  the code the key of that empty period stays taken.
- `DocumentationShown` is about a reader who keeps opening the page while the
  environment is left up: both are premises of the property, not fairness of the
  specification.

### What the code does otherwise than its texts say
1. `callback_overlap`: two callbacks for one base leave a pair with two current
   rates. The second UPDATE waits, finds the row closed, closes nothing, and the
   INSERT goes ahead. The article's query over `public.rates` then lists the
   pair twice, and `get_rate` returns either, until the next call closes both
   rows; for the instants before that call it stays so.
2. `rate_table_earlier`: the end of a first period ignores later periods.
3. `init_script_upgrade`: the wait of `do_upgrade` cannot tell its own pid files
   from those of an earlier upgrade, one that gave up on slow masters or whose old
   master still drains.
4. `deploy_update`: `service_stop` asks is-active, `service_start` is-enabled.
5. `db_install_reconnect`: terminate and drop are two statements, nothing stops
   clients in between, and psql goes on after the errors.

Met while modelling, each plain from its line, and so without a run: `upgrade`
reports success for every result (`auto/daemon:196`); `--create` works on
`template1` (`db/sql/create.psql`); the message of `docker/entrypoint.sh:89` is
unreachable, since `((retries=retries-1))` fails at 0 under `set -e`; the entry
point waits for pgbouncer and not for the database; a first start of postgres
that is interrupted leaves a volume that is never loaded; `www/swagger-initializer.js` is
installed with the page, and loaded by it would show another server's
definition.

## 4. Fairness

- `ExchangeCallback`: weak fairness of `Step(t)` for each call. The server goes
  on executing a statement that can proceed, and its deadlock detector runs after
  `deadlock_timeout`. Nothing is assumed of `Begin`, `Tick`, `ChangeRegistry` or
  `ConnectionLost`.
- `InitScript`: weak fairness of the script (it runs to its end, its waits are
  bounded by the schedule), and of the death of a master that was sent KILL. No
  fairness of masters: they need not react to QUIT, TERM or USR2.
- `Compose`: weak fairness of starting, loading, opening and probing, and of
  docker's restarts. Scripts and crashes are not fair, and bounded.
- `Site` adds weak fairness of the start of each process (the master forks them
  when it starts) and of a page that is being loaded. Nobody has to open one.
- The other specifications have safety and action properties only.

## 5. Proofs

Every theorem is for all values of the constants: any sets of pairs, values,
currencies, calls, clients, masters and deploys, and any bound.

`RateTableProofs`, under `~AllowEarlier`: `TypeCorrect`, `AtMostOneRate`
(`NoOverlap`), `AlwaysSomeRate` (`NoGap`), `TableImplementsHistory`
(`ImplementsHistory`), `CallCorrect` (`CallSetsOnePoint`), `GetRateCorrect`
(`GetRateIsHistory`). The inductive invariant is
`Periods == TypeOK /\ NoOverlap /\ NoGap`. None of the three is inductive alone:
that an insertion does not overlap needs that no period covers the date *and*
that none starts later, which `NoGap` gives; that nothing is left uncovered after
a split needs the row that was closed to be the only one, which `NoOverlap`
gives; that the periods are not empty is what makes "covers its own start" true.
`UpdateCases` reduces a call to a refresh, a cut of the one covering row, or the
first period of a pair; `RefreshedKeeps`, `CutKeeps` and `StartedKeeps` show that
each keeps `Periods`, and `RefreshedSets`, `CutSets` and `StartedSets` that each
changes one change point of `histOf`, from which the refinement follows.

The last part of the module is about `RatesView`: `ViewImplementsTable`, a
behaviour of `RatesView` without its registry is one of `RateTable`, so the above
holds with currencies that change; `ListingCorrect` (`ListingIsGetRate`), from
`RegistryInvariant`: ids and codes are keys, and the currencies of every row are
registered.

`ExchangeCallbackProofs`: `RatesGoOn` (`NoGap`), `NoBackwardPeriod`
(`PeriodsOrdered`), `ReferencesKept` (`RatesRegistered`), for any number of
concurrent calls, with failures at any statement.
A row never changes the instant it starts at, and the committed table never
loses a row, so `CallInv` is about starts: where a period ends, another one
starts; a call that has closed a row has written the period that starts there,
or is about to; no row is written by two calls; what a call remembers of its
SELECT is an instant at which some period starts. That every later instant is
covered by a period that starts *no earlier* is what survives when another call
closes the one that covered it, where "is covered" alone would not. `KeysHeld`
says that the currency of an uncommitted row cannot go, which `ReferencesKept`
needs.

The same module has `OverlapsAreRaces` (`OverlapNeedsRace`): the converse of what
`callback_overlap` finds. Calls that run side by side leave two rates for an
instant, and nothing else does: there is no premise on the table they find, which
may hold overlapping rows, nor on the number of calls. `RaceInv` says of a
running call that every call not beside it has a `Now()` that is no later
(`Meetings`), and that the rows of its pair that cover its own `Now()`, and were
not written by a call beside it, are those its UPDATE has still to visit, and
none once it has inserted its period (`Takeover`, `StillOpen`). A row that another
call commits meanwhile is one of a call beside it, or has become shorter, so none
is opened again.

`QuoteProofs`: `QuotesStand` (`QuoteKept`), for any number of concurrent calls.
`ValuesOK`: a row has its value from a call that began at its start or later,
because it is written only while it covers the writer's `Now()`; a call gives a
row its own value, or closes it at its `Now()` and leaves its value alone.
`CallQuotes`: of a quote it has dealt with, a running call still sees a period
that starts at its `Now()`, or is about to insert one. What another call commits
in between can close that period only if its `Now()` is the same, and then
`Succeeded` says that it commits a period from that instant in its place; the
row that a refresh found is there in the same sense (`Refreshes`). `Holdings`,
the holders of the codes, stay within what the call has seen of the registry.

The same module has `DeadlocksNeedOverlap` (`DeadlockNeedsOverlap`). `OrderInv`
adds to the above that the codes of every reply are in the order of `KeyOrder`,
that the codes and ids of the registry are keys, that what a call has written is
of a currency of a quote before the one it is at (`Earlier`), or a row the
running UPDATE has just changed (`AtHand`), and that an UPDATE visits only rows
that start at the call's `Now()` or before. A call that waits does so for a row
of its pair that another one has written (`BlockerWrote`), and that one is then
at the same pair or past it (`WriterIsPast`). In a circle of waiting calls, take
those furthest in the order of the codes: they are all at one pair, and each waits
for a row of it that another of them has written. Of these writers, take the one
with the least `Now()`: its own row covers that instant, the row it waits for
covers the `Now()` of the other, and without an overlap starts after its own
`Now()`, so that neither its UPDATE nor its INSERT comes to it (`NoWaitAtPair`).
That is where `OneRate`
enters, and `Undisturbed` where the code of a quote is taken back from its
currency (`QuoteOf`). `CallbackTypes` (`TypeOK`) collects the types from
`OrderInv`.

`SerialProofs`, under `PoolSize = 1`: `OneRateSerially` (`OneRate`),
`PublishedWhole` (`CallPublishesWhole`), `SerialImplementsHistory`. `SerialInv`
says that every row starts at `Now()` or before, so a row that does not cover
`Now()` has ended by then, and once the UPDATE has visited its rows the future is
free; it assumes an initial table without overlaps (`StartsSerial`).
`PublishedWhole` assumes that no period of it is empty either (`StartsWhole`),
which calls one at a time never leave, and concurrent ones may. `Whole` says of
the call that runs: a row that starts at its `Now()` is the only one of its pair
there (`OneAtNow`); the currencies of the rows it has written at `Now()` are
those its quotes up to now went to, and no other (`PlacedBy`); the other rows it
has changed have kept their start and value (`NewOrClosed`). At the commit this
is the step of the history (`CommitHistory`), with the whole reply, since `pos`
is past its end; the other steps leave `rate` alone.

`InitScriptProofs`: `TypeCorrect`, `RestartCorrect` (`RestartKeepsService`),
`UpgradeCorrect` (`UpgradeKeepsService`). The invariant follows the master named
in `$PID`: it got there by being up, and leaves that state only by a crash or by
a stop, which watches the master it signalled. `Upgrading` carries the two tests
over to the QUIT: whatever has been moved or written in between, `.oldbin` holds
a master that is up, and once the second test has passed two masters are.

`DeployProofs`: `TypeCorrect`, `DeployInstalls` (`DeployInstallsSources`),
`DeployRuns` (`DeployRunsInstalled`), `ReplacedOnlyWhenDown`
(`NotReplacedUnderService`). `Progress` follows a run on its own through the
version its build began to read, the one it linked and the one it installed, none
older than the sources the run began with; such a run keeps the service down
from its stop to its start. `OnlyRun`: while it is under way, no other run takes
a step.

`DbInstallProofs`: `TypeCorrect`, `UpdateCorrect` (`UpdateKeepsData`) and
`RebuildCorrect` (`LostUnlessInUse`). The invariant relates the statements still
to come to what the earlier ones, failed or not, have left. A DROP that finds
nobody connected succeeds, and no statement after it can fail, whoever connects
and writes meanwhile: what they write is of this run.

`SiteProofs`: `EnvironmentTypes` (`TypeOK`: no container runs that docker was not
told to run, and no database without a volume) and `RecreatedIsNew`
(`NewDatabaseIsNew`), by the lemma `SiteImplementsEnvironment`: the processes and
the page take no step of the environment's own. The era of the database is bounded by the number of scripts
begun, and newer than the one the script began with once it is past the volume.

Assumptions used: those of the modules (`TableAssumption`, `ViewAssumption`,
`CallbackAssumption`, `SeedsAssumption`, ...), which TLC evaluates in the runs.
`SeedsAssumption` says that the callbacks find a table that calls like them left
behind, with rows and values of calls that are over; the doubled table of the
runs satisfies it too. `KeysAssumption` says that jsonb has one order of the keys,
without repetitions. `CallbackAssumption` says, among others, that the ids and the
codes of the first currencies are unique, as the indexes of `public.currency`
demand.

Only model-checked: liveness (`CallsEnd`, `StopWins`, `BackendRuns`,
`ConfiguredModulesWork`, `DocumentationShown`), which needs ENABLED. Every
invariant and every action property of the runs that pass is a theorem.

## 6. Not modelled

- libapostol, PGHTTP, WebServer, PGFetch and the `http` schema: not in the
  repository. What they do is an assumption where the models touch it (callbacks
  run on several connections; pools reconnect; masters react to signals). For
  the same reason there is no model of the way from `http.fetch` over NOTIFY and
  the helper to the callback: all of its steps are in the submodules.
- In `Application`: a build without `WITH_POSTGRESQL`, the process modes
  `single` and standalone helper, workers that crash and are forked again, and
  whether a pool that was set up gets a connection.
- The benchmark servers: each hands an asynchronous query and the connection to
  a framework that is not here, and what happens then is the framework's. The
  benchmark scripts and the build system have no concurrent state.
- The Swagger UI bundles and `oauth2-redirect.html` are vendored; `DocPage` takes
  from the bundles the globals that the page uses. The definition has no security
  scheme that would open the redirect page.
- Formatting and parsing of SQL values: a quote is a number or is not.
- `set_env` and `init_app` of the entry point: they copy files before the wait.

## 7. What is left

1. A callback module with the repair (the pair locked before the SELECT), shown
   to implement `RateHistory` with concurrent calls, to be written when the code
   has it; `callback_serial` and `OneRateSerially` show the same of the present
   code with one connection.
2. `FetchPipeline`, when the submodules' sources are at hand.
