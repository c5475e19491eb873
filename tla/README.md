# Verification of open-sdbl

open-sdbl reads 1C:Enterprise bases without the platform: it connects to the
SQL Server or PostgreSQL database behind an application, decodes the
configuration stored there, and translates queries in the 1C query language
into SQL of that database.  This directory holds TLA+ models of it, the TLC
configurations that check them on small instances, and theorems proved with
TLAPS for every value of the constants.

1. [The system](#the-system)
2. [The models](#the-models)
3. [What the runs check](#what-the-runs-check)
4. [Fairness](#fairness)
5. [What is proved](#what-is-proved)
6. [Disagreements found](#disagreements-found)
7. [Assumptions and what is left out](#assumptions-and-what-is-left-out)
8. [Not modelled](#not-modelled)
9. [Plan](#plan)

Check a model with `tlc -workers 2 -config MsSqlGuarded.cfg MsSqlSession.tla`,
a proof with `tlapm MsSqlSessionProofs.tla`.  Paths below are relative to the
repository's root.

## The system

Three crates: `src/` is the compiler and the decoder (no I/O),
`crates/open-sdbl-db` talks to the databases (async, tokio), and
`crates/open-sdbl-cli` is the console.

| component | state it keeps | operations | what is hard | modules |
|---|---|---|---|---|
| session facade (`db/.../session.rs`, `DatabaseSession`) | which provider | begin, active, commit, rollback, query, cancel, acquisitions, close | any future may be dropped at any await; the caller has to be able to tell what is left | `ReadSession` |
| SQL Server session (`db/mssql`) | the TDS client, four flags, the probed layout | the same, over one stream of messages | a dropped future leaves the stream between two messages; cleanup has awaits that fail too | `MsSqlSession` |
| PostgreSQL session (`db/postgres`) | the explicit transaction's id, two flags, the connection task | the same, over a queue of requests | a dropped future withdraws nothing: its requests, and a ROLLBACK, run later; cancel requests race statements | `PostgresSession` |
| acquisition pipeline (`pipeline.rs`, `indexed.rs`, `metadata_inputs.rs`, `extensions.rs`) | rows under assembly, batches in flight, a byte semaphore, retained resources, an index of the extension store | read Config and Params under three plans, chosen resources, the bootstrap, extensions | batches decoded by blocking workers finish in any order and outlive a dropped read; the base changes between two statements | `ConfigDecode`, `MetadataCache`, `Extensions` |
| configuration cache (`metadata_cache.rs`) | names, object identifiers, decoded facts, bytes compressed and decoded | admit, resolve, resolve runtime facts, finalize | an admission refused at a limit keeps the facts accepted before it and leaves no trace of its own | `MetadataCache` |
| blocking driver (`blocking.rs`) | a session and its runtime | the session's operations, blocking | called and dropped on threads that drive a runtime themselves | `BlockingDriver` |
| access of a user (`access*.rs`, `restrict.rs` of the database crate, `access.rs` of the compiler and of the console) | users, rights of roles, the current user, derived and typed restrictions | `\as`, `\restrict`, `\rls`, `user_decisions`, `user_restrictions` | what was expanded for an earlier user, with earlier parameters, or by a command that failed half way; what several roles give together; a decision for every read | `ConsoleAccess`, `Restrictions`, `Decisions`, `RowChecks` |
| SOCKS5 client (`net/socks5.rs`) | the handshake | connect | answers arrive in pieces and tell their own length | `Socks5` |
| console (`repl/`) | session, metadata, temporary tables, parameters, presentation plans | statements, `\refresh`, Ctrl-C | what survives a reload or a cancelled statement; a session that dies in the middle | `Console`, `TempTables`, `ConsoleAccess` |
| start-up and output (`app.rs`, `args.rs`, `params.rs`) | none | parse, render | the way out | `Console` (the way out) |
| lexer (`lexer.rs`) | none | text to tokens | | none |
| parser and AST (`query/core/parser.rs`, `ast.rs`) | none | tokens to a tree | nested joins are flattened; ИТОГИ, packages | `Joins`, `Totals`, `TempTables` |
| resolution and generation (`query/core/resolve.rs`, `codegen`) | one compilation | tree to SQL | the meaning of the SQL | `Joins`, `Totals`, `Sources`, `Dereference`, `Comparisons`, `Resolution` |
| accumulation register tables (`codegen/virtual_tables.rs`, `windowed.rs`, `balance_temporal.rs`) | none; the register is in the database | Остатки, Обороты, ОстаткиИОбороты | totals plus a correction, ties in one second, running balances | `AccumulationTables` |
| accounting register tables (`codegen/accounting.rs`) | none; the register is in the database | Остатки, Обороты, ОстаткиИОбороты, ОборотыДтКт, ДвиженияССубконто | both sides of a record, extra dimensions by kind or by position | `AccountingTables` |
| temporary tables and packages (`temp_tables.rs`, `codegen/batch.rs`, `entry.rs`) | definitions, binding to a snapshot | ПОМЕСТИТЬ, ДОБАВИТЬ, УНИЧТОЖИТЬ, both ways to compile | all-or-nothing packages, hidden definitions still in use, a base that changes in between | `NamedTables`, `TempTables` |
| query parameters (`params.rs`) | bound values | bind, render | values that decide a separator | `Sources`, `Comparisons` |
| containers and decoding (`metadata/container.rs`, `deflate.rs`, `config.rs`, `db_names.rs`, `extension*.rs`) | none | bytes to descriptors | an extension numbers its own fields | `Resolution`, `Extensions` |
| metadata resolution (`metadata/resolve*.rs`, `schema.rs`) | none | descriptors and storage to a snapshot | owners, mirrors and targets over the base and its extensions | `Resolution` |
| runtime metadata, fuzz targets | none | projections; tests | | none |

The console holds one session and one set of metadata.  A statement goes
console → compiler (with the metadata's snapshot and the temporary tables) →
session → rows.  Metadata comes from the session's acquisitions: the provider
opens a transaction, the pipeline issues its statements through the provider's
`MetadataSource`, assembles and decodes rows, and the transaction is committed
or rolled back.  Nothing is persisted by this program; what can be left wrong
is the connection, the server's transaction, the permits of the pipeline's
semaphore, the temporary tables, a cache, and an answer.

What makes each component correct:

- *Sessions*: a session that calls itself usable holds a clean connection in
  exactly the transaction it says it holds; reads happen in one transaction;
  a session that is not usable says so and sends nothing; every call under
  limits returns; both providers keep one promise (`ReadSession`).
- *Pipeline*: verdict and answer depend on the table alone; the budgets of
  bytes, of batches and of retention hold, also when rows and totals are of
  different moments; permits come back; a streamed read ends.
- *Configuration cache*: it answers what resolving the accepted resources from
  nothing answers.
- *Extensions*: both readers of the store see the same extensions, each with
  what its own root names.
- *Metadata resolution*: fields, lookups and predefined values are those of
  the base and its extensions, never a neighbour's of the same number.
- *Temporary tables*: packages act on names for rows, all or nothing; a WITH
  list is the closure of what a statement reads; no definition outlives its
  snapshot.
- *Compiler*: the SQL of a statement answers what its text says — of joins,
  totals, slices, paths and equalities — over the rows of its own area.
- *Register tables*: Остатки reads every movement before its cut once,
  whatever totals are stored; the tables agree with the movements and with
  each other; debits and credits stay equal.
- *Access*: a statement is filtered by what the roles of the present user give
  together under the present parameters, or by what the operator typed; the
  strict and the stored path agree; every read has its decision; a statement
  without РАЗРЕШЕННЫЕ answers all its rows or none.
- *Clients*: nothing compiled against old metadata is used; a dead session
  ends the console; nothing blocks a thread that drives a runtime; the
  negotiation with a proxy takes no byte of the database's.

## The models

A model keeps the control of its component (guards, early returns, error
paths and the order of state changes) and abstracts its data.  `PROJECT.json`
maps every definition to the lines it translates.  Modules named `MC*` give
constants their values.  Parts that do not touch each other's state share a
run: `MCQueries`, `MCConfigDecode`, `MCConsoleAccess`, `MCClients` and
`MCAccumulationTables` hold the state of several modules and a variable
(`subject`, `client`) that says which of them a behaviour is about; the others
stand still.  Each such part is explored in full; `Subjects` in a
configuration chooses among them.

### Sessions: `ReadSession`, `MsSqlSession`, `PostgresSession`

`ReadSession` is what a caller of `DatabaseSession` may rely on.  A session is
`auto` (usable, no transaction of the caller's), `explicit`, `dead` or
`closed`, and at most one call is in flight.  `Ends` says how each operation
may end and what the session is then; the four constants name where the two
providers differ: from which status a dropped future may leave the session
usable (`DropSpares`), whether the row callback may stop a query without
ending the session (`StopSpares`), whether cancelling reconnects
(`Reconnects`), and whether a lost connection shows without a call
(`NoticesLoss`).

`MsSqlSession` is the SQL Server session, one step per await.  `flags` holds
the fields of the struct (`client`, `poisoned`, `explicit`, `pending`), `pc`
the await, `depth` the server's `@@TRANCOUNT`, `wire` what the TDS stream still
carries, `server` whether anything is answered any more.  The text of a query
is a raw batch: it may commit, roll back or begin transactions
(`StatementWork`).  Inside an explicit transaction `query_each` counts before
and after it; outside it sends BEGIN and COMMIT and counts nothing, so a
transaction the text began stays open.  The history variable `nested` says how
many were left so: the properties tell them from the session's own.  `Cancel`
drops the future at one of `CancelPoints`; then only `Drop` of the metadata
source runs.
`Reported` (status and call as the caller sees them) is the refinement mapping
to `ReadSession`; the property is `KeepsPromise`.

`PostgresSession` is the same for PostgreSQL, where requests wait in a queue
that a dropped future does not empty: `queue` is that FIFO, `reply` the answer
of the request the call waits for, `tx` the server's transaction (open, failed
or none), and a cancel request (`signal`) travels apart and hits whatever runs.  An
explicit transaction is known by its `txid_current`.  It maps to `ReadSession`
with other constants.

### `ConfigDecode`

The read of the Config table.  `store` (plan, rows with their parts, what each
text is) is chosen at the start and fixed.  The receiving side
(`RowArrives`, `RowsEnd`, `Collected`, `Feed`) assembles parts into resources and
resources into batches; `jobs` are the batches in `buffer_unordered`, each
waiting for its permits, running, done, yielded or abandoned; workers decode one resource at a time; `free` are
the permits of the byte semaphore.  `VerdictOfTable` and `AnswerOfTable` state
the result as a function of the table alone.  The three plans are "stream",
"selected" (retains what a selector names) and "whole".

### `NamedTables`, `TempTables`

`NamedTables` says what temporary tables are for their user: names for rows.
A package of statements places, appends and destroys, and either all of it
happens or none.  `TempTables` is the manager with its definitions (CTEs that
read other CTEs or hold captured rows), identifiers, dependencies, hidden
flags, the binding to a metadata snapshot, and both ways to compile a package:
`compile_batch`, where a definition is a view over the base, and
`compile_materialized_batch`, which captures rows while it goes.  The base may
change between two captures.  `Denote` evaluates a relation along its WITH
list, and `TablesOf`, the rows of every visible name, is the refinement
mapping.

### `MetadataCache`

Reading a configuration piecewise.  `stored` is what the base holds and may
change at any moment (`Change`); `reading` is the acquisition under way, a
transaction of several statements (`Statement`): inputs, file names, chosen
resources, the bootstrap (`root`, then the descriptor it names, under what is
left of the limits) and extension structures.  `RowsFit` is the second check
of the limits, on the rows.  `cache` is `ConfigurationMetadataCache`: `Admit`
takes a resource whole or not at all (`Accepts`, `With`, `Without`), `Resolve`,
`ResolveRuntime` and `Finalize` answer from it.  `Validated` is
`validate_separator_descriptors`.  File names are compared exactly (no
collation), and a name weighs one byte in `collect_names`.

### `Extensions`

The two readers of the extension store: `group_extensions` of an acquisition
(`ReadStore`, then `ReadCatalog`) and the index of the access layer
(`ReadRows`, `ReadRoot` one root at a time, `ReadRole`).  The store is
content-addressed, so a key always has the same content; an update changes
which keys are kept and which rows there are, between any two statements.

### `Resolution`

How a base becomes a snapshot: DBNames with the fields and tables an extension
adds, the owners and dependencies of objects, columns with their sides and
parts, and the fields and lookups a snapshot answers.  `FieldsAreStored` and
`LookupsTellTheBase` compare every answer with the base itself.

### The compiler: `Joins`, `Totals`, `Sources`, `Dereference`, `Comparisons`

Each compiles one construct the way the code does, evaluates the SQL that
comes out over rows with SQL's own rules (NULL, outer joins), and compares
with what the text says.

- `Joins`: the parser's flattening of nested joins, the checks on groups, and
  where `place_separator_predicates` puts each predicate; the reference
  evaluates the tree as written over the statement's own area.
- `Totals`: one SELECT per level, ordered by ranks and flags
  (`wrap_totals`, `hierarchy_ctes`); the reference walks the rows recursively.
- `Sources`: the state of a separator from settings, session values and
  conditions, and what a table with its extension, a slice, or the constants
  read under it; preparing without values and compiling with them.
- `Dereference`: the scopes of a statement and of a subquery in it, the LEFT
  JOIN of each hop, shared or not, and the CASE of a composite hop
  (`resolve_inner`, `resolve_dereference`, `composite_path`).
- `Comparisons`: how two sides are brought to one form in each of the places an
  equality may stand, for fixed and composite references and values of several
  types.

### `AccumulationTables`

A register of balances: its movements, the stored totals at some moments
(`anchors`, plus the current totals), and what the generated SQL of the three
tables answers, as operators over that state: `Balance` (nearest anchor plus
or minus the movements between it and the cut), `Turnovers`, and
`BalanceAndTurnovers` with `PlainRows` and the windowed relation.  The
platform's own actions (recording a document, storing totals) are external.
The references (`BalanceOfMovements`, `RunningBalances`, …) add movements up
and know nothing of anchors, windows or unions.

`AccountingTables` is a register with correspondence: records with two sides
and extra dimensions per side, folded into one row per side or kept paired,
read by lists of kinds or by position, under a condition.

### `ConsoleAccess`

Under whose access the console reads.  `rights`, `unreadable`, `extensions`
and `current` are the `AccessStore`, `stored` the `RestrictionStore`,
`parameters` the session parameters; `typed` and `derivedFor` are history.
`\as` runs through its awaits (`EnsureUsers`, `ReadConfigRights`,
`ReadExtensionIndex`, `ReadExtensionRights`, `ReadTemplates`, `ReadElement`),
each of which may fail and leave what was done before it; the user becomes
current in between (`Accept`).  `\session` derives again, `\as clear` and
`\refresh` forget.  `Applied` is the condition a statement gets, by stored
restriction or by the user's roles; `Decision` is the strict answer for other
callers; a condition is a set of roles with the values their templates were
expanded with.

### `Restrictions`, `Decisions`, `RowChecks`, `ApplicationAccess`

`Restrictions` takes the text of a restriction as a sequence of pieces
(words, directives, template calls), expands and parses it, merges those of
several roles and evaluates the predicate over rows (`Access::condition`,
`restriction_exists`).  `Decisions` is the conversation of an application with
a compilation in two modes: what is asked for, what is answered, how every
read finds its answer, and what temporary tables remember of the mode.
`RowChecks` is the pair of compilations behind a statement without
РАЗРЕШЕННЫЕ: the rows, and the evidence that some are forbidden.
`ApplicationAccess` puts both beside the console's commands: what an
application meets of the same access.

### `Console`, `BlockingDriver`, `Socks5`

`Console` is the loop of the console over a session that keeps the promise of
`ReadSession`: a statement with its lookups and sections, `\refresh`, a
Ctrl-C at any moment, the way out.  `BlockingDriver` wraps the same session in
a runtime, called from threads of both kinds.  That session is `ClientSession`,
the variables of `ReadSession` that both share.  `Socks5` is the negotiation:
`arrived` bytes of a script the proxy chose, `consumed` by exact reads.

## What the runs check

| run | states | what it shows |
|---|---|---|
| `mssql_guarded` | 4020 | futures dropped only at awaits the pending flag covers: between calls the only open transactions are the explicit one or what a statement of the caller began and left, nothing is sent on a torn stream, reads are in exactly one transaction of the session's, every call returns, and `ReadSession` is implemented |
| `mssql_any_drop` | 11496 | futures dropped anywhere: a dead session sends nothing, a reported explicit transaction is the server's, a drop inside one ends the session |
| `postgres` | 20692 | nothing an earlier call left queued hits a later one; a reported transaction is held; no nested BEGIN, reads are in a transaction (`RequestsInPlace`); calls return; `ReadSession` is implemented |
| `config_decode` | 287223 | *config*: verdict and answer do not depend on the order of batches (`TableDecides`), budgets hold and permits come back, also from a dropped read (`ReadsKeepLimits`), a streamed read ends (`ReadEnds`). *cache*: addressed reads keep their limits over a base that changes, the cache answers what a resolution from nothing answers. *extensions*: both readers of the store agree (`ReadersAgree`). *metadata*: the snapshot tells the base (`SnapshotTellsTheBase`) |
| `registers` | 2334 | the accumulation tables against the movements, for 12 cuts and 63 requests in every state; the accounting tables balance and agree from both sides |
| `queries` | 560582 | packages are all or nothing over names for rows (`KeepsPromise`), definitions can be read and are of one snapshot (`DefinitionsHold`); joins, totals, sources, paths and equalities answer their text |
| `console_access` | 510840 | *console*: the access applied is the present user's under present parameters; the two paths agree; typed values stay. *roles*: what several roles give is the sum. *decisions*: every read of a batch finds its decision. *rows*: all rows or none |
| `clients` | 34533 | *console*: nothing stale, a dead session ends the loop, an interrupted query comes back. *driver*: the runtime is respected. *tunnel*: no byte too many is taken |

The runs whose name ends in `_finding` show a [disagreement](#disagreements-found)
each.  Every property of a passing run has a mutation of a mapped definition
that breaks it, beside the definition and marked *Mutant*.

The bounds, and why they are enough:

- *SQL Server*: `MaxDepth = 3`.  The client asks only whether the depth is 0,
  1 or more.  A query outside an explicit transaction whose text nests once
  leaves depth 1 and the next call works at 2; 3 lets that one nest again.
- *PostgreSQL*: three transaction identifiers and `MaxQueue = 2` left-over
  requests.  Two transactions are the most that matter at once (the one
  reported and the one on the server), the third lets an identifier be new; a
  dropped call leaves at most a BEGIN and a ROLLBACK.
- *Pipeline*: five resources in batches of two, at most two batches in flight,
  limits of 2, 2, 5 and 3 bytes for a resource, a batch, the read and the
  workers, so that every limit can be met first; one resource
  or the first two may be of two parts, parts may be lost or out of sequence,
  one resource (each in turn) unreadable, corrupt or no metadata; an owner's
  route points are in another batch than the owner.
- *Cache*: three contents of a base of four resources (a separator with its
  parameter; the same separator grown, unreadable and in two parts, beside a
  damaged parameter; a resource without the descriptor it is read for) and one
  change from one to another between any two statements; limits of three
  resources and four bytes, met exactly and by one too many.
- *Extensions*: bases of up to two extensions that share a resource name, with
  damaged, missing and empty roots, and one update between any two statements.
- *Metadata*: a base of a catalog, a document and their tables, or of an
  accounting register, with up to two extensions that add a field of a new or a
  taken number, repeat the base's columns or not, and are declared or not, and
  with one table that is not there.
- *Queries*: packages as two spellings of one name and one more name, two
  statements to a package, three definitions, two snapshots, two versions of
  the base, one capture (`MaxCaptures = 1`: a second capture is where
  `temp_chain_finding` begins, and with it `ExactClosure` is false); joins of
  three sources in every combination of kinds, conditions and shapes; up to
  three control points over up to three rows and two catalogs; every setting of
  a separator with every session; paths of up to four hops over four objects
  whose references form cycles, alone and under a subquery; every place of an
  equality with every pair of kinds of operands.
- *Registers*: four moments, two to a day, in one month, two dimensions, nine
  candidate movements (two recorders in one second, two lines of one recorder,
  income and expense, two stores, two items), three of them at once; anchors at
  1 and 2 besides the current totals, so a cut lies before, between and after.
  Accounting: three accounts with two, one and no kinds of extra dimensions,
  five records (two of one document, one within one account).
- *Access*: three users and five roles, with rights in the configuration, in
  an extension and nowhere, and every kind of entry; fifteen texts of
  restrictions, alone and in pairs, under sessions that set every parameter,
  some or none; batches of one or two statements with up to two answers;
  registers of one or two rows.
- *Clients*: two metadata generations, two objects; a proxy that answers
  each question in every accepted and refused way, with addresses of 0 to 16
  bytes, whole or in pieces.

`mssql_*`, `postgres`, `registers` and `console_access` also check that the
system can always go on.  A compilation, a read and a negotiation end, so
`config_decode`, `queries` and `clients` say `CHECK_DEADLOCK FALSE`.

## Fairness

Servers and callers owe nothing: a server may stop answering for good
(`Stall`), a caller may drop or hold a future.

- `MsSqlSession`: weak fairness of `Start` (a call that was made runs to its
  first await: the executor polls it) and of `TimeLimit` (tokio's timer fires).
  `CallsReturn` excepts the whole acquisition, whose rows have no limit.
- `PostgresSession`: the same, and of `TakeReply`: a reply that has arrived is
  handed to the future that waits for it by the connection task.  `CallsReturn`
  excepts queries and the whole acquisition, whose rows have no limit.
- `ConfigDecode`: weak fairness of the client's own steps, of the workers
  (blocking tasks run to their end, dropped read or not), and of the time limit
  on the wait for the next batch.  `ReadEnds` is stated for the plans that
  stream; the "whole" read awaits rows without a limit.
- `Console`: weak fairness of `Cancel`, `Cancelled` and `Close`: after a Ctrl-C
  the loop itself issues the cancellation and then waits for nothing else, and
  both the cancellation and closing are under a time limit.  The interrupted
  query owes nothing.

The other modules state safety only.

## What is proved

Every theorem holds for all values of the constants under the modules'
`ASSUME`s; each proof module EXTENDS the module it is about.

*SQL Server* (`MsSqlSessionProofs`).  `TypeCorrect` needs nothing else.
`GuardedSafety`, `GuardedReads` and `Refinement` assume `GuardedDrops`: no
future is dropped at the two awaits that `query_each` leaves unguarded
(`CancelPoints` and `UnguardedAwaits` are disjoint).  Their invariant is

    IInv == TypeOK /\ InvCall /\ InvRest /\ InvAwait /\ InvConnect
            /\ InvExplicitCall /\ InvQuery /\ InvAcquisition /\ InvCleanup

`IdleTransactionMatches` speaks of a session at rest only: its transactions
are the explicit one, confirmed to be alone, or the `nested` ones the caller's
text left.  `ReadsAreWhole` says that reads lie one level above those.  Each
call works on whatever depth it finds (`begin` fails and rolls back unless it
finds 0), so the invariant says for each await what flags and depth may be there: which flags are up
while the stream is in use (`InvAwait`), that a connection being opened has no
state yet (`InvConnect`), what the operations on the caller's transaction, a
query, an acquisition and the cleanup after an error have established by the
time they wait (`InvExplicitCall`, `InvQuery`, `InvAcquisition`,
`InvCleanup`), and what is left when nothing runs (`InvRest`).  The lemma
`Invariance` carries it.  `Refinement` takes each action to a step of
`ReadSession` or to a stutter.  `AnyDropSafety` (`ExplicitIsConfirmed`) and
`AnyDropSilence` (`DeadStaysSilent`) need no assumption on drops and have a
smaller invariant, `AnyDropInv` (`AnyDropInvariance`).

*PostgreSQL* (`PostgresSessionProofs`).  `TypeCorrect`, then the properties of
the run: `ReportedIsHeld`, `NothingIsLeft`, `EachInItsPlace` and `Refinement`,
with no assumption on drops.  What a property says of the server holds only
once the queue is served, so the invariant is about the queue: after a BEGIN
only the end of another transaction may stand before it, reads are only at the
head of a queue that holds nothing else, and the oldest request meets the
transaction it expects (`InvQueue`); a reply is there only when everything
sent was executed (`InvReply`); a usable session is settled, or its
transaction is held (`InvUsable`); the explicit transaction (`InvExplicit`)
and the acquisition's own (`InvOwn`) are where their awaits are.  The lemmas
`QueueAppend`, `QueueServe` and `QueueGone` say what sending, serving and a
dropped future do to that shape; every action is one of them and a change of
local state.  The refinement adds `InvCaller`: which call waits at which
await, and what the session was before it.

*Clients* (`ClientsProofs`, which extends `MCClients`).  Each client is proved
alone and then under the one roof the run gives them; in between stands that a
client at rest stays at rest (`AtRest`).  `ClientsAreFresh`: `NothingStale` is
inductive as it stands.  `ClientsDeathEnds`: no step of a loop that goes on ends
a call in a dead session, and an ended console stays as its close left it
(`InvEnded`).  `ClientsRespectRuntime`: a session that was consumed is not
held, a driver that never had a runtime holds none, and who blocks holds a
session (`InvHeld`); from there no step blocks or drops a runtime on a thread
that drives one.  `ClientsTunnelsAreClean`, for scripts of any bytes
(`ScriptsAssumption` gives the fixed parts their lengths and an address the
length of its type; a name may have any).  `StreamShape` says at which offset
each part of the stream begins, `BytesOfStream` what an exact read returns; the
invariant is the offset at each await (`InvPlace`) and what the credentials'
presence implies (`InvSecret`).

*Pipeline* (`ConfigDecodeProofs`).  Free permits and those of the running
workers make up the budget, also after the read has ended (`InvPermits`), and
no more than `Depth` batches are in flight (`DepthKept`): `IInv`.  Hence
`PermitsAlwaysComeBack` and `StreamStaysBounded`, for any table and any order
of the workers.  `LimitsAlwaysKept` (`ReadsKeepLimits`) adds what is in the
batches and in what is kept: every resource has a size (`InvSizes`), no batch is
begun while `Depth` are in flight, and none exceeds `BatchSize` (`InvBatches`);
what a worker decoded is within its batch's budget, so the sums over batches are
within those of the read (`SumBounded`).  `RetentionBounded` is inductive
with the sizes.  Its other half is about reads on demand: `ReadingOK` says what
a read has found by the statements it has left.  Of a bootstrap the root comes
first, and what it takes of the limits is missing from those of the descriptor
(`DescriptorAsked`); `OrderedFits` says that what `indexed::ordered` answers is
no larger than the rows the statement found, although the base, and the totals,
changed.  Assumed (`CacheAssumption`): a base holds finitely many resources of
parts with sizes, and the root names a descriptor other than itself (its name
is parsed as an identifier, `indexed.rs:164-167`).

`ReadersAlwaysAgree` (`ReadersAgree`) is two invariants.  Of the cache: what a
caller holds has sizes (`HeldInv`), and the cache *mirrors* the sequence of the
resources it has admitted (`AdmitInv`: `Mirrors`, `Affords`) — names numbered in
that order, the identifiers and facts of exactly these, sums that are theirs and
within the limits.  A refused resource leaves it as it was (`AdmittedMore` is
the other case), and resolving the sequence from nothing, or reversed, collects
the same (`AllParsed`, `Reversed`).  Of the extensions: what the acquisition
grouped is the grouping of the rows and keys it read, each of the moment of its
own statement (`MomentInv`, `GroupInv`); the index is what the roots passed
before those left list, in their order (`IndexedUpTo`), whole as long as the
base was not updated and no row is incomplete (`StillWhole`); and what was read
of a role is under its name in the rows (`RightsInv`).  Assumed
(`ExtensionsAssumption`): roots list names and keys, and marks are no keys.

`TableAlwaysDecides` (`TableDecides`): a read in bulk that ends in "ok" or in an
error has the verdict and the answer of its table, for any rows and parts, any
plan, limits and batch size, and whatever the order in which rows arrive,
workers run and batches are yielded.  Until a read ends it is `Clean` or
`Spoiled` (`DecidesInv`).  Clean is five statements: what is delivered are the
first names of the table, and the rows under assembly are the next one's
(`Assembling`); what is retained are the names asked for among those delivered
(`Retaining`); the batches and what waits for one cut the list of resources to
decode at multiples of the batch size (`Queueing`); a worker has decoded the
prefix of its batch it says, and that prefix fitted (`Advancing`); and what is
yielded is through and within the total (`Yielding`).  Spoiled says that the
table is not acceptable and that an error is on its way which no answer
overtakes: a failed batch, or an error among the items of one.  `TotalDecoded`
is why the total may be met at any batch: a sum over the batches that are through
never exceeds the sum over the table.  Of the answer: what the yielded batches
give up holds each descriptor once (`GatheredOnce`), the destinations of
`sort_descriptors` are a permutation (`DestinationFacts`), so the sorted sequence
is the only one that ascends, and route points find their owner in whatever
batch it was (`AttachedIs`).  Assumed (`ConfigDecodeAssumption`): names are
numbered in the order of the table, and no resource declares two objects of one
key; what carries the route points of what (`Owner`) is any.

*Registers* (`AccumulationProofs`).  `ReadsOnce`: from any anchor towards any
cut, each movement before the cut is counted once by totals plus corrections,
and none behind it, for any calendar, candidate movements and anchors.  The
lemma `AnchorAndCut` splits on whether the anchor is after the cut.
`BalancesAlwaysHold` (`BalancesHold`) goes on from there to the rows.  A
relation *tells* the balances of a set of movements (`Tells`) when each row is
the sum over the movements of its key and each non-zero sum has a row.  The
relations the SQL builds tell what they should: grouped movements
(`GroupByTells`), the totals of an anchor (`TotalsTell`), totals and
corrections under a sign grouped together (`HistoricalTells`, where
`CorrectedBalance` adds up what `ReadsOnce` says is disjoint), the current
totals (`CurrentTells`) and the relation without windows (`WholeTells`).
Dropping zero rows keeps that (`NonZeroTells`), and so does summing the unread
dimensions away (`FinalizeShows`), because a sum over groups is the sum over
the movements.  The assumptions on names and on `Null` say that the encoding of
keys and absences is unambiguous; nothing is assumed of what is recorded.  The
invariant is the type and that the register is finite (`InvFinite`).
`SplitsAlwaysAgree` (`SplitsAgree`) is about split tables.  A relation *sums* a
set of movements by a key (`Sums`) when it has one row per key they have, with
the sums of their flows; grouping gives that (`Grouped`), grouping again by a
part of the key keeps it (`Regrouped`), and the windows keep it for the
movements of the interval (`WindowedSums`).  So Обороты and ОстаткиИОбороты
answer the same (`SameTurnovers`), once the keys of both show the same of a
movement (`KeysShow`, where the grain that Авто reads matters).  A window sums
the buckets before a row in the order of its ORDER BY, a tuple put together
from parts: `RowOrder` shows that it is the order of the movements, with those
before the interval first, `BucketsBefore` which movements that are, and
`RowBalances` that the last step sums nothing where the whole key is read.

*Access* (`ConsoleAccessProofs`).  `TypeCorrect`, `CurrentRightsKnown` and
`TypedAlwaysStays`, for every base.  `RightsKnown` needs `InvCommand`: the
running `\as` works on all its user's roles, has found or ruled out each of
them when it accepts him, and works for the current user from there on.
`AccessAlwaysApplied` (`AccessApplied`) and `BothPathsAgree`
(`DecisionsAgree`) need `InvDerived` besides: what is stored and was not typed
is about `derivedFor`, whose rights are known, and stands for every one of his
roles that grants reading, each expanded with the present parameters.
`AccessApplied` alone is not inductive: it speaks of the current user, who is
already another one while a `\as` is under way.  The lemma `AccessAnswers` says
what `ReadAccess` answers for a sequence of roles of any length;
`DeriveCovers`, `DerivedAnew`, `DerivedForgotten` and `DerivedKept` are what
each command does to the invariant.

`RequestsHold` (`RequestIsTheReads`) is about the two passes over a batch, for
any batch, condition texts and answers that have the shape the API gives them
(`AnswersAreTyped`).  `Pair` relates the pass that collects the request to the
one that compiles under the answers, read by read (`ReadBoth`, `EachBoth`),
statement by statement (`StatementBoth`, `BatchBoth`): as long as the first has
not failed, the second has noted the same tables and reported the same fields,
or has stopped, and stopped for a missing answer only at a table of the
request.  `Kept` says of the second alone that every table it noted has used
its answer and every row it reads in the restricted mode is by one.  `MeetIs`
is what one read adds, `TextIs` that the text of a condition, whatever it
reads, adds nothing to the request, `OwnAnswer` that answers about different
targets are each found.  The invariant is that between its preparation and its
compilation a batch has the request the collecting pass finds under the tables
there are (`InvPrepared`).  The passes are recursive functions over the reads,
given by `CHOOSE`; that they exist is an induction each (`TextSteps`,
`EachSteps`, `BatchSteps`).

`AnsweredInFull` (`AllRowsOrNone`) is about the two statements of a row check,
over any register.  What an answer keeps of a balance it keeps of every row of
it, because it names a dimension, so the balances of the rows kept are the
balances kept (`FoldUnderAnswer`), and the opposite keeps the others
(`OppositeKeeps`): the probe is empty exactly when nothing is hidden, and then
both statements read the same.  It needs that there is one answer about the
register (`RowsAreTyped`), which `check_decision_uniqueness` refuses otherwise.

*Packages* (`TempTablesProofs`).  `TypeCorrect` and `NothingIsStale` hold for
any number of captures, `DefinitionsAlwaysHold` (`DefinitionsHold`) and
`PackagesKeepPromise` (`KeepsPromise`, the refinement of `NamedTables`) under
`MaxCaptures <= 1`: no table is appended to twice while it is captured, which is
exactly where `temp_chain_finding` begins.  Statements, names, spellings, limits,
snapshots and the length of packages are any.  The invariant is `PackagesInv`:
the manager, and the copy an open package works on, are `Sound` — definitions
are numbered in order and read earlier ones only, of one name at most one is
visible (`Shaped`), each lists what it reads and what that lists (`Exact`), and
a captured one lists captured ones only and no row read on execution
(`Frozen`) — and what is visible is of the snapshot in use (`Fresh`).
`DefinitionsHold` alone is not inductive: a hidden definition is still read, and
a statement lists its closure only if the lists before it were closed.
The recursive functions of the module (`Denote`, `Progress`, `Reached`,
`Views`) are given by `CHOOSE`; that a table of each exists, and is the only one,
is an induction over definitions or statements (`AnswersTable`, `ProgressTable`,
`ReachedIsListed`, `ViewsBy`).  Then a closed list answers what all definitions
answer, in this manager and in every later one, and for captured definitions
whatever the base shows (`ClosedSame`, `DenoteIs`, `ValKept`); so what a
statement selects from named tables is what its SQL reads (`SelectedIs`), hiding
and adding a definition take a name away or give it its rows (`HideTables`,
`PushTables`, `AppendTables`), and each kind of statement does what its text
says (`CompiledDoes`).  A package of views is one step of `NamedTables`
(`PackageDoes`), a captured statement another (`ContinueDoes`): what the host
reads holds no row that is live (`HostReadsSelected`).

*Sums* (`FiniteSums`).  The library defines the sum over a finite set by a
recursion that takes out an element nobody knows (`CHOOSE`).  The lemmas give
the induction (over subsets and over naturals, with the predicate given as the
set of what satisfies it, because the installed provers do not instantiate
operators), show that a table of the recursion exists (`TableExists`) and that
a sum is that of any element and the rest (`SumRemove`).  From it follow sums
of equal, negated and re-indexed terms, over disjoint sets and over the parts
of a partition (`SumByGroups`): what grouped queries are proved with.

Only model-checked:

- everything under fairness (`CallsReturn`, `ReadEnds`, `InterruptReturns`):
  the proof system has no rule for liveness or `ENABLED` here;
- what recursive operators compute: the meaning of joins, totals, paths and
  restriction texts.  The modules that declare RECURSIVE operators (`Joins`,
  `Totals`, `Dereference`, `Restrictions`) are out of the prover's reach;
- the snapshot of a base and equalities: their properties compare one fold over
  the resources, or one table of cases, with another, and are left to the runs;
- that a refused package keeps the tables is part of `KeepsPromise`; that it
  does not when the caller supplied what nothing uses is
  `TempFailedFinding.cfg`.

## Disagreements found

Each run ends in a counterexample, quoted in `PROJECT.json`.

| run | what the code does |
|---|---|
| `mssql_drop_finding` | `query_each` sends BEGIN and COMMIT of its own without the pending flag; a future dropped there leaves a session that calls itself usable on a torn stream |
| `registers_running_finding` | running balances are taken per combination of all dimensions and then summed over those not read, so a combination without a movement in a period is missing from that period's balances |
| `temp_chain_finding` | a captured `ДОБАВИТЬ` records only the previous definition as its dependency, not what that one reads |
| `full_join_finding` | the separator predicates of both sides of a FULL JOIN go into its ON, so rows of other areas are answered without a partner |

The configurations below state what a document or a comment says and TLC
finds violated; they are beside the runs.  Each takes the module named.
Where several share a file, `-continue` reports each.

| configuration, module | property | what the code does |
|---|---|---|
| `TempFailedFinding`, `MCQueries` | `FailedPackageKeepsTables` | `compile_batch` commits to the manager and then refuses the package for an unused restriction or decision (`codegen/entry.rs:274-294`; `query-repl/spec.md:1751-1752`) |
| `AccessFindings`, `MCConsoleAccess` | `ElementOfCurrentUser` | a second `\as` keeps the first user's element as `ТекущийПользователь` (`open-sdbl-cli/src/access.rs:184-188`, 231; `query-repl/spec.md:3880-3883`) |
| `ConsoleInterruptFinding`, `MCClients` | `InterruptHeard` | Ctrl-C is listened to only around the main query (`repl/mod.rs:586-622`), not during the lookups of presentations and nested sections (625-673); `query-repl/spec.md:924-927` |
| `AccountingConditionFinding`, `MCAccumulationTables` | `ConditionSeesShown` | the condition of Остатки and Обороты reads the kind of a position, the rows show the one the list gives (`codegen/accounting.rs:2233`, `query-repl/spec.md:3233-3244`) |
| `LanguageFindings`, `MCQueries` | `TotalsPrecede` | a hierarchy drops the rows without a reference, takes the rank of an enclosing group from the rows that lie in folders only, and nests other roots under the empty reference once it is a node: rows are lost, or a total stands away from the rows it covers (`codegen/totals.rs:214-222`, 269-320, 374-379, 411-415, 503-514; `totals.rs:1-7`, `docs/query-language-support.md:75`) |
| `SliceFinding`, `MCQueries` | `SliceIsActive` | a slice takes inactive records (`codegen/sources.rs:1765-2044`); `docs/query-language-support.md:191`.  Slices never read extension tables either (2028-2031) |
| `LanguageFindings`, `MCQueries` | `EnclosingRowIsRead` | a subquery's path through a name of the enclosing statement joins its own copy of the target (`codegen/select.rs:2373`, `codegen/context.rs:265-312`, 1230-1254; `query-compilation/spec.md:801-809`, `context.rs:303-304`) |
| `WidthFinding`, `MCQueries` | `EqualityMeansSame` | with operands the run leaves out: a reference of 16 bytes against one of 20, two composite fields, REFS of a composite of one type (`codegen/expression.rs:975-1022`; `docs/query-language-support.md:60`, 81, 97, `query-compilation/spec.md:1087-1092`) |
| `AccessFindings`, `MCConsoleAccess` | `AnyRoleAllows` | one role's INNER join, kept for all roles (`src/access.rs:1481-1530` and 1466-1467), takes rows another role allows |
| `AccessFindings`, `MCConsoleAccess` | `TablesPlacedRestricted` | the flag of a table placed in a package is read before the statement that raises it is done (`codegen/batch.rs:66`, 202; `query-compilation/spec.md:1446-1449`) |
| `MirrorsFinding`, `MCConfigDecode` | `MirrorsCountAsDeclared` | the mirror of an undeclared extension table counts as unnamed (`pipeline.rs:86`, `metadata/extension.rs:161-170`, `metadata/resolve.rs:1966-1971`; `onec-metadata/spec.md:525-526`) |

Seen while modelling, and not run:

- `\as` of a second user that fails after he became current
  (`crates/open-sdbl-cli/src/access.rs:198`, 217, 230) leaves the first user's
  derived restrictions stored; `restrict.rs:7-9` says they are forgotten when
  the current user changes.  `AccessApplied` is stated once the derivation is
  done.
- A second `\as` does not report the roles it cannot read: `ensure_rights`
  answers nothing when nothing is missing
  (`crates/open-sdbl-db/src/access.rs:599`).
- `read_access` (`src/access.rs:1539`) stops at the first role that grants
  freely or fails to expand, so whether a statement is refused depends on the
  order of the user's roles (`access-rights/spec.md:203-204`).
- `restriction_exists` (`codegen/sources.rs:255-259`) puts the separator
  predicates of a table a restriction joins from the left into WHERE, which
  makes the join an inner one (227-229).
- `##` is no escape in a restriction's text (`access-rights/spec.md:118-121`),
  and `RestrictionError::UnknownTemplate` is never constructed
  (`src/access.rs:120-127`).
- `\refresh` clears the temporary tables only if one is visible
  (`repl/mod.rs:480`): after all were destroyed, the hidden definitions and the
  binding stay, and every later statement is refused when the snapshot changed.
- Outside an explicit transaction a SQL Server query whose text begins a
  transaction and does not end it returns `Ok` and leaves it open
  (`db/mssql/session.rs:675`, 689-690): `transaction_active` answers `false`,
  and later queries and acquisitions read inside it until an error, a `begin`
  (which fails) or a new connection ends it.  `query_each` is documented for
  one read-only statement, so no document is contradicted.
- Outside an explicit transaction a PostgreSQL query reads its rows without a
  limit of the client (`db/postgres/session.rs:801`), and so does the whole
  read of Config (`pipeline.rs:1188`).
- Descriptors of one resource are sorted by the object's identifier
  (`pipeline.rs:1113`), where `openspec/specs/onec-metadata/spec.md:383-385`
  asks for source order.
- `Авто` without a balance column reads movements before the interval and
  shows zero rows of their periods (`virtual_tables.rs:527`).
- Week and month read together under `Авто`, with a balance column, are
  truncated one after the other (`windowed.rs:138-142`, 170-175): the rows are per week,
  and all of a week is told under the month the week begins in, where the level
  is documented as the beginning of the record's period
  (`virtual_tables.rs:950-951`, `query-repl/spec.md:2990-2993`) and Обороты
  tells two months apart.  `TurnoversAgree` is stated for levels that lie
  within each other (`LevelsNest`).
- `attribute_id` does not find a field an extension adds without owner tables
  (`onec-metadata/spec.md:173-190`); `queryable_field_catalog` does not merge
  the variants of a table (`query/core/resolve.rs:2262-2312`, against 1598),
  and the Dt and Ct sides of a field have no identity there (2420-2430).
- A field of an extension that is rejected leaves its target among the
  dependencies (`metadata/resolve.rs:1276-1279`, 1648-1651;
  `onec-metadata/spec.md:533-537`).
- Of two entries of one identifier `from_entries` keeps the first and parsing
  the last (`metadata/db_names.rs:237-242`, 373).

## Assumptions and what is left out

- *Sessions*: connecting (TLS, login, probes) is one step.  The server keeps
  its protocol: answers come in order, `@@TRANCOUNT` and `txid_current` are
  truthful.  A statement of the caller may begin, commit and roll back as it
  likes; it does not change the settings of the connection (after `SET
  IMPLICIT_TRANSACTIONS ON` a later BEGIN counts twice).
- *Pipeline*: the bound on decoded bytes in `LimitsHold` assumes that
  `BatchBytes` is at most `InFlightBytes`, as in the defaults: a larger batch
  reserves all permits and may decode more.  Inflation and parsing are the
  outcome of a resource.
- *Cache, extensions*: names of files are compared exactly and weigh one byte
  each; the content behind a key of the extension store never changes; a root
  the index finds gone is passed over.
- *Metadata*: the types of columns and the selection of a partial resolution
  are not modelled; what is said of mirrors of undeclared tables is beside the
  runs (`MirrorsFinding.cfg`).
- *Registers*: rows of totals that are zero are kept, and the current totals
  are always there.  Conditions, restrictions and separators of the
  accumulation tables only remove movements before anything else happens, and
  are left out.  The restriction of old servers (no split balance without
  window frames) is a refusal at compile time.
- *Packages*: columns and limits of size are one refusal.
- *Joins*: `AnswersTheText` excepts a FULL JOIN at which the predicate of a
  separated source is placed (`FullOverSeparated`, `FullJoinFinding.cfg`), and
  a left-joined group with a left join in it whose condition holds for a
  missing row (`LooseGroup`).
- *Totals*: `AnswersTraversal` compares the whole result in its order.
  `Misplaced` excepts hierarchies whose rows have no reference in the join,
  roots beside an empty reference that is a node itself, and folders below
  another level whose group begins with a row of no folder
  (`LanguageFindings.cfg`).
- *Paths*: `PathsMeanValues` excepts a subquery of one source that follows a
  reference of the enclosing row (`FollowsEnclosing`, `LanguageFindings.cfg`),
  a bare name only the enclosing sources hold (`Strays`), sources of both
  statements without an alias (`Captured`), and constants of the enclosing
  statement that only the subquery reads (`Pruned`).
- *Equality*: the dialect is PostgreSQL's and operands are of one width
  (`WidthFinding.cfg` has the others).  `EqualityMeansSame` excepts two
  negations: of a field of several types, and of a CASE whose alternative is
  of another kind.
- *Restrictions*: a restriction with a join, of any granting role
  (`JoinKeptForAll`), may drop rows another role allows: an INNER join is kept
  for all roles, and so is the separator of an outer-joined table.  With one,
  `AccessAddsUp` only says that no row is read that no role allows
  (`AccessFindings.cfg` says the rest).
- *Access console*: the base does not change while the console runs; the
  catalog of users compiles; one restriction per role and object.  The alias
  of a restriction and a table part's condition through its owner row are not
  told apart.  A session that dies ends the console.
- *Console*: a statement either has lookups and sections or has none; what
  rows say and how they are printed is left out.
- *Proxy*: writes succeed; a failed write is a proxy that stops answering.

## Not modelled

- The **lexer** and the grammar of the **parser**: pure scans of a text whose
  outcome the rest of the models takes as given.  What the parser decides
  beyond grammar is in `Joins`, `Totals` and `TempTables`.
- **Scalar functions, grouping, ordering, criteria and presentations** of the
  generator: each maps one construct to one SQL expression, with no state; a
  model would repeat the mapping.
- **Containers and inflation** (`container.rs`, `deflate.rs`): byte formats
  with checked bounds; `decode` is the outcome of a resource here.
- **Runtime metadata**: projections of decoded descriptors.
- **Start-up** (arguments, password files) and **rendering**: sequential input
  and output.
- **Eviction of the access cache** and the format of a **rights resource**.
- **Fuzz targets**.

## Plan

1. *Accumulation registers*: registers of turnovers only, the fallback without
   window frames, conditions and separators inside the tables.
2. *Composition of reads with sessions*: the statements of `MetadataCache` and
   `Extensions` as calls of `ReadSession`, so that a session that dies ends a
   read half way.
3. *Containers*: page chains and their bounds as operators over small files,
   against a reference that concatenates.
4. *Proofs*: that the cache resolves what its resources say, and both readers
   of the extension store agree; that accepting no answer of the proxy
   sends no credentials, as an action property of its own.
5. *Parser limits*: depth and size of a query as counters over its tokens.
