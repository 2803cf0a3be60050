# Formal models of wx-btrieve-sql-driver

This directory holds TLA+ models of the Btrieve-to-SQL driver, the TLC runs
that check them and TLAPS proofs about them. The driver answers Btrieve calls
of DOS and Windows programs (`BTRCALL`) out of a SQL database: SQL Server,
Postgres or SQLite. A Btrieve call arrives as an opcode, a position block, a
data buffer, a key buffer and a key number, and is answered by zero or more SQL
statements and a status code.

Paths below are relative to `src/crates/`; `core/` stands for
`wxbtrv-core/src/`.

## 1. The system

### Components, their state and their operations

| Component | State | Operations | Correct when |
|---|---|---|---|
| SQL layer `core/sql.rs`, `core/dialect.rs` | the cached connection `CONN`, the flag `TXN_ACTIVE`, the backend | connect, execute, fetch, `begin_txn`, `commit_txn`, `abort_txn`, `lock_row`, `unlock_row` | no transaction or lock is left behind on any error path; a reply that is lost never makes the driver forget what the server holds |
| Transaction operations `core/ops/txn.rs` | `TXN_ACTIVE`, the currencies of all handles | Begin 19 / 1019, End 20, Abort 21 | writes between Begin and End are atomic |
| Write operations `core/ops/{insert,update,delete}.rs` | physical currency of the handle | Insert 2, Update 3, Delete 4, Insert Extended 40, Update Chunk 53 | the record written is the current one, under its lock; currency afterwards as documented |
| Session operations `core/ops/session.rs` | the handle table | Stop 25, Version 26, Unlock 27, Reset 28, directories 17 / 18, continuous operation 42 | nothing of the old session survives |
| Open, Close `core/ops/{open,close,helpers}.rs` | the handle table, the metadata caches | Open 0, Close 1 | a handle never outlives its Close |
| Key-ordered navigation `core/ops/get.rs`, `sql_helpers.rs` | logical currency: index number, key values, descending flags, record number | Get Equal, Next, Previous, Greater, ..., First, Last (5-13) | a walk visits every record once, in index order |
| Physical navigation `core/ops/step.rs` | `step_last`, the step cache and its direction | Step Next, First, Last, Previous (24, 33-35) | a walk visits every record once, in record-number order; the cache cannot be noticed |
| Extended operations `core/ops/{get_ext,step_ext}.rs` | both currencies | Get / Step Next / Previous Extended (36-39) | the same as the single operations, repeated |
| Position, percentage `core/ops/position.rs` | both currencies | Get Position 22, Get Direct 23, Find / Get Percent 44 / 45 | the position names the record it was taken from |
| Get Key `core/ops/get_key.rs` | as its base operation | 55-63 | as its base operation |
| Index, create, owner `core/ops/{index,create,owner}.rs` | the handle's list of indexes | Create / Drop Index 31 / 32, Create 14, owner 29 / 30 | key numbers keep their meaning |
| Stat `core/ops/stat.rs` | none | 15, 65 | what it reports was so while it ran |
| Dispatcher `core/ops/mod.rs`, `opcodes.rs`, `core/opcode_map.rs` | initialisation flag | opcode bias, dispatch | every opcode reaches its handler; tables are read first |
| Record codec `core/record.rs`, `sql_param.rs`, `btr-types/src/codec.rs` | none | pack, unpack | a record survives a round trip |
| Metadata `core/state.rs`, `core/table_lookup.rs`, `core/sqlite_meta.rs` | caches of schemas and of discovered tables | lookup by file name | a file name always finds the same table |
| Tracing, utilities | log file | - | not part of the behaviour |
| Windows shim `wxbtrv/src` | init counter | VDD dispatch, exports | marshalling only |
| DOS driver `wxbtrv-sys` | none | INT 7B entry | marshalling only |
| Import runner `btr-import/src` | progress of an import | create, truncate, batches | a file reported as imported is in its table; one cut short leaves a beginning of it |
| Btrieve and schema parsers `btr-types/src` | none | parse | pure |
| db-config | configuration database | imports and edits, statement by statement | an imported table is complete; what was migrated stays so |
| Web admin `wxbtrv-web/src` | jobs, shared state | HTTP handlers | every stream of events ends |
| Installer, test harness | - | - | - |

### How they interact

`btrcall_internal` (the dispatcher) strips the opcode bias and calls one
handler. A handler looks up its `HandleEntry` under the state mutex, takes what
it needs out of it, releases the mutex, calls the SQL layer, and takes the
mutex again to store the new currency. The SQL layer keeps one connection per
process and opens it on demand; `with_conn` drops it on every error it
classifies as connection-level, which is every error of a statement except a
refused lock. Transactions and row locks are the connection's: when it goes,
they go. The transaction flag is the process's and does not.

Sessions meet only at the database: several DOS sessions are several processes
with a connection each. The command line tools and the web server write the
configuration database `wxbtrv.db`, which the driver reads once, at its first
call, and fill the tables of the server from Btrieve files.

### What is hard

* A call is several statements. Between them other sessions run, the
  connection may be lost, the process may end.
* The driver's belief (`TXN_ACTIVE`, currencies, caches) and the server's state
  change in different places and on different error paths.
* A reply may be lost after the server has acted.
* Three servers answer the same statement sequence differently: Postgres keeps
  a failed transaction open and refuses its statements, SQLite locks the file,
  SQL Server refuses a second lock at once.
* Sessions wait for each other's locks and transactions; a call must return all
  the same.
* The configuration database and the import tables are written by several
  programs, statement by statement, that may die anywhere.
* Navigation state is spread over a dozen fields of a handle, and every
  operation writes a different subset of them.

The hazards, each at its line, are listed in `PROJECT.json`.

## 2. Transactions, writes and locks: SqlServer, BtrSession, TxnStore



`SqlServer` is the database server as the SQL layer relies on it. It is
external: the repository has no server, and what the module says is taken from
the statements the code sends and the answers it handles. Writes are made in
place, with the before-image kept per transaction, so rolling back is putting
the before-images back.

`BtrSession` extends it with the driver. State and code:

| Variable | Code |
|---|---|
| `conn` | `conn_cell` in `sql.rs`; `"dead"` is a cached connection the server has closed and the driver has not yet tried |
| `txnActive` | `TXN_ACTIVE` |
| `handles`, `lastRecnum`, `prefixed` | `DriverState.handles`, `HandleEntry.last_recnum`, `lock_prefix` |
| `call` | the program counter of the call in progress: the next SQL statement it will send |
| `acked`, `begun`, `relied` | history, for the properties only |

Open, Close, Read (any Get or Step), BeginTran, EndTran, AbortTran, Stop and
Reset are one action each, because they send at most one statement. Insert is
`Insert` then `InsertId`; Update and Delete are `Write`, `ResolvePrefix`,
`LockRow`, `Execute`, `Unlock`, one per statement. Every statement has the
outcomes success, error with nothing done, and error although the server has
done it (the reply is lost). `ConnectionLost` and `Restart` may come between
any two.

`TxnStore` is the promise: outside a transaction a write is permanent at once;
the writes of a transaction become permanent together or vanish together, and
nobody else writes those rows meanwhile. `ImplementsTxnStore` maps the detailed
state to it: `stable` is the committed image of a row, `draft` the image a
transaction has written and not ended.

`BtrSessionMC` adds the symmetry of the sessions. `BtrSessionProofs` holds the
proofs.

## 3. What the session runs show

All counts are small on purpose; each run says what its bounds let happen.

| Run | Instance | Shows |
|---|---|---|
| `session_mssql` | 2 sessions, 1 row, 1 handle, SQL Server | no leaked transaction, no leaked lock, one writer per row, a transaction keeps its writes until it ends, reads of an exclusive transaction are stable, refinement of `TxnStore` |
| `session_rows` | 1 session, 2 rows, 2 handles, SQLite | the inductive invariant of the proofs; atomicity over several rows; a server without row locks |
| `session_atomic` | 1 session | a statement of the code's comments that the code does not keep; see the finding |

One row and two sessions is what every conflict needs: two writers, a reader
and a writer, a lock holder and a waiter. Two rows matter only for atomicity
and for the before-images, and one session suffices for it. Two sessions with
two rows have more than three million states. Two sessions on SQLite or on
Postgres are covered by the proofs, which hold for each server (the run of section
7 is on Postgres, for liveness).
The row that Insert would create is absent at first in some initial states and
present in others, so both the first insert and an update of an existing row
occur. Sessions are symmetric: no definition tells one from another. Symmetry
is used for invariants and for action properties only.

Finding of these runs (a run with `expect: violation`):

* `AtomicUntilEnd`: one SQL error inside a transaction undoes the writes before
  it; those after it commit one by one.

Also seen in the model, without a run of its own:

* On Postgres, `commit_txn` reports what COMMIT returned, which is success also
  outside a transaction and in a failed one: End answers 0 although the writes
  since Begin are gone (`sql.rs:351`; `ops/txn.rs:70` says that they become
  permanent).
* Stop and every dropped connection leave `TXN_ACTIVE` set, so the next Begin
  answers 37 for a transaction that does not exist (`ops/session.rs:52`,
  `sql.rs:306`).
* When the lock statement is the first to find the connection dead, the caller
  gets 43 and the dead connection is kept (`sql.rs:436`).
* Reset inside a transaction leaves the transaction open (`ops/session.rs:75`).

The passing properties are therefore stated about what the code does keep: for
example `TransactionKeepsItsWrites` holds as long as the server's transaction is
the one Begin opened.

### Fairness

`BtrSession` assumes none: the properties of these runs are safety properties.
Liveness is section 7.
## 4. Navigation: KeyOrder, RecordFile, KeyCursor, StepCursor

A handle has two positions in its table. The logical one orders records by an
index and is moved by Get operations; the physical one orders them by record
number and is moved by Step operations. Both are kept as values, not as a
database cursor: every Get and Step is a query of its own, built from what the
handle remembers, and other sessions write between two of them. So the question
for both is the same: does a walk reach every record?

`RecordFile` is the table, external: rows numbered in insertion order, written
by anybody (`InsertRow`, `WriteRow`). A rollback looks like updates and deletes,
and like a row that appears late (`RestoreRow`), under a number below the
greatest given out, when it takes back a Delete; so does an Insert that another
session commits late, and on SQLite one that takes the number of a rolled-back
Insert.

`KeyOrder` holds the clauses the driver builds: `IndexColRefs`, `KeyWhere`
(`build_key_where`), `ContinuationWhere` (`build_continuation_where_marker`),
`OrderBefore` (`build_order_by_cols`), `ExtractKeyVals`; and next to them
`Beyond`, the order of an index stated independently of those clauses, which
the properties use as the reference. NULL, blank values and SQL's three-valued
comparison are kept because key values pass through them.

| `KeyCursor` | Code |
|---|---|
| `getIndex`, `getKeys`, `getDesc`, `getRn` | `get_index_num`, `get_last_keys`, `get_last_desc`, `get_last_recnum` of `HandleEntry` |
| `batch` | the extended Get that is fetching its records, one query each |
| `pos`, `walk` | history: the record at the position, and the rows the walk owes |
| `GetByKey` | `op_get_by_key`: Get Equal, Greater, Greater or Equal, Less, Less or Equal |
| `GetEnd`, `GetAdjacent`, `GetDirect` | First and Last; Next and Previous; Get Direct |
| `ExtendedBegin`, `ExtendedFetch`, `ExtendedEnd`, `ExtendedFail` | `run_extended` |
| `KeyReset`, `KeyAbort` | Reset and `invalidate_all_currency` |
| `InsertAnywhere`, `WriteAnywhere`, `RestoreAnywhere` | any session's writes; those of this handle leave the logical position alone |

| `StepCursor` | Code |
|---|---|
| `stepLast`, `cache`, `cacheDir` | `step_last_recnum`, `step_cache`, `step_cache_dir` |
| `stepWalk` | history: the rows the walk owes |
| `late` | history: the rows that appeared late since the cached ones were fetched |
| `StepGet`, `StepEnd` | Step Next and Previous; Step First and Last |
| `StepExtended` | `run_step_extended`: one query, and as many of its rows as fit the buffer |
| `FindPercent` (and the operator `GetPercent`) | Find and Get Percent |
| `StepInsert`, `StepReset`, `StepAbort` | what Insert, Reset and Abort do to the physical position |
| `InsertElsewhere`, `WriteElsewhere`, `RestoreElsewhere` | other handles and sessions |

`get_dir` and `step_dir` are written by the code and never read, so they are
left out. A Get or Step that finds nothing, or fails, stores nothing and is a
stuttering step, except where a failed fetch clears the cache.

### Runs

| Run | Instance | Shows |
|---|---|---|
| `key_mixed` | 3 rows, 3 records with ties in either field, an index with an ascending and a descending segment and one over the second field | walks skip nothing; Next and Previous return the nearest record in index order; a search finds the equal key |
| `step_cached` | 4 rows, 2 records, a cache of 3 rows | walks skip no row they owe, the cache is in order and its only gaps are late rows, a percentage leads back to its record |


Bounds. `MaxRec` bounds the rows ever inserted. Three are enough for a record
before, at and after the position, and for two duplicates and a third; the
fourth row of `step_cached` lets the file grow while the three others are
cached. `Chunk = 3` stands for `STEP_CHUNK_SIZE = 256`: a row served, and two
waiting, between which a gap or a wrong order would show. `MaxBatch` and
`MaxRecs` are 2: a batch that ends by its count and one that ends early.
`Percentages` are the quarters, the ends and one value beyond. Filters are the
trivial one and one that rejects a record. `KeyBuffers` has whole keys, keys
with a blank segment, and the keys of the one-segment index.

No liveness is claimed: navigation returns one record per call, whenever the
caller asks.

Assumptions of the model: a key number with a high byte, which names a key
length, selects some index of the table; an extended Get that fails in the
middle ends the walk, because nothing says what the position should be then.

Late rows. A row may appear late at any time (`RestoreElsewhere`), between two
cached rows too. The driver keeps its cache, and the next fetch starts after the
last cached row (`ops/step.rs:50`), so the walk never serves that row. What a
walk owes is therefore settled when it begins: all rows there are beyond its
start when its first Step fetches; when the first Step is served from the cache,
which Insert, Reset and Find Percent leave filled, all but those that appeared
late since the fetch (`late`). `CacheHasNoGaps` says that only late rows are lost
in this way, and `StepSkipsNothing` that nothing owed is.

### What the model shows besides

* A Step does not always return the next row of the file, as `ops/step.rs:129`
  and `:182` say. Step Previous returns the last row and caches the two before
  it; Reset clears the position and not the cache (`ops/session.rs:80`); the next
  Step Previous, which from no position should return the last row, returns the
  cached one before it. After Insert or Find Percent, which move the position and
  keep the cache (`ops/insert.rs:68`), the next Step is served from the old walk
  too.
* Get Next without a Get by key, First
  or Last before it does not know that the index is descending; from the second
  record on it goes the wrong way. `get.rs:413` says
  "Descending keys walk toward smaller values". `NeighboursWhenFlagged` is what
  holds: with the flags in place the neighbours are right.
* Get Greater or Equal on a descending index returns the greatest key
  (`get.rs:88`), where `get.rs:189` says "Tries equal first, else next greater".
  `EqualFirstWhenAscending` is what holds.

* A NULL key value is remembered as a blank one, with which the predicate does
  not find it again (`ops/sql_helpers.rs:219`): with a NULL record among
  `Record`, `WalkSkipsNothing` fails. The instances have no NULL.

* With `local_cache`, Step Next returns records deleted or changed since they
  were fetched, also through the same handle (`ops/step.rs:22`).
* Get Less or Equal with a blank segment, where that is a wildcard, compares the
  other segments only and returns the greatest record that agrees in them, even
  where a record has the blank itself; so `EqualFirstWhenAscending` is about
  keys without wildcards.
* Among duplicates a Get by key need not return the oldest: its ORDER BY has no
  record number (`ops/get.rs:88`).
* With `ignore_null_values` a blank segment of a Get Equal is a wildcard, so
  the record returned need not have the key (`ops/get.rs:64`);
  `EqualMeansEqual` states what remains.
* Find Percent of what Get Percent returned may be the record after: the code
  counts the record itself going there and skips that many coming back.
  `PercentRoundTrip` allows for it.


## 5. One handle's writes and tokens: BtrHandle

Update, Update Chunk and Delete name no record: they write the row in
`last_recnum`, which every Get, Step, Insert, Get Direct and percentage call
sets, and Abort, Reset and Close clear. `BtrHandle` follows that number, and
the position tokens the caller keeps, over a table that other handles and
sessions write between any two statements. The locks of a write are
`BtrSession`'s; here lock, statement and unlock are one action.

| `BtrHandle` | Code |
|---|---|
| `isOpen`, `lastRec` | the entry in `DriverState.handles`; `HandleEntry.last_recnum` |
| `token` | the 4 bytes the caller took from Get Position |
| `call` | an Update Chunk between its read and its write, an Insert Extended between two records |
| `current`, `deleted`, `reply` | history: the row the caller was given last, the rows it deleted, the last answer |
| `OpenHandle`, `CloseHandle` | Open; Close and Stop |
| `ForgetPosition` | Reset of this handle, Abort of any (both end in `last_recnum = None`) |
| `Retrieve` | any Get, Get Key or Step that returns a row |
| `GetPosition`, `GetByToken` | Get Position, Get Direct |
| `InsertCall`, `UpdateCall`, `DeleteCall` | Insert, Update, Delete, each with success, error, and error although the server has done it |
| `ChunkFetch`, `ChunkStore` | Update Chunk: its SELECT, and its UPDATE under the lock |
| `BatchBegin`, `BatchInsert`, `BatchFail`, `BatchEnd` | Insert Extended, record by record |
| `ElsewhereInsert`, `ElsewhereWrite` | others' writes, and rollbacks, this session's own included |

A record is a function from byte ranges to contents, because chunks are about
ranges; random and rectangular descriptors become the same list of ranges
(`Descriptors`), and one that does not fit changes nothing.

| Run | Instance | Shows |
|---|---|---|
| `handle_calls` | 2 rows, records of 2 ranges with 2 contents, batches and descriptors of 2 | writes reach the row the caller was given; Insert Extended counts right; Update Chunk keeps the rest of a record that nobody else writes |


Two rows are one that is current and one that is not; two ranges are one in a
chunk and one outside; a batch of two fails at its first or at its second
record. `TokenRange` stands for the 2^32 of a token. It is 2, so that the cut of
`position.rs:42` happens: the number 2 has the token 0. Nothing is assumed of it
but that there is a token.

Seen in the model, without a run of its own:

* Record numbers have 64 bits at the server (`dialect.rs:129`), tokens 32
  (`ops/position.rs:42`). In a table with numbers beyond 2^32 the token of one row
  leads Get Direct to another, or to none, and the next Update or Delete goes
  there, although `ops/position.rs:15` says that the token re-retrieves the row.
  Below 2^32 a token is the number itself. So no property speaks of tokens; that a
  write reaches the row Get Direct returned is part of `WritesReachCurrent`.
* `op_update_chunk` reads the record (`ops/update.rs:307`) before it locks the row
  and writes the whole image back: what others write to the rest of it in between
  is lost. `FreshChunkKeepsTheRest` is what holds.
* An Update of a row that has been deleted answers 0 (`ops/update.rs:117`),
  where the comment says 8, no current record.
* Delete keeps `last_recnum` (`ops/delete.rs:63`), where its comment says that
  it destroys physical currency: a later Update answers 0, and reaches the row
  again once a rollback brings it back. This is why `WritesReachCurrent` allows
  for `deleted`.
* After a lost reply to the query of the identity, `last_recnum` is 0 and so is
  the token of Get Position (`ops/insert.rs:23`); no row has number 0, so no
  write goes astray.
* Get Key sets the physical position, where its comment says it does not
  (`ops/get_key.rs:30`).

## 6. Names, tables and index numbers: Catalog

`Catalog` is about what the driver knows of tables: the metadata preloaded
under several keys, what the first Open of an unknown file discovers at the
server, and the copy each open handle keeps, which Create Index and Drop Index
change.

| `Catalog` | Code |
|---|---|
| `tables` | `DriverState.tables`; a key `DB:NAME` is a pair, a plain key a pair with `NoDb` |
| `handle`, `path` | `HandleEntry.meta` of the open handles; `HandleEntry.b_path` |
| `onServer`, `sqlIndex` | tables, and indexes made by Create Index, at the server |
| `Preloaded`, `Keys`, `WinnerOf` | `preload_from_sqlite`: each table under its keys, in the order of the names |
| `PathDb`, `KeysTried`, `Hits` | `get_table_meta_for_path` |
| `OpenKnown`, `OpenDiscovered` | Open of a file that is known, and of one that `discover_table_meta` finds |
| `CloseFile`, `CloseAll` | Close, Stop |
| `Reload` | `do_init` at the first call after a shell stop, or at another shell init |
| `CreateFile` | Create |
| `CreateIndex`, `DropIndex` | Create Index, Drop Index, with a lost reply and an ignored error |

A name is a sequence of words, dots and underscores, because the keys differ in
just those; all names are in upper case. Of the metadata a handle holds, the
database, the name and the list of indexes remain. Set and Get Directory are
left out: nothing but Get Directory reads what Set Directory stores, although
`state.rs:337` says that relative paths are resolved against it.

| Run | Instance | Shows |
|---|---|---|
| `catalog_open` | SQL Server; 2 databases, 3 directories, 2 handles, tables T and T_B in the first database and T in the second | files opened from a directory with a database are tables of that database; the same path leads to the same table, `wxbtrv.db` read again or not; a table is found under its own name; index numbers of a handle stay distinct |

The three directories are one with a database of its own, one that has an empty
one and one that takes the global one. T_B is among the keys of T, so the two
compete, and it is preloaded but not at the server until it is created. T of
the second database is not preloaded, so it is discovered. T has two indexes
and no handle more than two (`MaxKeys`, 119 in the code), so the limit is
reached; numbers go up to 3 (`MaxNumber`), one more than there are indexes.

Also seen in the model, without a run of its own:

* Drop Index takes its key number as a position in the list
  (`ops/index.rs:163`), while a Get looks for the index numbered one above it
  (`sql_helpers.rs:176`). After one Drop they name different indexes. A Get of a
  dropped key does find nothing, and no later index takes its number unless it
  was the greatest.
* Create Index is known to the handle only. Open the file again and the index
  is not in its list; the next Create Index takes a number that is in use at
  the server and fails, each time. A lost reply does the same at once.
* Create makes nothing known: Create with key number -1 answers 0 for a table
  that exists and was not preloaded, and on Postgres and SQLite, where nothing
  is discovered, a created file cannot be opened at all (`sql.rs:1118`).
* From a directory without a database, or on a server with one namespace, a
  name leads to whatever was preloaded last or discovered first under it. This
  is why `NeverCrossesDatabases` and `SamePathSameTable` are about directories
  with a database.
* The preload sorts by the name as written and files it in upper case. With
  names in mixed case the order of the keys can differ from the order of the
  names, and `OwnNameWins` would depend on it; the instance has one case.

## 7. Liveness: BtrSessionLive

`BtrSessionLive` extends `BtrSession` with what has to happen. `Answered` is the
next step of a call where it succeeds or has a reason to fail (`Fails`): the
connection is gone, the transaction has failed, the lock is not held, or the
session waits in a circle. `CallsAreAnswered` is strong fairness of that step
for every session: the driver runs a call to its end without returning to the
caller, and a server grants locks in the order they were asked for, so a
session whose turn comes again and again is served, although what it waits for
may be taken by others in between. `TransactionsEnd` is strong fairness of End
or Abort: it is the application's part. Nothing is assumed of `ConnectionLost`,
of new calls or of new transactions.

| Run | Instance | Shows |
|---|---|---|
| `session_live` | 2 sessions, 1 row, 1 handle, Postgres, concurrent transactions (1019) | `EveryCallReturns`: every Insert, Update and Delete returns, although `lock_row` has no time limit on Postgres: the lock is given back on every error path, and no two calls wait for each other without the deadlock detector ending it |

Left out of that run, to keep the graph small, are Close, Reset, Stop and
Restart (`LiveNext`), and exclusive transactions (19). That a call returns does not mean that it gets anywhere: an
application that tries again on status 43 over the dead connection that
`lock_row` keeps (`sql.rs:436`) tries for ever.

## 8. Records as bytes: RecordCodec

`RecordCodec` is the conversion between the packed record of a Btrieve program
and the columns of a row, for every field type: `ReadRow` with `PackRow`
(`record.rs`, a row into the data buffer), `UnpackField` with the statements
of Insert and Update that use it, the key buffer of a Get by key, and the
decoder of the importer (`btr-types/src/codec.rs`). Values are tagged by kind, so
that the text `1` is not the integer 1, and integers and floats are their bytes.
A state is a file layout, a data buffer and the stored row; the caller inserts,
reads, changes a field and updates.

| Run | Instance | Shows |
|---|---|---|
| `codec` | one field of each type and length, between or after two others, with and without a default and as the record number or not, fields that overlap, and two fields the server might number; bytes that reach every branch; keys of up to three segments (`MaxSegs`) | `InsertReadsBack`: an inserted record reads back as it was; `UpdateChangesOnlyEdits`: Update leaves the columns of the fields that were not edited; `KeyFindsRecord`: the key built from a record finds it |

The slices are all strings over a blank, a zero and a letter (or, for numbers,
0, 1 and 255) of the field's length, and for dates, times, money and floats the
values at which the code branches. A property about "any record" would not
hold: `Canonical` says of which bytes, `Settled` of which values it does, `Own`
that the field shares no byte with another and lies in the record, and
`Searchable` which values a key can name. `CodecAssumption` says what layouts and
identities there are; the theorems of section 12 hold for all of them. What the
four leave out is what the code changes:

* MONEY loses 0.0001 on the way for about 7 in 100 values; a year of five digits
  shifts the digits of its date.
* Types 10, 12 and 15 have no branch in `unpack_row_typed`: an LSTRING keeps its
  length byte and gets another, a ZSTRING (12) keeps its NUL, so that no key
  matches it; an unterminated ZSTRING loses its last character.
* An INT of a length other than 1, 2, 4 or 8 reads as 0. Bytes outside ASCII
  become longer when packed. Midnight becomes NULL as a key and is never found.
* A record shorter than its file stores '' for a STRING, which the next Update
  fills with blanks. The importer trims a STRING, while Get Equal compares with
  the padding: on SQLite and Postgres an imported record is not found.
* A field of type 14 or 15 on a table with a record number of its own is left out
  of INSERT: the caller's buffer gets the number, the column stays NULL.
* A Step takes column 0 as the record number and the others as the fields,
  also on a table whose record number is one of its fields (`ops/step.rs:75`),
  and `fetch_keyset_one_inner` takes column 0 also where that field is not first.

## 9. The configuration database: ConfigDb, Calendar

`wxbtrv.db` is written by the commands of `db-config`, by requests of the web
server and by the importer, with each statement a transaction of its own.
`ConfigDb` gives each operation as the list of its statements (`Begin`,
`UpsertStatements`, `Operation`); a process runs them one by one, others run
theirs in between, and it may fail or die before any of them. The variables are
the five tables; ids are given out as SQLite does, the greatest plus one, so
they are used again. `Calendar` is the conversion of days into a date of
`migration.rs`; `CalendarAgrees`, which TLC evaluates before the run, compares it
with the calendar on the days around leap years and on either side of 2100.

| Run | Instance | Shows |
|---|---|---|
| `config_db` | 2 processes, 3 operations, a table in two directories and two versions, another table, ids up to 3 | `ImportedTablesAreComplete`: a table imported while nobody else worked on it is what its INT file says, whatever an earlier import cut short had left; `MigrationIsRemembered`: no import or upgrade takes back that a table has been migrated |

Three operations are an import cut short, one that repeats it and one by the
other process. Both properties leave out the operations whose effect on a table
is by design (`clear-migrated`, a table removed). What the model shows besides:

* Two imports of one table at a time mix the header of one and the fields of the
  other. A process that has looked up an id, deleted and given again meanwhile,
  writes into another table (`stale` in the model).
* Edits by name take any row of that name where a table has several (by database
  or directory); `set-table`, `mark-migrated`, `clear-migrated` and `rm-table`
  take all of them. The driver loads the first it meets.
* `upgrade_schema` turns a schema `dbo` that was set on purpose into the empty
  one, where its comment says that only rows "never explicitly set" change.
* `import-mds` and `set-config` write sections the driver does not read
  (`MDS`), while the importer falls back to them key by key: the two may connect
  to different servers. `set-connection` writes key by key; a crash leaves a
  mixture.
* `clear-migrated` keeps the target server and database. An export of a name with
  several directories writes the first of them each time.

## 10. Imports: ImportRun

`ImportRun` is an import job: one from the command line (`cli`, `dir`) or the web
server (`web`, and `stream`, whose events the browser reads). A job connects
once, and for each file loads its schema, opens it, creates and truncates the
table if asked, sends its records in batches and then the rest. On SQL Server a
batch is one statement; on Postgres and SQLite each record is.

| `ImportRun` | Code |
|---|---|
| `job` | a run of `import_files_with_logger`, statement by statement |
| `rows` | the tables at the servers |
| `known` | the tables of each project's `wxbtrv.db` |
| `channel`, `heard` | the channel of `stream_import` and what the client has read |
| `emptied`, `reported` | history |

`Works` is weakly fair (a thread that can go on does), and so is `Deliver` (the
server polls its streams). `Crash`, `Leave` and failures have no fairness. So
`EveryStreamEnds` takes for granted that the server answers every statement, with
success or an error: a job whose statement is never answered waits. It does not
speak of a worker that panics (`died`; see below).

`--auto-schema` derives a table from the file's header on any error of loading it
(`runner.rs:141`), not only where it is unknown, and with `--save-schema` files it
beside the one that is there (`LoadSchema`); which of the two the next import of
that name finds is left open.

| Run | Instance | Shows |
|---|---|---|
| `import_run` | 2 jobs, 2 projects (SQL Server, Postgres), files of version 5 and 6 with deleted and stale slots, batches of 2 | `ReportedTableIsTheFile`: a file reported as imported into a table that was emptied for it is the table's content; `CutShortIsAPrefix`: what an import cut short leaves is a beginning of the file, by whole batches on SQL Server; `EveryStreamEnds`: a client that stays sees the end |

Three records in batches of two are a full batch and a rest. The properties are
about files that are read right (`ReadRight`): the header declares no count or
one that reaches the records there are, and the file is of version 6, or has
neither deleted slots nor slots that its chain leads to. What the model leaves
out of the properties, or shows besides:

* The chain of deleted records of a version 5 file is read at an offset that
  holds something else (`btr-import/src/bfile.rs:194`), so it is not found:
  a deleted slot is imported, and, since the reader stops at the count of the
  header, the last record is not.
* The message of a failed batch is cut at byte 400, perhaps within a character
  (`sqlsrv.rs:266`): the worker panics, and the stream ends with neither "done"
  nor "error", though `bimport.rs:103` promises one of them.
* Without truncation a repeated import repeats the records already there; on
  SQL Server `--create` looks for the table in the database it is connected to,
  so for another one it fails, or is skipped, the second time.
* The command line stops at the first error, `import-dir` skips errors of the
  schema only, the web server skips every file in error.
* The job keeps the project it was asked for, whatever is opened later. The list
  of recent projects (`state.rs:97`) is read and written without a lock; it is
  not modelled.

## 11. The shell: DriverShell

`DriverShell` is what surrounds an operation: `ensure_init`, the exported init
and stop, the dispatch of operation codes, and Stat and Stat Extended, called by
several threads. A step is what happens between two accesses to an atomic
variable, locks or statements.

| `DriverShell` | Code |
|---|---|
| `IS_INITIALIZED`, `INIT_COUNT` | the atomics of `state.rs` |
| `Load`, `Preload`, `CountUp`, `SetFlag` | `ensure_init` and `WBRQSHELLINIT`, access by access |
| `Stop`, `CountDown`, `Stopped`, `ClearFlag` | `WBTRVIDSTOP` |
| `Strip`, `Handler`, `OpcodeInfo` | the dispatcher and the table of operations |
| `Dispatch`, `Stat`, `Closed`, `Unique` | Stat: the count; Stat Extended: the count, the handle looked up again, a count per index |
| `loaded`, `counted` | history: tables were read; what there was to count since the call began |

| Run | Instance | Shows |
|---|---|---|
| `shell` | 2 threads, 3 calls, 2 records with one key, indexes of two segments and one, buffers of none, some and all of the specs | `TablesBeforeCalls`: no operation runs before the tables are read; `StatTellsWhatWas`: counts were true at some moment of the call; `BiasedCodesAreHandled`: a code of the table, with a lock bias or not, reaches its operation |

Two records with the same key make the two counts differ; a buffer of 58 bytes
holds the count of a third segment but not its spec. `CountRange = 4` stands for
2^32: two threads that stop at a time take the counter below 0, which leaves it
at its greatest value and the flag set. Also:

* A lock bias on Get Key (155 and so on) is refused with 20, because
  `op_get_key` subtracts 50 from the code as it was called (`get_key.rs:43`). The
  bias +500, which `opcodes.rs` documents, is not taken off.
* A first load that fails marks the driver as initialised all the same, and is
  not repeated.
* Stat with a buffer of 1 to 11 bytes ends the process (`stat.rs:82`). On a
  closed handle it answers 0, where its comment says 3, and cuts its reply
  short, where it says 22. A count that fails is reported as 0.
## 12. What is proved

`BtrSessionProofs` proves, for every set of sessions and handles, every number
of rows, every value set and each of the three servers:

| Theorem | States |
|---|---|
| `TypeCorrect` | `Spec => []TypeOK` |
| `InductiveInvariant` | `Spec => []IInv` |
| `OpenTxnFlagged` | `Spec => []OpenTxnIsFlagged` |
| `LocksReturned` | `Spec => []LocksHeldByCalls` |
| `WritersExcluded` | `Spec => []OneWriterPerRow` |
| `WritesKept` | `Spec => []TransactionKeepsItsWrites` |
| `ExclusiveReads` | `Spec => ExclusiveReadsStable` |
| `ImplementsStore` | `Spec => ImplementsTxnStore` |

The assumptions are those of the modules: `MaxRow` is a positive natural number
(`MaxRowAssumption`), the marks `Absent`, `Clean`, `Free` and `NoHandle` are not
members of the sets they stand apart from (`MarkerAssumption`,
`HandleAssumption`), and `Backend` is one of the three (`BackendAssumption`).
They say nothing about the code.

The argument. None of the four properties is inductive alone. `OpenTxnIsFlagged`
needs that a session inside a call has the connection its transaction is on;
`TransactionKeepsItsWrites` needs that a before-image exists only inside a
transaction (`UndoBelongsToTxn`), that the history `begun` is 0 exactly when
the driver has ended the transaction, and that no other session writes a row
that has a before-image; `OneWriterPerRow` needs that a lock is held by the
connection of the call that is about to execute (`WritesUnderLock`). `IInv` is
the conjunction. Each action is shown to preserve it per session: a part about
transactions (`TxnPart`) and a part about locks (`LockPart`), each of which an
action disturbs for the acting session only, so that one lemma per action and
part suffices, and the properties follow from the parts.

`ExclusiveReadsStable` is an action property and needs an invariant of its own
besides (`ReadInv`): what a session relies on it has read in a transaction that
still holds the shared locks of its reads, so no other session can begin to
write there. For the refinement every step is one of five kinds (`StepKinds`):
it reads, begins a transaction, writes, ends one, or does nothing the store can
see; each kind maps to a step of `TxnStore` or to a stutter. What is committed
of a row is well defined because at most one session has a before-image of it
(`CommittedFacts`).

`HandleProofs` holds the proofs about `StepCursor` and `BtrHandle`. Of the first,
for a table of any size, any records and filters, any cache and batch size:

| Theorem | States |
|---|---|
| `StepTypeCorrect` | `StepSpec => []StepTypeOK` |
| `StepInvariant` | `StepSpec => []StepIInv` |
| `StepWalkComplete` | `StepSpec => []StepSkipsNothing` |
| `CacheInOrder` | `StepSpec => []CacheIsSorted` |
| `CacheComplete` | `StepSpec => []CacheHasNoGaps` |
| `PercentagesLeadBack` | `StepSpec => []PercentRoundTrip` |

Its assumptions are `MaxRecAssumption`, `AbsentAssumption`, `ChunkAssumption`
and `MaxRecsAssumption`. The argument: a query returns the nearest rows of the
set it selects, in order (`QueryFacts`). So a row that is owed, if the query
selects it, is returned or lies beyond the last row returned; it is selected
because a row owed is in the file (the conjunct `stepWalk.todo \subseteq
Present` of `StepIInv`) and beyond the position. While rows wait in the cache
the file changes. A new row has a number above all given out so far, so going up
it lies beyond the cache and going down it is behind the first cached row: this
needs that cached numbers were given out (the first conjunct of
`CacheHasNoGaps`). A row that appears late may lie between two cached rows, and
is then in `late` (`CacheOutlivesWrites`). When a walk begins with rows in the
cache, as Step Next may after Insert, it owes the rows beyond its start that are
not late, and `CacheHasNoGaps` says of these that the cache holds them or that
they lie beyond its end (`CacheHitStep`). So the theorems promise late rows to
the walks that begin with a fetch and to no other. `PercentRoundTrip` is
arithmetic (`ThereAndBack`) on the number of rows and the rank of one.

Of `BtrHandle`, for a table of any size, records of any number of byte ranges,
and batches and descriptors of any length:

| Theorem | States |
|---|---|
| `HandleTypeCorrect` | `HandleSpec => []HandleTypeOK` |
| `HandleInvariant` | `HandleSpec => []HandleIInv` |
| `WritesAimed` | `HandleSpec => []WritesReachCurrent` |

| `BatchesCounted` | `HandleSpec => []BatchCounted` |
| `ChunksKeepTheRest` | `HandleSpec => FreshChunkKeepsTheRest` |

Besides those of `RecordFile` it uses `HandleAssumption`: records are the
functions from byte ranges to contents, and there is a token. The argument:
`WritesReachCurrent` speaks of rows that are present, and a rollback makes rows
present again, so the invariant states it without that (`PositionKnown`). A
batch's count is the cardinality of the
rows it added because each has a number above those before it
(`BatchConsistent`). The image of a chunk call agrees with its row outside the
chunks as long as nobody writes the row, and a row that is inserted meanwhile is
another one, because its number is new (`ChunkConsistent`).

`DriverShellProofs` proves, for any number of threads, any operation codes and
buffer lengths, any indexes with any segments and any finite set of rows:

| Theorem | States |
|---|---|
| `ShellInvariant` | `Spec => []ShellIInv` |
| `TablesFirst` | `Spec => []TablesBeforeCalls` |
| `StatTrue` | `Spec => []StatTellsWhatWas` |
| `CodesHandled` | `Spec => []BiasedCodesAreHandled` |

Its assumption is `ShellAssumption`: the segments belong to indexes the file
has, the rows are finitely many (they are counted), codes and lengths are
natural numbers. The argument: `TablesBeforeCalls` needs that the flag is set
only where the tables have been read, and that a thread between its own load
and the flag has read them too; since nothing unreads them, `Stop` and the
inits of others change neither. `StatTellsWhatWas` speaks of the end of a call;
`ThreadOk` says of a thread in its middle that the specs of the indexes before
`ix` hold a count of keys and the others still the count of records
(`HalfWay`). The history `counted` only grows while a thread is in Stat, so
what was true of it stays so. `BiasedCodesAreHandled` is a fact about the codes
below 500 (`CodesReachHandlers`), of which the invariant keeps that 20 is
answered only where there is no handler.

`CatalogProofs` proves, for any directories, databases, preloaded tables and
number of handles, and for each of the three servers:

| Theorem | States |
|---|---|
| `CatalogInvariant` | `CatalogSpec => []CatalogInv` |
| `CatalogTypes` | `CatalogSpec => []CatalogTypeOK` |
| `DatabasesNeverCrossed` | `CatalogSpec => []NeverCrossesDatabases` |
| `PathsAreStable` | `CatalogSpec => []SamePathSameTable` |
| `OwnNamesWin` | `CatalogSpec => []OwnNameWins` |
| `IndexNumbersDistinct` | `CatalogSpec => []NumbersDistinct` |

Its assumptions: names and what `normalize_key` makes of them are names
(`NameAssumption`), the preloaded tables are in the order of their names and
each has distinct index numbers, at most as many as the limit
(`DefinedAssumption`; the first is the ORDER BY of the preload, the second a
constraint of `btr_indexes`), and `Closed` is no table (`ClosedAssumption`). The
argument: a key with a database leads to tables of that database only, because
the preload files a table under its own database and a discovered one is looked
for in it (`TablesInv`). The table of an open handle is the one its path leads
to *now* (`HandlePart`), and no later discovery changes that: it takes a key
only where every key the path tries is free, and what `Reload` forgets was filed
under plain names (`LookupsKept`). `OwnNameWins` rests on the order
of the names: a name sorts before the other keys its table is filed under
(`VariantsSortAfter`), so no table that comes later in the preload can take it.

`KeyCursorProofs` proves, for any table, fields, indexes of any number of
segments and directions, key buffers, filters and batch size:

| Theorem | States |
|---|---|
| `KeyInvariant` | `NoNulls => (KeySpec => []KeyInv)` |
| `WalksSkipNothing` | `NoNulls => (KeySpec => []WalkSkipsNothing)` |
| `GetsReturnNeighbours` | `NoNulls => (KeySpec => []NeighboursWhenFlagged)` |
| `EqualIsEqual` | `KeySpec => []EqualMeansEqual` |
| `EqualIsFirst` | `NoNulls => (KeySpec => []EqualFirstWhenAscending)` |

`NoNulls` says that no record has NULL in a column of an index. It is a
hypothesis and not an assumption of the module because the code does not ensure
it: with a NULL the properties fail, which section 4 describes. The argument:
the continuation predicate of Get Next, a disjunction over the prefixes of the
index, selects exactly the rows beyond the current one in the lexicographic
order of the index (`ContinuationIsBeyond`, `OrderIsIndexOrder`); that order is
total, the record number deciding (`BeyondIsTotal`); so the first row of the
query is the nearest (`AdjacentIsNearest`), and what a walk owes lies beyond it
or is it. `KeyInv` adds to the types that the values remembered are those of
the record returned last (`CurrencyHolds`) and that a walk goes by the flags of
its index and owes rows that are there (`WalkHolds`).

`ImportRunProofs` proves, for any number of jobs, projects, files, requests and
tables, and batches of any size:

| Theorem | States |
|---|---|
| `ImportInvariant` | `Spec => []ImportInv` |
| `ReportedIsComplete` | `Spec => []ReportedTableIsTheFile` |
| `CutShortLeavesAPrefix` | `Spec => []CutShortIsAPrefix` |

Its assumptions give the files, the requests and the saved tables their types
(`FileAssumption`, `RequestAssumption`, `SavedAssumption`). The argument: of a
file that is read right the records read are the live ones (`ReadingFacts`; that
the slots of the pages form a sequence is proved of the library's recursive
function by a least counterexample). While a job sends the file for which it
emptied a table, the rows there followed by what is left to send are the file
(`EmptiedHolds`), and the number of rows is a multiple of the batch or the file
is through (`BatchKeeps`, `OneMoreBatch`). A file that was reported lies behind
its job (`ReportedHolds`), so a job never comes back to a table it has reported
for the same file; another job that writes there takes the table out of the
history.

`ConfigDbProofs` proves, for any number of processes and operations, any files,
batches, names, settings and ids:

| Theorem | States |
|---|---|
| `ConfigInvariant` | `Spec => []ConfigInv` |
| `ImportsAreComplete` | `Spec => []ImportedTablesAreComplete` |
| `MigrationRemembered` | `Spec => MigrationIsRemembered` |

Its assumption (`ConfigAssumption`) gives the files their parts, with finitely
many fields and indexes and known keys, says that the settings are finitely many
and that `None` is neither a file nor a row. The argument follows an import
statement by statement. `Planned` says, of a job that imports, which statements
of its file are left (`Remaining`) and, while nobody else has worked on the
table, that the table is the file but for these (`StoredIn`): after the fields
and indexes have been cleared the fields there are those not left to insert, and
the indexes those not left, the last of them but for the segments not left.
`ImportStep` gives each statement its place in the plan; where the next file
begins nothing is left of the last (`FileIsStored`), which is when the history
trusts the table. Every other command keeps to the order of its statements
(`Edits`, `Follows`), and an id that a job has looked up stands for a table the
job is about until the history calls it stale (`IdsHold`). A statement then
touches one table (`Touches`, `TableStatement`), and whatever it leaves the same
(`Same`) stays as trusted and as far imported as it was (`KeptTrust`, `KeptJob`).
Keys are unique also across `set-table`, because tables that move keep their name
and all tables of the name move. For the stamp: `Upserted` keeps it, and `mark`
and `unmark` end their command (`AtEdit`). The concatenations in which the model
writes the statements are the library's recursive functions; what is needed of
them (`FlattenHead`) is proved by a least counterexample.

`RecordCodecProofs` proves, for record layouts of any number of fields of any
types, lengths, offsets and defaults, for any bytes a caller puts in them, and
for keys of any number of segments:

| Theorem | States |
|---|---|
| `CodecInvariant` | `Spec => []CodecInv` |
| `KeysFindRecords` | `Spec => []KeyFindsRecord` |
| `InsertedReadsBack` | `Spec => InsertReadsBack` |
| `UpdateKeepsTheRest` | `Spec => UpdateChangesOnlyEdits` |

Its assumption (`CodecAssumption`) is what the metadata and the server say: types,
offsets and lengths are natural numbers, a default is a value its column can
have, the record number, where it is a field, is one of integers (`op_insert`
writes the identity into it as a little-endian integer), and the number assigned
next fits it. Fields may overlap, lie beyond the end of the record, or be too
short for their type.

The argument. Neither direction alone is enough, and a field at a time is not
either, because fields share the buffer. `RoundTrip` says, type by type, that
what a decoder made of some bytes, packed and decoded again by any of the three
decoders, is the same value (if `Settled`); `CanonicalAgain` says of bytes that
are `Canonical` that they are packed again as they were. The digits of dates and
times are arithmetic about division with remainder (`Bytewise`, `Hundredwise`
and that both are unique). `LaidFacts` takes this from a field to the record: a
field that shares no byte with another one reads from the buffer exactly what was
packed for it, whatever the others are. `CodecInv` then says that every column
holds what a decoder made of some bytes, or the identity, or nothing
(`InColumn`), and that the buffer still decodes, outside the fields that were
edited, to the columns (`BufferHolds`); the second is what
`UpdateChangesOnlyEdits` needs of the step before, and holds after Insert only
because the new identity is written into no other field (`WithIdFacts`). For
keys, the place of a segment is the sum of the lengths before it (`KeyAtFacts`),
and the concatenation of the slices has each slice at that place (`KeyPieces`);
both are recursive functions, of which what is needed is proved by a least
counterexample.


Only model-checked: `EveryCallReturns` and `EveryStreamEnds`, which are liveness
under fairness and beyond the provers.
## 13. What is not modelled, and the plan

Not modelled:

* Code without behaviour over time: the INT parser and the file reader of
  `btr-types`, the Magic XML parser of `db-config`, lists, exports and
  connection tests, tracing, `opcode_map.rs`. `unpack_row` of `record.rs`, which
  only benchmarks and fuzzing call.
* Marshalling: the DOS driver, the registers and pointers of the Windows shim.
  The DBU exports and their row cache.
* In the web server: the list of recent projects, the comparison of schemas, the
  record browser, the health pages, the user interface. The installer and the
  test harness.
* Threads that share `CONN` and `TXN_ACTIVE`. `DriverShell` has the threads of a
  process up to the dispatch and in Stat; in `BtrSession` a process makes one
  call at a time, which `sql.rs` states of an application per position block.
  Several threads with a block each are in the list of hazards without a
  property, because the driver promises nothing for them.
* The layout of the buffers of extended operations and of Stat, beyond which
  specs fit.

Worth proving next: that `Calendar` agrees with the calendar for every day, which
is an induction over the years and now only evaluated.
