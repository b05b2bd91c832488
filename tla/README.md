# TLA+ specifications of goInception Plus

goInception Plus audits a batch of SQL statements against a target MySQL
server and, when asked to, executes the batch and keeps SQL that undoes it.
Clients reach it over the MySQL protocol. These modules model the parts in
which order, failure and concurrency decide whether a batch is executed,
reported and undone correctly.

## 1. The system

| part | source | state | operations |
|---|---|---|---|
| protocol server | `internal/protocol/server.go`, `management.go`, `cmd/goinception-plus/main.go` | semaphore of connections, process registry, signal context | accept, handshake, query, KILL, shutdown |
| runtime configuration | `internal/config/runtime.go` | configuration under a lock | `inception set`, `inception set level`, a snapshot per request |
| request envelope | `internal/request/legacy.go` | none | split the text, frame, directives |
| session | `internal/session/session.go` | records of one request, current database | parse, audit each statement, gate, execute, report |
| metadata cache | `internal/metadata/cache.go` | entries and flights per key | LoadSchema, LoadTable, Put, Delete |
| schema snapshot | `internal/metadata/snapshot.go` | the cache, with the batch's own DDL laid over it | PrepareDDL, ApplyDDL |
| rules | `internal/audit/...` | none, except one record of altered tables per batch | a verdict per statement |
| execution engine | `internal/execution/mysql/engine.go` | one connection, results | Execute, prepareDDLRollback |
| binlog capture | `internal/backup/binlogmysql/capture.go` | binlog positions, current owner | MasterPosition, Collect |
| rollback generator | `internal/rollback/generator.go` | none | Generate |
| backup store | `internal/backup/mysqlstore/store.go` | tables in a backup database | Save |
| observability | `internal/observability` | counters | Run, HTTP handlers |
| parser adapter, result adapter, metadata provider, TOML loading, CLI | | none or I/O | |

A request passes through them in this order. The protocol server registers the
query under a context that KILL, `audit_timeout` and a signal can cancel. The
session cuts the text at its semicolons, joins the parts again for the parser,
takes a copy of the configuration and
audits each one against a view of the target that includes the effect of the
statements before it. If the gate lets the batch pass, the engine executes it on
one connection. With backup on, the engine notes the position of the binary
log before and after a statement, collects its rows from the log, writes
the inverse SQL and saves it in the backup store. Each record then receives the
outcome of its statement.

What is hard here:

- the target, the binary log and the backup store fail independently, and a
  statement cannot be taken back once it was executed;
- a context may be cancelled at any step, while the target goes on;
- other clients write to the same binary log and alter the same tables;
- several callers share the loads of the metadata cache;
- the audit judges statements by a prediction of what earlier ones will have done;
- an undo is a replay in another order, later, by an operator;
- KILL and shutdown race queries that end and begin;
- the text is read twice, by the splitter and by the parser, and settings change
  while a batch is audited.

`PROJECT.json` lists these hazards at the lines where they bite, with the
properties that cover them, or the reason why none does.

## 2. Modules

```
Catalog ── Snapshot ── DDLRollback    what the server holds / what the audit
                                      predicts / the undo of DDL
Envelope ──┬── AuditRequest           a request from text to records
RuntimeConfig
SavePromise ◁─ BackupStore            the abstract promise / Save, which refines it
Execution   BinlogCapture   DMLRollback   MetadataCache   Gateway
```

For each specification `X` a module `MCX` gives the constants their small
values, and `XProofs`, where there is one, holds the theorems about it
(`AuditRequestProofs` those about `Envelope` and `RuntimeConfig` too, `SnapshotProofs`
those about `Catalog`). `Execution` treats the capture and the store as one step each: their
behaviour is the subject of `BinlogCapture` and `BackupStore`, and what
`Execution` needs of Save is stated by `SavePromise`. `DDLRollback` takes its
admission test from `Snapshot` through `INSTANCE`. `AuditRequest` composes
`Envelope` with `RuntimeConfig`. Definitions written next to
an operator and named after it with a suffix (`FoldTrustsExecution`,
`WakeNobody`) are the plausible mistakes against which the properties were
tried; `PROJECT.json` pairs each one with the property it breaks.

### Execution
`Session.Audit` from the gate on, and `Engine.Execute`. A statement is reduced to
what the executor tells apart: `use`, `select`, `dml`, `ddl` (an inverse is
known), `lossy` (none is). `pc` walks through the loop body; each remote call is
an action with a success and a failure branch. `wire` and `applied` are the
target's side: after `StopWaiting` the target may still apply what was
sent. `saved` is the set of statements whose rollback is complete in the store.
`Fold` copies results into records in the manner of session.go, and stops at the first
result with an error. An empty batch whose executor cannot be opened reaches `panic`
(session.go:187 indexes `records[0]`).

### Envelope and AuditRequest
`Envelope` is ParseLegacyEnvelope as operators on texts. A text is a sequence of
characters, where a word of ordinary text and a control marker are one character
each, a quote stands for `'` or `"`, `bang` for the `!` (with its version) of an executable
comment, and characters that SQL or TLA+ treats
specially go by their names (`semicolon`, `backslash`). `Scan` is the loop of splitSQL, state by
state; `JoinParts` puts the parts together again. The second half of the module
is the reference: the lexical rules by which the parser, a library, reads SQL,
stated by position and not as a scanner: what begins at a position (`KindAt`), where
that ends, by the first closing character after it (`EndAt`), and hence which positions
begin something (`Begins`), with and without `NO_BACKSLASH_ESCAPES`. Of an executable
comment only the opening is an item; what is in it is code like any other, up to the star
and slash that close it. Directives are a sequence of key and value, with `canonicalDirective` and
`parseBool` on the spellings of the run (`ToLower` and `Underscored` are tables of those).

`AuditRequest` is one request: HandleQuery, the envelope, the opening of the
metadata, the policy taken from `RuntimeConfig`, the parse of the joined text, one
`AuditStatement` per statement, the gate, and the opening of the executor. A
statement is a word; which rules it breaks and which table it alters are
constants. `SeenAlterTables` is kept as in legacy_ddl.go, by the name in lower case
(`LowerName`). `OthersSet` is
`inception set` on another connection, at any time. The execution that follows
is module `Execution`.

### BinlogCapture
The log is a sequence of events with 32-bit end positions (`PosLimit` stands for
2^32, `SizeLimit` for max_binlog_size). Positions wrap inside a large transaction;
the server ends the file with the commit that passes SizeLimit, so SHOW MASTER
STATUS never names a position beyond the wrap. `filtered` says that
binlog-ignore-db keeps the statement's schema out of the log. Other threads commit transactions, rotate the log and alter the
table at any time. `ReadEvent` is one pass of Collect's loop: the position test,
the owner taken from the QUERY event, the test of the owner, the decode against
the column list loaded at that time. An event with position 0 does not move the
current position (`CurrentAfter`), as in capture.go:123.

### SavePromise and BackupStore
`SavePromise` says what the engine believes: Save answers once, and answers
success only if the rollback is complete in the store. `BackupStore` is Save
itself: records are grouped by backup database (a Go map, hence any order), and
each group has schema creation, a transaction, CREATE TABLE (which commits
implicitly), row inserts, the information row and the commit. A group is the set of
positions of its records, `next` the first position not yet handled, `Remaining`
what is left of the loop. The process may crash
between any two steps. `complete` is the refinement mapping.

### MetadataCache
Callers, keys and versions of the target's objects. `Hit`, `Join`, `StartFlight`,
`Land`, `CrashLand`, `LookAgain` and `WaitCancelled` are the pieces of LoadTable
between lock operations; `Put` is the DDL overlay of PutTable and DeleteTable. It is
modelled while no flight of its key is open. The code does not test for that; it is so
because session.go:75 makes a cache per request and one goroutine uses it. A Put during a
flight would be lost when the flight lands, and that case is not in the model.

### Catalog, Snapshot
`Catalog` is the server, external to the repository and modelled from how the
code uses it: what a statement does to schemas, tables, views, columns and indexes, and when it is
refused. `Snapshot` is the audit: `view` is what PrepareDDL and ApplyDDL make of
the cache, `database` the current schema of the session; `target` and `current`
are the server's. The abstraction drops column types, options and positions.
A verdict of any other rule is the action `Reject`, except that the indexes
`checkIndexes` of legacy_ddl.go counts and compares are modelled.

`Statement` is the set of the statements modelled. A CREATE INDEX and a DROP
INDEX are an ALTER of one operation, as in applyTableDDL. Besides what the parser
projects, a statement has the keys and indexes it does not project and of which the server
makes indexes all the same: `COLUMN_KEY` is UNIQUE or PRIMARY KEY in the definition of a column
that ALTER adds, modifies or changes, `unprojected` are UNIQUE in a column, FULLTEXT,
SPATIAL and FOREIGN KEY of CREATE TABLE (parser.go:397, 531). The audit's side of the model
ignores both, as the code does. Not in the model: indexes without a name and index
kinds (all are lists of columns).

Four kinds of statement lead the view astray: DROP DATABASE, DROP TABLE IF EXISTS
of a view, CREATE LIKE or ALTER RENAME that mixes names with and without
schema, and an ALTER that names a column or an index by a name which an operation
before it in the same ALTER gave to another, or which adds a column it dropped
(`ReusesNames`: MySQL reads such names in the old definition, snapshot.go as the
operations before left them). The history variable `doubt` holds the tables they touch, and every table
named together with one of them later. The properties speak of all other tables:
they say that the damage stays there.

Statements with keys or indexes that are not projected do less harm: the view then lacks
indexes of the table and nothing else. The history variable `hidden` holds such tables and
those named together with them. The properties ask of a hidden table all they ask of others, but for its indexes.

### DDLRollback
`prepareDDLRollback` before each statement, the execution, and then the replay
that MANUAL_TEST_GUIDE.md:176 prescribes: last statement first and, within a
statement, last record first.

### DMLRollback
A table with indexes, nullable and generated columns of three types, the reliable-key rule of the audit
(`hasReliableKey`), row changes, `keyWhere` and `Generate`, and the replay. A WHERE
that matches several rows with `LIMIT 1` is a choice among them. `literalColumn` is
the value a server reads out of the literal: the binlog reader hands out integers
with a sign (`Half` is 2^(w-1) for columns of w bits; the upper half of an
`unsigned` column is read as negative), and backslashes are doubled. The target runs in strict mode.

### Gateway
`Server.Run`, `serveConn`, the process registry, KILL in its two halves (look up
under the lock, call after it), the closer goroutine of the shutdown, the
drain, and `main`, which returns with the first service to return. After an error
of either service beside the other (the observability server cannot listen or serve, Accept
fails) `main` ends the signal context, sleeps and exits: `StopOnError`, then `Exit`, with
steps of everyone else between them.

### RuntimeConfig
A rule's level may be set under its RuleID or its legacy name and is kept in two
places, or in none, and then the catalog's default counts, which differs by rule
(`DefaultLevel`). A rule need not have a legacy name. `EffectiveLevel` says which of them counts. A request works
with the `Policy` it took at its beginning.

## 3. Runs

| run | states (distinct) | bounds |
|---|---|---|
| execution | 293 k | every batch of up to 2 statements of 5 kinds and of 3 over `use`, `dml`, `ddl`; all options, levels and failures |
| binlog_capture | 352 k | 2 rows per transaction, 13 events, 2 log files and those that fill up (size 4), positions modulo 6 |
| backup_store | 24 k | up to 3 rollback records over 3 schemas, two of which share a backup database |
| metadata_cache | 9 k | 3 callers, 1 key, 3 versions |
| snapshot | 130 k | batches of 3 statements; 2 schemas, 2 names, 2 columns, 2 indexes; ALTERs of up to 2 operations, and of columns with a key |
| ddl_rollback | 143 k | batches of 4 statements; 2 schemas, 2 names, 3 columns, 1 index |
| dml_rollback | 564 k | 3 row changes; 2 columns of 1 bit and NULL, 7 index lists, generated, unsigned and text columns |
| gateway | 784 k | 2 connections of 2 queries each, limits 1 and 2 |
| audit_request | 315 k | 20,176 requests: every body of up to 3 characters of 13 (4 of 10), up to 3 of 19 lexical fragments, 2 statements with fragments between; 21 directive lists; 2 rules, one with a legacy name; 2 tables whose names differ in case |

*execution.* `GateProtectsTarget`: nothing of a blocked batch is sent or applied.
`AtMostLastUnprotected`: with backup on, of all applied statements at most the
last lacks its rollback. `HonestReport`: at the end each record says of its
statement what happened to it. `LateEffectOnlyOnFailed`: the target applies a
statement that the engine has given up only if its result is a failure (so a
record that says ExecuteFailed does not say that the statement had no effect).
`CancelledRequestEnds`: a cancelled request comes to its report. Two statements
show every interplay of neighbours, the third one a success on both sides of a
failure.

*binlog_capture.* `OnlyOwnRows` and `NoOwnRowSkipped`: what Collect keeps is exactly
the prefix of the statement's rows, whoever else writes between the two positions.
`CompleteOnSuccess`: success means all of them, as many as the server reported,
unless the schema is filtered and nobody else wrote. It says nothing of a statement for which
the server reported no row. `CollectReturns`: once reading, it
returns. A second file makes positions compare across a rotation; thirteen events leave
room for a foreign transaction before, inside and after the range, and a size of 4
lets a transaction begin just below it and wrap at 6.

*backup_store.* `InfoRowMeansComplete`: an information row in the store, after any failure or
crash, has its rollback rows. `RowsInOrder`: the rows of one table have the order
of the records. `KeepsPromise`: BackupStore implements SavePromise.

*metadata_cache.* `LoadedOnce`: one successful load per object and request.
`AnswersAgree`: all answers since the last DDL on an object are the same.
`WaitersHaveFlight`: no caller waits for a flight that is over.
`CancelledCallReturns`. Three callers allow one to fly, one to wait and one to
come between a failed landing and the waiter's second look. The code never joins
two keys, so one suffices.

*snapshot.* `ViewMatchesTarget`: after any admitted batch the view has the shape of
the server's catalog, outside `doubt` and the indexes of `hidden` tables. `AdmittedDMLRuns`: the server knows the table and the columns of a DML
that the audit let pass. `RejectedChangesNothing`: a statement that
is turned down leaves the view alone, except a RENAME that names a source twice. `IndexRulesJudgeResult`: the indexes a
statement is judged by are never fewer than those the server will have, and
exactly those (as are the redundant pairs) unless columns are dropped or renamed. Hidden
tables are out: for them the number is too small (see below).
Three statements suffice for a chain of
create, rename and use. Longer batches and ALTERs are covered by the theorems.

*ddl_rollback.* `RollbackRestores`: the replay runs to its end and arrives at the
catalog the batch started from. It starts with tables without rows, since the
inverse of DROP TABLE does not restore rows; that loss is outside the property.

*dml_rollback.* `RowsRestored`: the replay arrives at the rows before the
statement, with three exceptions that it names: it stops at a DELETE or UPDATE of a
table with a generated column; it stops, and never restores a wrong value, where an
unsigned value needs its top bit; and a text with a backslash needs a replay with
backslash escapes. `AdmittedHasRollback`: with the key rule on, every admitted statement has
a rollback. Three changes let a row be inserted, moved onto the key of another, and
deleted.

*gateway.* `RegistryIsCurrent`: the registry holds exactly the connections that are past
their handshake, and the cancel function of the query that runs now.
`DrainedUnlessObserved`: the process is gone before `shutdown_timeout` with a connection
unserved only if the observability server returned, which is the finding below, or if an
error ended it.
`KillHitsOnlyItsQuery`: a query is cancelled by KILL only if some KILL has looked up
this very query, although it fires after the unlock. `ShutdownCompletes`: after a signal the process ends
even without `shutdown_timeout`, unless a connection was in its handshake when closeAll looked.

*audit_request.* `SplitIsLexical`: the scanner cuts a text exactly at the
semicolons that are neither quoted nor in a comment, and refuses exactly the texts
with an open quote or comment. The splitter takes an executable comment for a
comment, so a text in which one holds a semicolon, a quoted text or a comment (`HoldsCode`) is out,
here, in `StatementsKept` and in `ExecutedWasWritten`. `StatementsKept`: the text joined for the parser
has the statements the client wrote, but for the two things TrimSpace does to a
line comment at the end of a part. `ServerStaysUp`: only a request of nothing but
comments reaches the write to `records[0]`. `ExecutedWasAdmitted`: the executor is
reached only if execute was given as 1, true or on to a service that may execute and every statement it is given
has its own record that passes. `ExecutedWasWritten`: those are the statements the client wrote. `OnePolicy`: two like statements of a batch are
judged alike whatever others set meanwhile. `AlterOnceFlagged`: exactly the second
and later ALTERs of a table are flagged, whatever became of the earlier ones, where
tables count as one if their names differ only in case.
`LastSetWins`: the level in effect for a rule is the last one set for it, under
either name. Four characters are enough for each pair of a scanner state and the
next two characters; fragments put whole comments and quoted texts side by side.
Bounds: `MaxPacket`, `MaxRequestBytes`, `MaxStatements` and `MaxStatementBytes` stand for
the code's limits; texts of 30 and 40 characters and one more (`LongTexts`), four
statements and parts of up to 15 characters meet and exceed them. A request ends, so the
run does not check for deadlock.

### Findings

Three runs end in a violation of what the repository says of itself.

- **ddl_rollback_if_not_exists**: `CREATE TABLE IF NOT EXISTS` on a table that is
  there does nothing, and stores `DROP TABLE` as its inverse (engine.go:232).
- **ddl_rollback_alter**: the inverses of one ALTER are stored last operation
  first, and replayed last record first, hence in the order of the original
  operations. After `ADD COLUMN y, ADD INDEX i (y)` the replay drops the column,
  the index goes with it, and DROP INDEX is refused (engine.go:260).
- **gateway_observed**: with observability enabled the process exits when that
  service has shut down, while the protocol server still waits for its
  connections (main.go:75).

### Disagreements without a run

Named as exceptions by the properties, which show that nothing else goes wrong:

- the newline that ends a line comment is trimmed before the parts are joined:
  of `a -- c`, newline, `; b` the comment swallows the new semicolon and the rest
  of the batch is read as one statement; a bare `--` at the end of a part is no comment any
  more (legacy.go:144). PHASE_1_7_CASES.md:18 wants the text split correctly
  and the number of statements right;
- the splitter does not know the sql_mode the parser uses: under
  NO_BACKSLASH_ESCAPES the two read a backslash before a quote differently (legacy.go:300);
- it takes `/*! ... */` for a comment, while the parser reads its content as code: a
  semicolon in it ends a statement unseen, and a quoted text or comment in it may hide the
  end of the comment (legacy.go:288). In `a /*!'*/;'*/-- '`, newline, `; b` the splitter takes
  the last comment for a quoted text, the newline is lost and a and b are executed as one;
- the ALTER counter uses the name in lower case on every server: with
  lower_case_table_names=0 the first ALTER of `T` after one of `t` is told to be merged
  (legacy_ddl.go:94), while PHASE_1_7_CASES.md:47 and MYSQL_57_80_REGRESSION.md:147 want names
  to follow the server's mode, and the metadata cache does;
- a request of nothing but comments panics if the executor cannot be opened (session.go:187, 192);
- DROP DATABASE leaves the tables of the database in the view (snapshot.go:82),
  DROP TABLE IF EXISTS of a view removes it from the view of the audit
  (snapshot.go:88), and names without schema in CREATE LIKE and ALTER RENAME follow
  the statement's table, not the current database (snapshot.go:31, 295);
- UNIQUE and PRIMARY KEY in a column's definition, FULLTEXT, SPATIAL and FOREIGN KEY of
  CREATE TABLE leave indexes out of the view (parser.go:397, 531), so that a later DROP or
  RENAME of one is turned down and max_keys counts too few (legacy_ddl.go:208-234): after
  `ADD COLUMN y INT UNIQUE` the snapshot does not have the index the server made.
  GIP_RULE_CONFIG_GUIDE.md:82 ("表的索引总数超限") and RULE_CATALOG.md:28 ("表索引数上限") have
  max_keys limit all indexes of a table;
- an ALTER that uses a name again after it gave it away leaves other columns or
  indexes in the view than on the server; CHANGE COLUMN does not check its new
  name at all (snapshot.go:247);
- a RENAME that names a source twice is half applied and then rejected (snapshot.go:97);
- DROP INDEX is judged as if it added the index it drops, and dropped or renamed
  columns stay in the indexes the rules compare (legacy_ddl.go:209-232);
- Collect answers "no rows" when the positions are equal, which under binlog
  filters hides changed rows (capture.go:96; docs/PHASE_1_5:47 wants a failure);
- generated columns are assigned by the rollback (generator.go:29), and unsigned
  values are written as the signed integers the binlog reader returns (generator.go:123).

Kept out of the passing runs by the choice of statements or by a stated assumption:

- indexes without a name share the empty name (snapshot.go:193), and a view
  created in the batch has no columns in the snapshot (snapshot.go:86);
- the inverse of DROP TABLE has no rows and names no schema (engine.go:234), and that of
  CREATE DATABASE IF NOT EXISTS drops a database that was there (engine.go:229, as the finding has it
  for tables);
- an ALTER of another client that keeps the number of columns goes unnoticed
  between execution and collection (capture.go:187);
- a rollback over two schemas is split over two backup databases (store.go:82);
- rows changed by foreign-key cascades are not in the log;
- connections in their handshake are missed by closeAll (server.go:57), and the idle
  deadline also bounds the writing of an answer (server.go:99);
- a successful audit leaves the warnings of an earlier command in place, so SHOW
  WARNINGS then shows an error that is not of the last command (server.go:203;
  PHASE_1_7_CASES.md:163 wants those of the latest command);
- `inception set` of backup settings and `max_allowed_packet` reaches nothing that
  reads them later (runtime.go:82).

## 4. Fairness

- *Execution*: weak fairness of the engine's local steps, and of any engine step
  once ctx is done. Every remote call takes ctx, so it returns then. A target or
  a store that stays silent is allowed before that.
- *BinlogCapture*: weak fairness of `ReadEvent`: the dump thread sends what is in
  the log. The 30-second timer is not needed.
- *MetadataCache*: weak fairness of a caller's own steps, strong fairness of
  leaving a wait when ctx is done (`select` chooses at random among what is
  ready), and a cancelled load returns. A source that never answers is allowed.
- *Gateway*: weak fairness of the goroutines of the shutdown, of a connection
  whose socket is closed, and of a query whose context is done. Clients, signals
  and timers are not fair.

The other specifications state safety only.

## 5. Proofs

Each theorem holds for all values of the constants that satisfy the named
assumptions of its specification.

**ExecutionProofs**, from `BatchesAssumption` and `SleepRowsAssumption`: `TypeCorrect`,
`GateCorrect`, `OrderCorrect`, `ReportCorrect`, `LateEffectCorrect`. None of the
properties is inductive: whether statement k may be unprotected depends on where
the loop stands. The invariant is

    IInv == TypeOK /\ ProgressInv /\ RecordsInv /\ GateHolds

`ProgressInv` ties `pc` and `cur` to `results`, `wire`, `applied` and `saved`:
statements before `cur` have a result without error and, where needed, a saved
rollback; nothing after `cur` was touched; at `cur` the progress is what `pc`
says. `RecordsInv` says that records are those of the audit until they are
folded and what `Fold` makes of them afterwards. `GateHolds` carries the decision
of the gate along. One lemma per action shows that it keeps the invariant, and the four
properties follow from it without further induction.

**MetadataCacheProofs**: `TypeCorrect`, `LoadedOnceCorrect`, `AnswersAgreeCorrect`,
`NoLostWakeup`, with

    IInv == TypeOK /\ FlightInv /\ EntryInv /\ AnswersAgree /\ WaitersHaveFlight

`FlightInv`: a flight belongs to the one caller that flies for its key.
`EntryInv`: there is no flight over an entry, and a key that was loaded once has
one. Together they give that a second successful load cannot begin.

**AuditRequestProofs** begins with RuntimeConfig: `TypeCorrect`, `LastSetWinsCorrect`.
The mapping of legacy names to rules must be one to one (`RuleOfAssumption`); the proof
shows that each setter moves the effective level of its own rule and of no other.
Then, for all requests, rules and statements, from `WordsAssumption` and
`InputsAssumption`: `RequestImplementsConfig`, `OnePolicyCorrect`,
`AlterOnceFlaggedCorrect`, `ExecutedWasAdmittedCorrect`. The first shows that
each step of a request is a step of RuntimeConfig or leaves the settings alone, so
`LastSetWins` and the types of RuntimeConfig hold in the composition too. For the
others

    AuditInv == IInv /\ PhaseInv /\ SeenInv /\ RecordsInv /\ ExecutedWasAdmitted

`SeenInv`: the counter of a name in lower case is positive exactly if a record alters a table of that name.
`RecordsInv`: there is one table of levels, during the audit the one of the
request's policy, from which every record follows (`Judged`). `OnePolicy` is not
inductive without it: two records alike say nothing about the next one.

`SplitIsLexicalCorrect` is about texts of any length and over any characters, `HoldsCode`
excepted. The scanner
and the lexical rules are both followed from one position to the next (`Scanning`,
`Lexing`), and at each position

    Agrees == Between \/ AtSlash \/ \E b : InLine \/ InBlock \/ InExec \/ InQuote

says what the scanner's state means in terms of the rules: between two lexical items, on
the first character of a block comment's start, or within the comment or quoted text that
began at `b`. An executable comment is a comment to the scanner and code to the rules
(`InExec`): as it holds nothing that matters, the rules step through it character by
character and close it where the scanner does. The hard part is `InQuote`: the scanner decides by two flags, `escaped` and
`skip`, what the rules decide by looking back over a whole run of backslashes or quotes.
`OddRun` states such a run by its parity, and both flags are shown to be that parity.
From `Agrees`, a semicolon cuts if and only if something begins there (`CutsAgree`), the
parts collected so far are the pieces between the cuts so far (`PartsAgree`), and the
scan ends in code or a line comment exactly if nothing is left open (`OpenAgrees`).

**SnapshotProofs**: `TypeCorrect`, `FailureLeavesView`, `ViewIsTarget`, `DMLRuns`,
`IndexesJudged`, for batches of any length over every statement of `Statement`: any
schemas, names and columns, RENAMEs of any number of pairs and ALTERs of any number of
operations. The assumptions: `SourcesAssumption` (the target starts with a catalog, no
table of which has two columns of one name, which MySQL guarantees), `StatementsAssumption`,
`LengthAssumption`, `AbsentAssumption` and `NoSchemaAssumption` (the two markers are
no names), and `IndexNamesAssumption` (finitely many index names; identifiers are of
bounded length), without which the indexes of a table could not be counted. The invariant is

    IInv == TypeOK /\ DistinctColumns(target) /\ Matches /\ AdmittedDMLRuns

where `Matches` is ViewMatchesTarget over `Agree`, which asks of two tables the same columns
and, unless they are hidden, the same indexes. `DistinctColumns` is needed because
snapshot.go acts on the first column of a name (`findColumn`) and MySQL on the column.
The argument: a statement that is not in doubt names the same tables on both sides
(`NamesAlike`), and these agree; so for each kind of statement admission by the audit,
if the server accepts the statement, leads both sides to tables of the same shape. One lemma per kind shows
this. Two of them hold the work. For RENAME, both sides are followed pair by pair
(`Moving`). For ALTER, the audit applies the operations one after the other and the server
applies them together to the old definition; `AlterAgrees` shows that after k operations
the audit's columns are the old ones through the renames and drops of the first k
(`MapAt`), followed by the added ones (`ColumnsAt`), and that its indexes are
those kept, renamed and added so far (`IndexesAt`), as long as no name is used again. After all
operations this is what the server has.
`IndexesJudged` pairs each index the table has afterwards with one that checkIndexes looked
at (`Pairing`). The pairing is one to one, so no fewer are judged than there are; if no
column is dropped, every judged index is paired, so there are as many; and if none is renamed
either, the two of a pair have the same columns, so redundancy is the same.

Facts about what a recursive function computes need induction over positions of a
list or a text. It is done by hand: `Induction`, from the least counterexample, over a set of
positions in place of a predicate, and `Recursion`, the existence of the function
that follows given steps.

**GatewayProofs**, from `ConnsAssumption` (finitely many connections) and
`BoundsAssumption`: `TypeCorrect`, `RegistryCorrect`, `DrainCorrect`, `KillCorrect`, with

    IInv == TypeOK /\ RegistryIsCurrent /\ KillInv /\ DrainInv

`KillInv`: the query number a KILL has looked up is at most the victim's current
one, and if they are equal and the victim is still in its query, that query is
aimed at. Query numbers only grow, so the call after the unlock hits that query or
nothing. `DrainInv`: once wg.Wait has returned, no goroutine is left and none starts.

**BinlogCaptureProofs**, for logs of any length, from `SizeLimit < PosLimit`:
`TypeCorrect`, `OnlyOwnRowsCorrect`, `NoOwnRowSkippedCorrect`,
`CompleteOnSuccessCorrect`, with

    IInv == TypeOK /\ LogInv /\ EngineInv /\ OnlyOwnRows /\ NoOwnRowSkipped /\ CompleteOnSuccess

`LogInv` is about the server: a row follows the QUERY event or another row of its
own transaction, only a rotation changes the file, and no event is past the
position SHOW MASTER STATUS names, wrapped or not. `EngineInv` is about the code:
the stream starts between two transactions, `currentThread` owns the rows that
may come next, and while a row of the statement is still to come, Collect's position
stays before `end` (`RowsBefore`). The last part makes success mean that nothing was
missed; it is where `SizeLimit < PosLimit` is needed. The same `IInv` was model-checked
on the states of run binlog_capture.

**BackupStoreProofs**, from `OperationsAssumption` (rollback records name a table,
which engine.go:147 and prepareDDLRollback see to): `TypeCorrect`, `InfoRowCorrect`,
`RowsInOrderCorrect` and `PromiseKept`, the refinement of SavePromise, with

    IInv == TypeOK /\ StoreInv /\ TxInv /\ CallInv /\ RowsInOrder

`TxInv`: after CREATE TABLE no transaction is open any more, so only a group
without a table can have pending writes, and then only its information row.
`StoreInv`: an information row has its group's rows before it. `CallInv`: all groups
iterated are retrievable and the current one is written up to `next`. The
refinement follows step by step: NextGroup, the schema, the transaction and failures
map to stuttering, the write that makes the last group retrievable to the
promise's completion, the return to its answer. This invariant was model-checked as well.

**DMLRollbackProofs**, for any table, any width of integers and any number of
changes, from `TablesAssumption` (what MySQL guarantees of primary keys) and
`NullAssumption`: `RowsRestoredCorrect`, `AdmittedCorrect`, with

    IInv == StateInv /\ RowsInv /\ RowsRestored /\ AdmittedHasRollback

`RowsInv`: there is a history of table contents, from the rows before the statement
on, in which each captured change leads from one to the next; the replay goes
back through it. Each undo has exactly one outcome because the key that keyWhere picks
is unique and not null in the content it meets; that is what the history is for.

The type invariants of BinlogCapture and BackupStore are proved and not
checked by their runs.

Only model-checked:

- liveness (`CancelledRequestEnds`, `CollectReturns`, `CancelledCallReturns`,
  `ShutdownCompletes`): fairness and ENABLED are outside the prover's reach;
- `StatementsKept`, `ServerStaysUp`, `ExecutedWasWritten`: they compare the statements of
  the text the client sent with those of the parts trimmed and joined again, so a proof has to read
  the joined text from the start and show that each part is read as it was in its old
  place, comments and quotes at its ends included. SplitIsLexicalCorrect has the first half of
  that (the parts are the pieces), and the second is a lexer over concatenations;
- `RollbackRestores` of DDLRollback: it holds for the statements of its run and not for all
  of `Statement` (the two findings are counterexamples), so a theorem would be about a
  list of statements that is a choice of the run.

## 6. Not modelled

Console encodings, the cutting of the leading comment into directives and the
characters of a trace id (legacy.go); all rules but the ones named above
(conditions on one statement; their verdict is arbitrary here); predicates and type
conversions; literals of times, decimals, floats and binary values in generated
SQL; the grant check and the row estimate beyond that they may fail
(session.go:126-155); queries of `information_schema`; LoadServerInfo of the cache,
which has no flight; the database and target that the process list shows, SHOW
commands and the formatting of result sets; counters and HTTP handlers; loading of
TOML files; the command-line front end, which is I/O around Session.Audit.

## 7. Plan

Done: Execution, BinlogCapture (with filters and wrapping positions), SavePromise
and BackupStore, MetadataCache, Catalog and Snapshot, DDLRollback, DMLRollback,
Gateway, RuntimeConfig, Envelope and AuditRequest; the proofs of all of them but
DDLRollback and, of Envelope, the joined text.

Next, in this order:

1. The lexical rules over concatenated texts, for `StatementsKept` and `ExecutedWasWritten`.
2. Execution over BackupStore: the engine with Save in place of its promise.
3. Indexes without a name in Catalog and Snapshot.
4. SHOW WARNINGS and the process list in Gateway.
