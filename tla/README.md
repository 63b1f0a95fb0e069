# A verification project for MySQL Utilities

MySQL Utilities are Python programs that administer MySQL servers: they fail
over and switch the roles of replicating servers, keep replication going, and
copy, export, import, compare and tidy up data.  What can go wrong in them is
seldom in one function.  Every tool is a client of servers that go on working:
between two of its statements clients commit, replication threads fetch and
apply, servers rotate logs, stop or come back, and other instances of the same
tool run.  The modules here are TLA+ models of the tools together with the
servers they talk to.  TLC checks them on small instances; TLAPS proves the most
important invariants for every instance.

## 1. The system

### Parts and their state

| part | source (under `src/mysql/utilities/`) | state it keeps or changes | module |
|---|---|---|---|
| servers | `common/server.py`, `common/replication.py` | GTIDs executed and retrieved, source, two threads, READ_ONLY, read lock | `ReplServers` |
| failover | `common/topology.py` (`failover`) | candidate, list of slaves, place in its loops | `Failover` |
| switchover | `common/topology.py` (`switchover`) | the same, and the master's GTIDs when writes were blocked | `Switchover` |
| automatic failover | `command/failover_console.py`, `command/failover_daemon.py`, `command/rpl_admin.py` | rows of `mysql.failover_console`, each instance's mode, master and list | `AutoFailover` |
| mysqlrplsync | `common/rpl_sync.py`, `common/gtid.py` | table lock, synchronization point, START SLAVE UNTIL, checksums | `RplSync`, `GtidSets` |
| mysqlrplms | `common/replication_ms.py`, `common/replication.py` | which master the slave has, relay log, position | `MultiSource` |
| errant transactions, mysqlslavetrx | `common/topology.py`, `command/rpl_admin.py` | GTID sets, what is still to be injected | `ErrantTransactions` |
| copy, export, clone | `command/dbcopy.py`, `command/dbexport.py`, `common/database.py`, `common/lock.py` | locks, read view, the point of the history each thing was read at | `ServerCopy`, `ViewOrder` |
| binary log tools | `command/binlog_admin.py`, `common/binlog.py`, `common/binary_log_file.py` | log files, index, the slaves' positions | `BinlogAdmin` |
| mysqlrplshow | `common/topology_map.py` | stack of the recursion, masters found, map | `TopologyMap` |
| mysqlindexcheck | `common/table.py` | the indexes marked so far | `IndexCheck` |
| mysqldbimport | `command/dbimport.py`, `common/table.py` | statements collected, merged and executed | `DbImport` |
| mysqldbcompare | `common/dbcompare.py` | checksum tables, spans, the rows read, the statements made | `DbCompare` |

The tools share no memory.  They interact through the servers only: through the
replication settings (failover, switchover, mysqlrplsync, mysqlrplms), through
the registration table (several consoles and daemons), through locks and
READ_ONLY (tools and clients).  mysqlfailover calls the failover of
`topology.py`; mysqlrpladmin calls both it and switchover.

### Hard behaviours

* **Interleaving with threads and clients.**  GTID sets, slave status, listings
  and checksums are read one server at a time and used after the servers moved on.
* **Crashes.**  A slave may stop answering between `is_alive()` and the statement
  sent to it; a console may be killed and leave its row behind.
* **Timeouts.**  Waits for GTIDs end at `--timeout` or `--rpl-timeout`; some
  results are not looked at.
* **Partial failure.**  One of several servers, worker processes or files fails
  after others were changed.
* **Order.**  CHANGE MASTER deletes relay logs; a role moves between two servers
  that are each other's slave for a moment; rows are merged into INSERTs.

`PROJECT.json` lists each hazard with its line and with the properties that would
catch it.

## 2. The modules

Sequences of remote calls are actions, one per call or per run of calls nothing
can interleave with; the place between them is `pc`, `phase`, or the index of a
loop.  An exception that leaves the method is an action of its own (`Abort`,
`Leave`, `MsAbort`, `CopyFails`), with what the code restores and with
what it does not.  `map` in `PROJECT.json` gives the lines of every definition.

* **ReplServers**: the servers of failover and switchover.  A transaction is a
  member of a set, a GTID set a set of them.  `StartSlave`, `StopSlave`,
  `ChangeMaster` (which empties the relay log), `ResetSlaveAll`, `SetReadOnly`,
  `FlushLock`/`Unlock` are the statements; `Fetch`, `Apply`, `Crash` and client
  commits belong to the servers and are marked external.
* **Failover**: `Elect`, `CheckGtid`, `CheckSlavesStatus`, the loop `CheckAlive` …
  `DetachCandidate` (`_prepare_candidate_for_failover`: the candidate is made a
  slave of each other slave that has what it misses), `Promote`, and the rebuilding
  `StopAllSlaves` … `CheckAllSlaves`.  `conf` holds the options and the facts
  about servers that decide branches.
* **Promotion**: what a failover promises, in four actions.  `Failover`
  instantiates it with `up`, `has`, `primary` mapped to the live slaves,
  `executed` and `master`; `ImplementsPromotion` is checked by the run `failover`
  and proved.
* **Switchover**: the checks, creating the replication user, blocking, waiting
  for the slaves, stopping, unblocking, demoting, attaching, starting.
* **AutoFailover**: instances start, look for a registration, insert their row,
  monitor, reconnect, fail over, deregister, are killed or wait for a key.  The
  failover is one action here, as `Failover` has its steps.
* **RplSync**: two slaves and a table; the lock, the point, START SLAVE UNTIL,
  polling, checksums and their comparison; the calls a ThreadPool makes are one
  action per slave in any order, and one of them may raise.
* **GtidSets**: the union of the slaves' GTID sets that `RplSync` takes as its
  point when there is no master, with the loop of `gtid_set_union` interval by
  interval.  `RplSync` uses sets of transactions; this module shows that the text
  algorithm computes their union.
* **MultiSource**: rounds over the masters with and without GTIDs.
* **ErrantTransactions**: the search asks one slave after another and compares each
  with the others in turn, the injection subtracts per slave and commits one
  transaction at a time; both beside slaves that apply and that fail.
* **ServerCopy**: the plan of a copy, an export or a clone as a sequence of
  reads; the data of a table, the GTIDs and the coordinates are points of the
  source's history.
* **ViewOrder**: the recursion that sorts views, as an explicit stack.  A statement is
  cut at each `from`, and its last piece is searched.  The views a view depends on
  come out of a dictionary, so they are stacked in any order.
* **TopologyMap**: the recursion of `_get_slaves`, as a stack of calls that each hold
  the places of the slave listing still to be visited.
* **BinlogAdmin**: move, purge (with and without slaves) and rotate.  A move writes a
  new index, then replaces the old one; an error of the former is undone, unless the
  undo fails too, an error of the latter (`ReplaceFails`) is not.
* **IndexCheck**: the pairs of indexes in the order the code compares them, the list of
  clustered indexes, and what every index is after the statements of `--show-drops`:
  a DROP for each redundant one, a DROP and ADD without the columns of PRIMARY for
  each clustered one.
* **DbImport**: what the reader hands to the executor row by row, and how INSERTs
  are merged.
* **DbCompare**: sums, spans, the rows read afterwards, and the statements that
  are to make one table equal to the other, folded over the table as a server
  executes them: an UPDATE with nothing to set and an INSERT of a key that is there
  fail.  Rows are told apart by their `Sign`, the string that `compare_sign` digests,
  which values may share; `pk_hash` is the key.

The MC modules give constants their values.  `MCReplTools` and `MCDataTools` put
several tools side by side: `tool` says which one runs, the others stay in an
initial state.  So each tool is explored exactly as alone (a state space is the
sum, not the product), and a run per family of tools suffices.

## 3. The runs

| run | question | bounds |
|---|---|---|
| `failover` | Is the promoted slave the best one, are locks released, is there never a cycle, is `Promotion` implemented? | 3 slaves, 2 transactions, 1 crash |
| `failover_options` | With every branch on options and configuration, with expiring waits and a master that may live: is the topology rebuilt, does the method end, do the slaves converge? | 2 slaves, 2 transactions, 1 crash, 8 configurations |
| `switchover` | Are writes blocked while the slaves catch up, do they, is there never a cycle, is the topology switched, does it end and converge? | 2 slaves, 2 transactions, 1 crash, 12 configurations, waits expire |
| `autofailover` | Is one console active per master, is its row there, does it fail over only its own slaves, and does it? | 2 instances, 3 servers, 1 crash, 2 starts each, 1 reconnection |
| `repl_tools` | mysqlrplsync, mysqlrplms, errant transactions, GTID unions | 2 slaves and 3 transactions; 2 masters with 2 transactions; 3 slaves, 2 uuids; lines of numbers 1..4 |
| `data_tools` | copy/export/clone, binary logs, map, views, indexes, import, comparison | 2 tables and 2 commits; 4 logs and 2 slaves; 4 hosts; 3 views; 3 indexes; files of up to 16 rows; 3 keys, 3 values with 2 signs, 1 key written to |
| `failover_timeout`, `failover_relay`, `failover_read_only`, `switchover_window`, `autofailover_daemon`, `import_rows` | One documented statement each that the code does not keep | small instances of the same modules |

Why the bounds are enough.  The hazards need two servers in different states
beside the one at work: three slaves let a candidate meet a slave that is ahead and
one that is behind, in either order in the list; two transactions let each have one
the other misses.  One crash at every point of every call is what the code's
`is_alive` checks are about; a second crash repeats the first on a shorter list.
Two consoles are what a lock must exclude, two starts let one find what the other
left.  For the copy two tables can be from different points, and two commits put
one before and one between them; four logs let the server rotate between listing
and move and leave one behind; four hosts make a join and a circle; GTID intervals
over 1..4 overlap, nest, touch and stay apart, and a third line joins with a union.
`MaxBulkInsert = 2`, `MaxBulkValues = 3` and `PacketRoom = 4` put each of the
three limits of an import before the others.  `Wrap = 9` with `MaxLog = 4` keeps
sequence numbers at one width, the assumption of `ActiveLogStays` (section 6).

CHECK_DEADLOCK is FALSE everywhere because the tools end.

### Fairness

The tool's steps are weakly fair: it is a sequential program, no lock of its own
blocks it for ever, and a statement to a server returns or raises.  Fetching and
applying are weakly fair per server in failover and switchover, as MySQL's threads
run until stopped.  In `MultiSource` they are strongly fair per master, because the
tool itself stops and starts the threads again and again and a time slice is long
against one transaction.  Clients, crashes, rotations and users are not fair: they
may happen or not.  Waits that never expire would make `Terminates` depend on the
source of the missing transactions; it is checked where waits may expire, as
`--timeout` has a default.

## 4. What is proved

TLAPS proves the following for every value of the constants that satisfies the
modules' named assumptions.

* **Failover** (`FailoverProofs`).  `TypeOK`;
  `BestPromoted`, from an invariant that says, for the loop over the slaves, which
  of them the candidate has already caught up with and that it waits only for
  what it has been made to fetch: `BestPromoted` alone is not inductive since it says
  nothing before the promotion.  `NoReplicationCycle`, `WritesUnblocked` and
  `TopologyRebuilt`, from `FullInv`: who is locked (`BlockInv`: only the slave of the
  current iteration), who is whose slave (`RolesInv`: while the new master is still
  configured for a slave it does not run), and how far the rebuilding loops have
  come (`IndexInv`, `StoppedInv`, `AttachedInv`).  `ImplementsPromotion`, for runs in
  which `CleanRun` always holds (the old master is gone, no wait ended early): each
  action is a step of `Promotion` or a stutter, and the step that promotes needs the
  invariant of `BestPromoted`.  Without that premise the statement is the one that
  `failover_timeout` refutes.  Assumptions: `FailoverAssumption`
  (the list is not empty and has no server twice) and `NoServerAssumption`.
* **Switchover** (`SwitchoverProofs`).  `TypeOK`, `SnapshotIsFinal`, `SlavesCaughtUp`,
  `NoReplicationCycle` and `TopologySwitched`, from `SwitchInv`: a blocked master
  executes nothing, also when a crash ended its lock, as it is down then
  (`BlockInv`); the loops have settled the entries before `idx` (`CaughtInv`,
  `AttachedInv`); and whoever is configured for the new master, the new master is
  configured for nobody (`RolesInv`).  That the candidate need not be in the list
  and that entries may lack an instance is part of it (`ToolInv`).  Assumption:
  `SwitchoverAssumption`.
* **AutoFailover** (`AutoFailoverProofs`).  `TypeOK` without premises;
  `ActiveIsRegistered` and `AtMostOneActive` under two.
  `StartsApart`: an instance does not register while another one does, as two that
  look before either inserts are both active (section 5).  `[]OneTopology`: every
  server that has a source has the active instance's master.
  The invariant, `RegisterInv`, holds for consoles: one at most is past its lookup
  without having been blocked (`OneEngaged`); who has yet to look will find the row
  of that one (`NewcomerInv`); the row of an active one is the only one of its
  master, and there is none when one is about to insert its own (`RowInv`); nobody
  lists its own master (`ListInv`).  The second premise is itself proved where at
  most one server crashes (`ConsolesKeepOneTopology`, `MaxCrashes <= 1`, the bound of
  the run) for every number of servers and consoles, and with it
  `FailsOverOwnSlaves`, which the premise would say by itself: there is one master
  that all others replicate from (`OneMaster`), each console that is not blocked
  monitors it and lists all of its slaves before the failover (`Monitored`), and the
  master is given up only when it is the server that crashed, so the failover meets
  every slave alive and re-points them all (`OneCrash`; together `ShapeInv`).  With a second crash
  the premise is needed: a slave that was down during a failover comes back with its
  old source, or an old master is attached again, and then a second instance may
  register for it; the code promises nothing about two topologies.
* **RplSync** (`ReplToolsProofs`).  `SyncTypeOK`; `NothingLeftBehind`, from `CheckInv`:
  where the tool is in its phases decides whether the table is locked and which
  slaves' threads run (`PlaceInv`, `ThreadInv`).  `NoFalseDiff`, from `SyncInv`: under
  the lock the point is all that was written to the table, and without a master no
  held slave is beyond it (`PointInv`); a slave that was sent to the point runs until
  it is there, and there has the table as of the point (`SyncedInv`); so each sum is
  of the table as of the point (`SumInv`).  The premise
  `RplTimeout > 0` is the code's: `--rpl-timeout=0` does not wait at all.
  Assumption: `SyncAssumption`.
* **GtidSets** (`ReplToolsProofs`).  `SyncPointIsUnion`: what the entry and the list of
  intervals still cover is what the lines had (`UnionInv`), and no interval left
  starts before the entry's last one (`OrderInv`); `JoinedFacts` is the step of the
  merge.
* **MultiSource** (`ReplToolsProofs`).  `NoGaps`, from `RelayInv`: with GTIDs
  everything below the IO thread's position is executed or in the relay log, and
  nothing precedes an entry of the relay log that is neither executed nor earlier in it.
  `MsTypeOK`, which bounds what each master has committed, needs `SetupInv`: a master
  whose replication user was created in this round gets no second one, also when the
  list names it twice.  Assumption: `MsAssumption`.
* **ErrantTransactions** (`ReplToolsProofs`).  `SkippedOnAll`: what remains to
  be injected on a slave, with what it has, includes the given set (`SkipInv`).
  `FoundUntilSkipped` (`LoneTransactionsFound`): the slaves are read at different
  moments, so a report may be out of date when it is read.  What holds is that a slave
  that is not asked later has not lost what it had, and that no other slave had a
  transaction which at the end none but this one has: so a search, once past a slave,
  has kept there every transaction only that slave has, unless its uuid comes after
  the master's (`FoundInv`, with `Compared` for the slave in hand).  In a search begun
  after a skip, every slave that still answers has the given set, so that comparing
  any two of them takes it away (`NotFoundInv`).
* **MCReplTools** (`ReplToolsProofs`).  Whichever tool runs, the invariants above of all
  four, but for `SyncInv`, hold together (`RtInv`), hence the `TypeOK` of the composition
  (`ReplToolsTypes`), and `NothingLeftBehind`, `NoGaps`, `SkippedOnAll`,
  `FoundUntilSkipped` and `SyncPointIsUnion` of the specification TLC runs
  (`ReplToolsSafe`).  `NoFalseDiff` is proved of mysqlrplsync's own specification.
* **ServerCopy** (`ServerCopyProofs`).  `TablesFromOnePoint` and
  `LockedExportIsExact`: while a lock is held the history stands still, so all that
  was read was read now; in a view all is read at the view's point.
* **ViewOrder** (`ServerCopyProofs`).  `BasesFirst`: what lies on the stack above a view that
  was looked at and is not created yet is there because of it, and what it depends on
  is created or lies there (`OpenInv`); without a circle the view itself is not below
  any of these (`Below`), so it is created after them (`SortedInv`).
  Assumption: `VoAssumption`.
* **BinlogAdmin** (`ServerToolsProofs`).  `IndexMatchesFiles`: of all logs only the one at
  hand, between its move and the replacement of the index or for good after an error
  that is not undone, may lie elsewhere than the index says (`MoveInv`).
  `NeededLogsKept`, and,
  under `MaxLog <= Wrap`, `ActiveLogStays`: names then sort like numbers, and the last
  of a listing is never older than the active log was.
* **IndexCheck** (`ServerToolsProofs`).  `CoverKept`, for tables on whose indexes the DROP
  and ADD of `--show-drops` changes nothing (`Unharmed`): whatever is listed has been marked as
  compared, so no later comparison lists its counterpart for it in turn (`MarkedInv`;
  `FoundInv` says which a round of the loop can have listed), and has at every
  moment another index that serves its lookups and is not listed (`CoverInv`).
  Assumption: `IxAssumption`.
* **TopologyMap** (`ServerToolsProofs`).  `TopologyMapped`: nobody is entered who was
  found (`OnceInv`); when nothing is left out, a slave of a found master is on the map
  or still to be visited by the call for that master (`LeftInv`), and what the map
  names was met (`MapInv`).  At the end the found hosts are closed under "is a slave
  of", hence the whole topology.  Assumption: `TmAssumption`.
* **DbImport** (`DbImportProofs`).  `ImportedInOrder`.  A step may only bring a line
  behind all that is collected already when it fits behind each of it, so the
  invariant compares what waits with what waits elsewhere: definitions and data rows
  with the statements before them and with each other (`ReaderInv`), the values of the
  INSERT that is being merged with what was executed (`ExecInv`); and each statement is
  one line or rows only (`Shaped`), since only rows are merged.  `BulkGroups` is the
  lemma on `make_bulk_insert`: it cuts its rows into groups in their order, without
  repeating one, and may lose the last one.  That it may is the finding `import_rows`;
  the claim that nothing is missing is therefore made of imports that do not group
  rows themselves (`Complete`).  Assumption: `ImAssumption`.
* **DbCompare** (`DataToolsProofs`).  `DiffMakesEqual`, from `DcInv`: rows no client wrote
  to are in the temporary tables as they are in the tables (`UntouchedInv`); the rows
  read so far are those whose turn is before that of the rows left (`ReadsInv`), and
  the lists of changed rows are in the order of spans and keys (`RowsInv`).  An UPDATE
  pairs the n-th changed row of one side with the n-th of the other, so the proof needs
  that two lists in the same order with the same keys agree place by place (`Pairing`);
  then each statement gives its row the value of the other side, and each row whose
  sign differs has one (`OutputFits`).  A row is read once per side (`KeysOnce`), so no
  key is inserted twice and no statement on such a row fails (`NoneFails`).
  `RunValue` says what a table holds after the first of a list of statements, with
  those that fail changing nothing.  Assumption: `DcAssumption`.
* **MCDataTools** (`DataToolsProofs`).  The composition TLC runs implements the
  specification of each of its seven tools (`ToolsRunAlone`), so all of the results
  above hold of it; its `TypeOK` (`DataToolsTypes`) follows from those of the tools.

Every invariant and every action property of a passing run is stated by a theorem.
Only model-checked is all liveness (`Terminates`, `Converges`, `FailoverHappens`,
`TableReleased`, `EveryMasterReplicated`), as fairness and ENABLED are out of the
prover's reach.  `BulkGroups` and `RunValue` are about loops over data of any
length; they are proved without induction over data, from the recursive function that
the loop is and from the least place where a claim about it would fail.  What a run
with `expect: violation` shows is a counterexample and needs no proof.

## 5. Where code and documents disagree

Each has a run that finds the counterexample.

* `failover_timeout`: the result of the wait for the candidate is not looked at, so
  after `--timeout` a slave that misses transactions is promoted (topology.py:979).
* `failover_relay`: the candidate's relay log is deleted by CHANGE MASTER before it
  was applied when the candidate is not first in the list (topology.py:950).
* `failover_read_only`: a slave that was read only before is writable afterwards
  (server.py:2243).
* `switchover_window`: the old master accepts writes after it was unblocked and
  before it is demoted; they reach no other server (topology.py:1969).
* `autofailover_daemon`: a blocked daemon removes the active instance's row when it
  leaves (failover_daemon.py:686).
* `import_rows`: the last row of a table is dropped when it does not fit into the
  INSERT that is being built (table.py:828).

Some further statements are defined beside the properties and are not checked by a
run; TLC refutes each of them on the instances above: `NewMasterCaughtUp`
(Switchover, a candidate that is not in `--slaves`), `SlavesResumeOnError` (RplSync,
the handler calls `star_sql_thread`), `ErrantAsDocumented` (the docstring of
topology.py:1104, "only on one slave": the loop drops a transaction only if every
slave it compares with has it, ends at the first slave that leaves nothing, and leaves
out the uuids that come after the master's), `SnapshotAsDocumented` and `CopyIsExact` (worker
processes and clones leave the view; a copy reads coordinates before its lock),
`TargetIsCapped` (a purge with a target only reports the cap), `AllBasesFirst` (views
named before the last FROM), `CoverAlwaysKept` (two equal prefix indexes are each
reported for the other; beside an InnoDB PRIMARY (a, b), an index (b) is dropped for
(b, a, c), which is dropped in its turn and added again as (c)), `MovedBackOnError`
(binary_log_file.py:242: an error while the new index replaces the old one is raised
outside the `try`, and the log stays moved with the old index), `DiffMakesAllEqual`
(`CONCAT_WS` skips NULLs and escapes no `/`, dbcompare.py:139, so rows of different
values may have one sign and are left as they are), `ReplicationLast` (START SLAVE before merged rows),
`NeverRaises` (a row deleted between the sums and its reading).  `AtMostOneActive`
fails for consoles that register at the same time (`StartsApart = FALSE`).

Noticed while reading, not modelled:

* `lock.py` calls `exec_queery` on one path; `--rpl-timeout=0` waits for nothing;
  errors of worker processes are printed and the copy goes on.
* `_compute_sync_point` of two slaves that have executed nothing returns `:`, which no
  START SLAVE UNTIL accepts; and uuids written in different case are kept apart.
* Binary logs are sorted by name: past 999999 the newest is not the last.
* `sql_transform.py`: columns added next to each other get no position of their own;
  CHANGE clauses come in the order of a set; AUTO_INCREMENT is not part of a
  column's format; an index that differs in one column is added again with that one.

## 6. What is not modelled, and why

* Users and grants, server clone and information, process and metadata search,
  disk usage, audit logs, the interactive console: sequential reading, text
  processing and printing, with no state between two statements that another
  process could disturb.
* The frm reader: a binary format decoded field by field.
* SQL transformation (mysqldiff): whether its ALTER statements are right depends on
  how the server combines clauses, which this code does not show.
* Options, formatting, reports, logging, passwords, SSL and external scripts: their
  errors are reported and change nothing, or end the tool before it has begun.
* In `DbCompare`: `--use-indexes`, with which the comparison goes by one index and the
  WHERE of the statements by PRIMARY; and keys of several columns, whose digest has
  the weakness of `compare_sign`.
* Replication without GTIDs in failover and switchover (`MultiSource` has it), and
  the legacy branches for servers before 5.6.
* The double fork of the daemons.
* The test harness and the test suites, more than half of the Python lines.

Assumptions about the servers: a statement is atomic; a server that crashed does
not answer again except where `AutoFailover` restarts it; CHECKSUM TABLE, MD5
and the sums of a span's MD5s do not collide (that the strings which are digested
may is modelled); the logs' sequence numbers keep their number of digits for
`ActiveLogStays`.

## 7. Plan

Next: a failover of `AutoFailover` in the steps of `Failover`, which needs a smaller
server model; then the comparison of object definitions in `DbCompare`.
