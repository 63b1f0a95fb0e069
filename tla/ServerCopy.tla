------------------------------ MODULE ServerCopy ------------------------------
(***************************************************************************)
(* The reading side of mysqldbcopy and mysqldbexport: copy_db of dbcopy.py, *)
(* export_databases of dbexport.py, the Lock class of lock.py and the       *)
(* multiprocess copy of table data (database.py, table.py), while clients   *)
(* go on writing to the source.                                             *)
(*                                                                          *)
(* The source's history is the sequence of the tables its transactions      *)
(* wrote, so a point of the history is a length.  What a table's data, the  *)
(* GTID set and the binary log coordinates stand for is such a point.       *)
(***************************************************************************)
EXTENDS Integers, Sequences, FiniteSets

CONSTANTS
  Tables,         \* the tables copied
  MaxHistory,     \* bound on the transactions of the source
  NoPoint,        \* not read yet
  CpConfs         \* the calls: [kind, locking, rpl, workers, ansi]

CpCalls ==
  [kind : {"copy", "export", "clone"}, locking : {"snapshot", "lock-all", "no-locks"},
   rpl : {"none", "master", "slave", "both"}, workers : BOOLEAN, ansi : BOOLEAN]
ASSUME CpAssumption ==
  /\ MaxHistory \in Nat /\ NoPoint \notin 0..MaxHistory
  /\ CpConfs \subseteq CpCalls

VARIABLES
  cpConf,         \* the call
  cpStep,         \* index in its plan, or 0 after an error
  history,        \* sequence of Tables
  srcLock,        \* "none", "ftwrl" or "tables"
  view,           \* point of the connection's read view, or NoPoint
  data,           \* [Tables -> point copied or NoPoint]
  gtids, coords   \* points of GTID_PURGED and of CHANGE MASTER, or NoPoint

cpVars == <<cpConf, cpStep, history, srcLock, view, data, gtids, coords>>

Points == 0..MaxHistory
OptPoints == Points \cup {NoPoint}
Now == Len(history)

\* Fault: an export reads its coordinates before it takes the lock.
PlanAsCopy ==
  IF cpConf.kind = "clone" THEN <<"autoinc", "objects", "lock", "data", "end">>
  ELSE <<"coords", "gtids", "lock", "autoinc", "objects", "data", "end">>

\* copy_db reads GTIDs and coordinates before it takes its lock, and clones
\* create their tables before LOCK TABLES; export_databases locks first.
Plan ==
  CASE cpConf.kind = "copy" ->
         <<"autoinc", "gtids", "coords", "lock", "objects", "data", "end">>
    [] cpConf.kind = "clone" /\ cpConf.locking = "lock-all" ->
         <<"autoinc", "objects", "lock", "data", "end">>
    [] cpConf.kind = "clone" /\ cpConf.locking # "lock-all" ->
         <<"autoinc", "lock", "objects", "data", "end">>
    [] cpConf.kind = "export" ->
         <<"lock", "coords", "gtids", "autoinc", "data", "end">>

CpTypeOK ==
  /\ cpConf \in CpConfs /\ cpStep \in 0..(Len(Plan) + 1)
  /\ history \in Seq(Tables) /\ Now \in Points
  /\ srcLock \in {"none", "ftwrl", "tables"}
  /\ view \in OptPoints /\ data \in [Tables -> OptPoints]
  /\ {gtids, coords} \subseteq OptPoints

CpInit ==
  /\ cpConf \in CpConfs /\ cpStep = 1 /\ history = <<>>
  /\ srcLock = "none" /\ view = NoPoint
  /\ data = [t \in Tables |-> NoPoint]
  /\ gtids = NoPoint /\ coords = NoPoint

At(step) == cpStep \in 1..Len(Plan) /\ Plan[cpStep] = step
Advance == cpStep' = cpStep + 1 /\ UNCHANGED cpConf

----------------------------------------------------------------------------
\* Database.check_auto_increment selects from the tables: with autocommit off,
\* the connection's first read opens its view.
Opened == IF view = NoPoint THEN Now ELSE view

CheckAutoIncrement ==
  /\ At("autoinc") /\ Advance
  /\ view' = Opened
  /\ UNCHANGED <<history, srcLock, data, gtids, coords>>

\* get_gtid_commands: @@GLOBAL.GTID_EXECUTED, which no read view holds back.
ReadGtids ==
  /\ At("gtids") /\ Advance
  /\ gtids' = Now
  /\ UNCHANGED <<history, srcLock, view, data, coords>>

\* get_change_master_command: SHOW MASTER STATUS on a connection of its own.
ReadCoordinates ==
  /\ At("coords") /\ Advance
  /\ coords' = IF cpConf.rpl = "none" THEN NoPoint ELSE Now
  /\ UNCHANGED <<history, srcLock, view, data, gtids>>

\* get_copy_lock: FLUSH TABLES WITH READ LOCK for --rpl, when the source is the
\* new master or --locking=lock-all; else what --locking asks for.
LockKind ==
  IF cpConf.rpl \in {"master", "both"} \/
     (cpConf.rpl # "none" /\ cpConf.locking = "lock-all") THEN "flush"
  ELSE cpConf.locking

\* Fault: --locking=lock-all starts a transaction instead.
TakeSnapshotOnly ==
  /\ At("lock") /\ Advance
  /\ srcLock' = IF LockKind = "flush" THEN "ftwrl" ELSE "none"
  /\ view' = IF LockKind = "flush" THEN NoPoint ELSE Now
  /\ UNCHANGED <<history, data, gtids, coords>>

\* Lock.__init__.  FLUSH and LOCK TABLES end the connection's transaction.
TakeLock ==
  /\ At("lock") /\ Advance
  /\ srcLock' = CASE LockKind = "flush" -> "ftwrl"
                  [] LockKind = "lock-all" -> "tables"
                  [] OTHER -> "none"
  /\ view' = CASE LockKind = "snapshot" -> Now
               [] LockKind = "no-locks" -> view
               [] OTHER -> NoPoint
  /\ UNCHANGED <<history, data, gtids, coords>>

\* copy_objects.  CREATE in the same server ends the transaction; so does the
\* SET SQL_MODE that a source with ANSI_QUOTES needs for SHOW CREATE.
CopyObjects ==
  /\ At("objects") /\ Advance
  /\ view' = IF cpConf.kind = "clone" \/ cpConf.ansi THEN NoPoint ELSE view
  /\ UNCHANGED <<history, srcLock, data, gtids, coords>>

\* The data of a table.  A worker reads on a connection of its own, and INSERT
\* ... SELECT reads what is committed.  A clone's worker cannot write tables
\* that the main connection has locked.  ANSI_QUOTES: SET SQL_MODE again.
CopyTable(t) ==
  /\ At("data") /\ data[t] = NoPoint
  /\ ~(cpConf.kind = "clone" /\ cpConf.workers /\ srcLock = "tables")
  /\ IF cpConf.workers \/ cpConf.kind = "clone"
     THEN data' = [data EXCEPT ![t] = Now] /\ UNCHANGED view
     ELSE IF cpConf.ansi /\ cpConf.kind = "copy"
     THEN data' = [data EXCEPT ![t] = Now] /\ view' = NoPoint
     ELSE data' = [data EXCEPT ![t] = Opened] /\ view' = Opened
  /\ UNCHANGED <<cpConf, cpStep, history, srcLock, gtids, coords>>

DataCopied ==
  /\ At("data") /\ NoPoint \notin {data[t] : t \in Tables}
  /\ Advance
  /\ UNCHANGED <<history, srcLock, view, data, gtids, coords>>

\* my_lock.unlock(), or the end of the process, which closes the connection.
CopyEnds ==
  /\ At("end") /\ Advance
  /\ srcLock' = "none" /\ view' = NoPoint
  /\ UNCHANGED <<history, data, gtids, coords>>

\* An exception ends the process.
CopyFails ==
  /\ cpStep \in 1..Len(Plan) /\ cpStep' = 0
  /\ srcLock' = "none" /\ view' = NoPoint
  /\ UNCHANGED <<cpConf, history, data, gtids, coords>>

\* A client's transaction waits for either lock.
ClientCommits(t) ==
  /\ srcLock = "none" /\ Now < MaxHistory
  /\ history' = Append(history, t)
  /\ UNCHANGED <<cpConf, cpStep, srcLock, view, data, gtids, coords>>

----------------------------------------------------------------------------
CpTool ==
  \/ CheckAutoIncrement \/ ReadGtids \/ ReadCoordinates \/ TakeLock
  \/ CopyObjects \/ (\E t \in Tables : CopyTable(t)) \/ DataCopied \/ CopyEnds
CpNext == CpTool \/ CopyFails \/ \E t \in Tables : ClientCommits(t)

CpSpec == CpInit /\ [][CpNext]_cpVars

----------------------------------------------------------------------------
\* Properties.

CopyComplete == cpStep = Len(Plan) + 1
Writes(t, from, to) == {n \in (from + 1)..to : history[n] = t}

\* Table t as of point k, where k may be any point with the same writes to t.
SameData(t, k) == Writes(t, data[t], k) = {} /\ Writes(t, k, data[t]) = {}

\* The tables of a complete copy are all from one point of the source's history,
\* when it was made under locks, or by one connection that stayed in its view.
OneView == ~cpConf.workers /\ cpConf.kind # "clone" /\ ~cpConf.ansi
TablesFromOnePoint ==
  CopyComplete /\ (cpConf.locking = "lock-all" \/ OneView) =>
    \E k \in 0..Now : \A t \in Tables : SameData(t, k)

\* A slave restored from an export that was made under a lock misses no
\* transaction and applies none twice: the coordinates, and the GTID set, are of
\* the same point as every table, worker processes or not.
LockedExportIsExact ==
  CopyComplete /\ cpConf.kind = "export" /\ LockKind \in {"flush", "lock-all"} =>
    \A t \in Tables : /\ SameData(t, gtids)
                      /\ coords # NoPoint => SameData(t, coords)

\* "By default, the operation uses a consistent snapshot to read the source
\* databases", mysqldbcopy.1: with workers, or in a clone, it does not.
SnapshotAsDocumented ==
  CopyComplete /\ cpConf.locking = "snapshot" =>
    \E k \in 0..Now : \A t \in Tables : SameData(t, k)

\* A slave made with copy_db and --rpl=master starts where its data end.
CopyIsExact ==
  CopyComplete /\ cpConf.kind = "copy" =>
    \A t \in Tables : coords # NoPoint => SameData(t, coords)
=============================================================================
