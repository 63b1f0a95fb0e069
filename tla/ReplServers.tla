----------------------------- MODULE ReplServers -----------------------------
(***************************************************************************)
(* The MySQL servers the replication utilities operate on, reduced to what  *)
(* the utilities read and change through SQL: the executed and retrieved    *)
(* GTID sets, the replication source and the two replication threads, the   *)
(* global READ_ONLY flag and the global read lock (FTWRL).                  *)
(*                                                                          *)
(* A transaction is a member of Trx; a GTID set is a set of transactions.   *)
(* The statements below are what Slave.start, Slave.stop, Slave.reset_all,  *)
(* Slave.switch_master, Server.set_read_only and Lock execute.  The servers *)
(* themselves (the threads that fetch and apply, crashes, client commits)   *)
(* are external: they are modelled from what the utilities rely on.         *)
(***************************************************************************)
EXTENDS Integers, Sequences, FiniteSets

CONSTANTS
  Servers,        \* every server of the topology, the master included
  Trx,            \* the transactions that may ever exist
  NoServer        \* "not configured as a slave" (SHOW SLAVE STATUS is empty)

ASSUME NoServerAssumption == NoServer \notin Servers

VARIABLES
  alive,          \* [Servers -> BOOLEAN] : the server answers
  executed,       \* [Servers -> SUBSET Trx] : @@GLOBAL.GTID_EXECUTED
  retrieved,      \* [Servers -> SUBSET Trx] : Retrieved_Gtid_Set (relay log)
  source,         \* [Servers -> Servers \cup {NoServer}] : Master_Host/Port
  io,             \* [Servers -> BOOLEAN] : the IO thread runs
  sql,            \* [Servers -> BOOLEAN] : the SQL thread runs
  readOnly,       \* [Servers -> BOOLEAN] : @@GLOBAL.READ_ONLY
  ftwrl           \* [Servers -> BOOLEAN] : the utility holds FTWRL there

data    == <<executed, retrieved>>
threads == <<source, io, sql>>
blocks  == <<readOnly, ftwrl>>
servers == <<alive, data, threads, blocks>>

ServersTypeOK ==
  /\ alive     \in [Servers -> BOOLEAN]
  /\ executed  \in [Servers -> SUBSET Trx]
  /\ retrieved \in [Servers -> SUBSET Trx]
  /\ source    \in [Servers -> Servers \cup {NoServer}]
  /\ io        \in [Servers -> BOOLEAN]
  /\ sql       \in [Servers -> BOOLEAN]
  /\ readOnly  \in [Servers -> BOOLEAN]
  /\ ftwrl     \in [Servers -> BOOLEAN]

----------------------------------------------------------------------------
\* What the utilities read.

\* Transactions a server has executed or holds in its relay log.
Known(s) == executed[s] \cup retrieved[s]

\* Transactions that at least one live member of S still has.
Surviving(S) == UNION {Known(s) : s \in {r \in S : alive[r]}}

----------------------------------------------------------------------------
\* Statements the utilities execute.  Callers check that the server answers.

\* Fault: STOP SLAVE SQL_THREAD, the IO thread keeps running.
StopSqlThread(s) ==
  /\ sql' = [sql EXCEPT ![s] = FALSE]
  /\ UNCHANGED <<io, source, data>>

StopSlave(s) ==
  /\ io'  = [io  EXCEPT ![s] = FALSE]
  /\ sql' = [sql EXCEPT ![s] = FALSE]
  /\ UNCHANGED <<source, data>>

\* Fault: START SLAVE IO_THREAD only.
StartIoThread(s) ==
  /\ io' = [io EXCEPT ![s] = source[s] # NoServer]
  /\ UNCHANGED <<sql, source, data>>

\* START SLAVE fails (and changes nothing) on a server without a source.
StartSlave(s) ==
  /\ io'  = [io  EXCEPT ![s] = source[s] # NoServer]
  /\ sql' = [sql EXCEPT ![s] = source[s] # NoServer]
  /\ UNCHANGED <<source, data>>

\* CHANGE MASTER TO ... MASTER_AUTO_POSITION = 1: the relay log is deleted.
ChangeMaster(s, m) ==
  /\ source'    = [source    EXCEPT ![s] = m]
  /\ retrieved' = [retrieved EXCEPT ![s] = {}]
  /\ UNCHANGED <<executed, io, sql>>

\* STOP SLAVE; RESET SLAVE ALL.
ResetSlaveAll(s) ==
  /\ io'        = [io        EXCEPT ![s] = FALSE]
  /\ sql'       = [sql       EXCEPT ![s] = FALSE]
  /\ source'    = [source    EXCEPT ![s] = NoServer]
  /\ retrieved' = [retrieved EXCEPT ![s] = {}]
  /\ UNCHANGED executed

\* Lock(server, [], {'locking': 'flush'}) and its unlock().
FlushLock(s) == ftwrl' = [ftwrl EXCEPT ![s] = TRUE]
Unlock(s)    == ftwrl' = [ftwrl EXCEPT ![s] = FALSE]

\* The flag cached at connect() only avoids a statement that would change
\* nothing: on and off both leave the server as asked.
SetReadOnly(s, on) == readOnly' = [readOnly EXCEPT ![s] = on]

----------------------------------------------------------------------------
\* The servers' own steps (external).

\* The IO thread sends the GTIDs it has and receives one it misses.
Fetch(s) ==
  /\ alive[s] /\ io[s]
  /\ source[s] \in Servers /\ alive[source[s]]
  /\ \E t \in executed[source[s]] \ Known(s) :
       retrieved' = [retrieved EXCEPT ![s] = @ \cup {t}]
  /\ UNCHANGED <<alive, executed, threads, blocks>>

\* The SQL thread (or one of several appliers) commits a relayed
\* transaction; FLUSH TABLES WITH READ LOCK holds commits back.
Apply(s) ==
  /\ alive[s] /\ sql[s] /\ ~ftwrl[s]
  /\ \E t \in retrieved[s] \ executed[s] :
       executed' = [executed EXCEPT ![s] = @ \cup {t}]
  /\ UNCHANGED <<alive, retrieved, threads, blocks>>

\* A client commits a transaction nobody has seen before.
Commit(s) ==
  /\ alive[s] /\ ~readOnly[s] /\ ~ftwrl[s]
  /\ \E t \in Trx \ UNION {Known(r) : r \in Servers} :
       executed' = [executed EXCEPT ![s] = @ \cup {t}]
  /\ UNCHANGED <<alive, retrieved, threads, blocks>>

\* A server stops answering; its locks go with its connections.
Crash(s) ==
  /\ alive[s]
  /\ alive' = [alive EXCEPT ![s] = FALSE]
  /\ ftwrl' = [ftwrl EXCEPT ![s] = FALSE]
  /\ UNCHANGED <<data, threads, readOnly>>
=============================================================================
