------------------------------- MODULE RplSync -------------------------------
(***************************************************************************)
(* mysqlrplsync: RPLSynchronizer of rpl_sync.py compares, table by table,   *)
(* the data of a master (or of the first slave) with the slaves' while      *)
(* replication goes on.  It brings the slaves to a synchronization point    *)
(* with START SLAVE UNTIL and compares the results of CHECKSUM TABLE.       *)
(*                                                                          *)
(* The master's transactions are 1, 2, ...; those of TableTrx write to the  *)
(* table under check, and the first Former of them carry the uuid of a      *)
(* former master.  A checksum is the data it is computed from.  The calls   *)
(* made by a ThreadPool are one action per slave, in any order.  Databases, *)
(* filters and definitions, which decide what is compared, are left out.    *)
(***************************************************************************)
EXTENDS Integers, Sequences, FiniteSets

CONSTANTS
  SyncSlaves,     \* the slaves, in the order of --slaves
  MaxTrx,         \* bound on the master's transactions
  TableTrx,       \* those that write to the table
  Former,         \* the first of them come from a former master
  SyncConfs,      \* the runs: [master, stopped, strayed, gtidOff, raises]
  RplTimeout,     \* polls within --rpl-timeout
  MaxChecks,      \* bound on the tables checked
  Nothing         \* no checksum, no synchronization point

SyncSet == {SyncSlaves[i] : i \in DOMAIN SyncSlaves}

ASSUME SyncAssumption ==
  /\ MaxTrx \in Nat \ {0} /\ {RplTimeout, MaxChecks} \subseteq Nat
  /\ SyncConfs \subseteq [master : BOOLEAN, stopped : SUBSET SyncSet, strayed : SUBSET SyncSet,
                         gtidOff : SUBSET SyncSet, raises : BOOLEAN]

VARIABLES
  phase,          \* where _check_table_data_sync stands
  conf,           \* the run
  checked,        \* self._slaves: the slaves that are compared
  pool,           \* slaves whose thread of the current call has not ended
  active,         \* slaves with both threads running at the split
  point,          \* the synchronization point
  locked,         \* LOCK TABLES ... READ is held on the master
  committed,      \* transactions of the master
  applied,        \* [SyncSet -> 0..MaxTrx] : those applied by each slave
  sqlThread,      \* [SyncSet -> {"on", "off", "until"}]
  broken,         \* [SyncSet -> BOOLEAN] : the SQL thread stopped on an error
  ticks,          \* [SyncSet -> 0..RplTimeout]
  base,           \* the base server's checksum
  sums,           \* [SyncSet -> checksum or Nothing]
  raised,         \* a call raised UtilError
  checks          \* tables checked so far

syncWorld == <<committed, applied, sqlThread, broken>>
syncVars == <<phase, conf, checked, pool, active, point, locked, syncWorld,
              ticks, base, sums, raised, checks>>

\* The first slave that is compared is the base server when there is no master.
BaseSlave ==
  LET first == CHOOSE i \in DOMAIN SyncSlaves :
                 /\ SyncSlaves[i] \in checked
                 /\ \A j \in 1..(i - 1) : SyncSlaves[j] \notin checked
  IN SyncSlaves[first]

TableAt(n) == {t \in 1..n : t \in TableTrx}
MasterData == [rows |-> TableAt(committed), stray |-> FALSE]
SlaveData(s) == [rows |-> TableAt(applied[s]), stray |-> s \in conf.strayed]

\* A synchronization point: transactions 1..upto and those of the slaves own.
Points == [upto : 0..MaxTrx, own : SUBSET SyncSet] \cup {Nothing}
Reached(s) ==
  /\ point # Nothing
  /\ applied[s] >= point.upto /\ point.own \subseteq {s}

Phases == {"start", "split", "lock", "hold", "point", "stop", "until", "sum",
           "unlock", "waiting", "compare", "done", "failed"}

SyncTypeOK ==
  /\ phase \in Phases /\ conf \in SyncConfs
  /\ checked \subseteq SyncSet /\ pool \subseteq SyncSet
  /\ active \subseteq SyncSet /\ point \in Points
  /\ {locked, raised} \subseteq BOOLEAN
  /\ committed \in 0..MaxTrx /\ checks \in 0..MaxChecks
  /\ applied \in [SyncSet -> 0..MaxTrx]
  /\ sqlThread \in [SyncSet -> {"on", "off", "until"}]
  /\ broken \in [SyncSet -> BOOLEAN]
  /\ ticks \in [SyncSet -> 0..RplTimeout]
  /\ LET Data == [rows : SUBSET TableTrx, stray : BOOLEAN] \cup {Nothing}
     IN base \in Data /\ sums \in [SyncSet -> Data]

SyncInit ==
  /\ phase = "start" /\ conf \in SyncConfs
  /\ checked = SyncSet /\ pool = {} /\ active = {} /\ point = Nothing
  /\ locked = FALSE /\ raised = FALSE
  /\ committed = 1 /\ checks = 0
  /\ applied = [s \in SyncSet |-> 0]
  /\ sqlThread = [s \in SyncSet |-> IF s \in conf.stopped THEN "off" ELSE "on"]
  /\ broken = [s \in SyncSet |-> FALSE]
  /\ ticks = [s \in SyncSet |-> 0]
  /\ base = Nothing /\ sums = [s \in SyncSet |-> Nothing]

----------------------------------------------------------------------------
\* The calls of a pool.

\* Call(s) has ended on s; the last one ends the pool, and only then does an
\* error that a thread met raise.
Ends(s, next) ==
  /\ pool' = pool \ {s}
  /\ phase' = IF pool # {s} THEN phase
              ELSE IF raised' THEN "failed" ELSE next

ClearRound ==
  /\ point' = Nothing /\ base' = Nothing
  /\ sums' = [s \in SyncSet |-> Nothing]
  /\ ticks' = [s \in SyncSet |-> 0]

\* check_gtid_sync: slaves without GTIDs are removed, then the tables' loop.
CheckGtids ==
  /\ phase = "start"
  /\ checked' = SyncSet \ conf.gtidOff
  /\ phase' = IF checked' = {} THEN "failed" ELSE "split"
  /\ UNCHANGED <<conf, pool, active, point, locked, syncWorld, ticks, base,
                 sums, raised, checks>>

\* _split_active_slaves.
SplitActive ==
  /\ phase = "split" /\ checks < MaxChecks
  /\ active' = {s \in checked : sqlThread[s] = "on"}
  /\ phase' = IF conf.master THEN "lock"
              ELSE IF active' = {} THEN "waiting" ELSE "hold"
  /\ pool' = IF conf.master THEN {} ELSE IF active' = {} THEN checked
             ELSE active'
  /\ checks' = checks + 1
  /\ ClearRound
  /\ UNCHANGED <<conf, checked, locked, syncWorld, raised>>

\* Fault: the point is read while writers of the table go on.
LockTableLater ==
  /\ phase = "lock" /\ phase' = "point"
  /\ UNCHANGED <<conf, checked, pool, active, point, locked, syncWorld, ticks,
                 base, sums, raised, checks>>

LockTable ==
  /\ phase = "lock" /\ phase' = "point" /\ locked' = TRUE
  /\ UNCHANGED <<conf, checked, pool, active, point, syncWorld, ticks, base,
                 sums, raised, checks>>

\* Without a master: every active slave's SQL thread is stopped first.
HoldSlave(s) ==
  /\ phase = "hold" /\ s \in pool
  /\ \/ UNCHANGED raised /\ sqlThread' = [sqlThread EXCEPT ![s] = "off"]
     \/ conf.raises /\ raised' = TRUE /\ UNCHANGED sqlThread
  /\ Ends(s, "point")
  /\ UNCHANGED <<conf, checked, active, point, locked, committed, applied,
                 broken, ticks, base, sums, checks>>

\* Fault: GTID_EXECUTED of the base server stands for all.
PointOfBase ==
  /\ phase = "point"
  /\ point' = IF conf.master THEN [upto |-> committed, own |-> {}]
              ELSE [upto |-> applied[BaseSlave], own |-> {}]
  /\ phase' = IF active = {} THEN "sum" ELSE "stop"
  /\ pool' = active
  /\ UNCHANGED <<conf, checked, active, locked, syncWorld, ticks, base, sums,
                 raised, checks>>

\* _compute_sync_point: the last transaction of the master's own uuid, or the
\* union of what the slaves have executed.
ComputePoint ==
  LET last == CHOOSE n \in 0..MaxTrx :
                /\ \E s \in active : applied[s] = n
                /\ \A s \in active : applied[s] <= n
  IN
  /\ phase = "point"
  /\ point' = IF ~conf.master
                THEN [upto |-> last, own |-> active \cap conf.strayed]
              ELSE IF committed > Former
                THEN [upto |-> committed, own |-> {}]
              ELSE Nothing
  /\ phase' = IF active = {} THEN "sum" ELSE "stop"
  /\ pool' = active
  /\ UNCHANGED <<conf, checked, active, locked, syncWorld, ticks, base, sums,
                 raised, checks>>

\* _sync_slaves: STOP SLAVE SQL_THREAD on all, then START SLAVE ... UNTIL (a
\* plain START SLAVE when there is no point).  Either may raise.
StopForSync(s) ==
  /\ phase = "stop" /\ s \in pool
  /\ \/ UNCHANGED raised /\ sqlThread' = [sqlThread EXCEPT ![s] = "off"]
     \/ conf.raises /\ raised' = TRUE /\ UNCHANGED sqlThread
  /\ IF pool = {s} /\ ~raised'
       THEN phase' = "until" /\ pool' = active
       ELSE Ends(s, "until")
  /\ UNCHANGED <<conf, checked, active, point, locked, committed, applied,
                 broken, ticks, base, sums, checks>>

StartUntil(s) ==
  /\ phase = "until" /\ s \in pool
  /\ \/ /\ UNCHANGED raised
        /\ sqlThread' = [sqlThread EXCEPT
             ![s] = IF point = Nothing THEN "on"
                    ELSE IF Reached(s) THEN "off" ELSE "until"]
     \/ conf.raises /\ raised' = TRUE /\ UNCHANGED sqlThread
  /\ IF pool = {s} /\ ~raised' /\ ~conf.master
       THEN phase' = "waiting" /\ pool' = checked
       ELSE Ends(s, "sum")
  /\ UNCHANGED <<conf, checked, active, point, locked, committed, applied,
                 broken, ticks, base, sums, checks>>

\* The master's checksum, which may reach --checksum-timeout.
SumMaster ==
  /\ phase = "sum"
  /\ base' \in {MasterData, Nothing}
  /\ phase' = "unlock"
  /\ UNCHANGED <<conf, checked, pool, active, point, locked, syncWorld, ticks,
                 sums, raised, checks>>

\* Fault: the table is unlocked where nothing has raised.
UnlockOnSuccess ==
  /\ phase = "unlock"
  /\ locked' = FALSE
  /\ phase' = "waiting" /\ pool' = checked
  /\ UNCHANGED <<conf, checked, active, point, syncWorld, ticks, base, sums,
                 raised, checks>>

\* The finally clause: also when a call has raised.
UnlockTable ==
  /\ phase = "unlock" \/ (phase = "failed" /\ locked)
  /\ locked' = FALSE
  /\ IF raised THEN phase' = "failed" /\ pool' = {}
     ELSE phase' = "waiting" /\ pool' = checked
  /\ UNCHANGED <<conf, checked, active, point, syncWorld, ticks, base, sums,
                 raised, checks>>

----------------------------------------------------------------------------
\* _checksum_and_resume_rpl: the slaves that were not active, then the others.

SumInactive(s) ==
  /\ phase = "waiting" /\ s \in pool \ active
  /\ sums' = [sums EXCEPT ![s] = SlaveData(s)]
  /\ UNCHANGED raised
  /\ Ends(s, "compare")
  /\ UNCHANGED <<conf, checked, active, point, locked, syncWorld, ticks, base,
                 checks>>

\* Fault: the polls are not counted against --rpl-timeout.
PollOn(s) ==
  /\ phase = "waiting" /\ pool \subseteq active /\ s \in pool
  /\ sqlThread[s] # "off"
  /\ ticks' = [ticks EXCEPT ![s] = @ + 1]
  /\ UNCHANGED <<phase, conf, checked, pool, active, point, locked, syncWorld,
                 base, sums, raised, checks>>

\* wait_checksum_and_start, by slave: polls until the SQL thread has stopped.
Poll(s) ==
  /\ phase = "waiting" /\ pool \subseteq active /\ s \in pool
  /\ sqlThread[s] # "off" /\ ticks[s] < RplTimeout
  /\ ticks' = [ticks EXCEPT ![s] = @ + 1]
  /\ UNCHANGED <<phase, conf, checked, pool, active, point, locked, syncWorld,
                 base, sums, raised, checks>>

\* Fault: a timeout does not skip the checksum.
SumAnyway(s) ==
  /\ phase = "waiting" /\ pool \subseteq active /\ s \in pool
  /\ sqlThread[s] = "off" \/ ticks[s] = RplTimeout
  /\ sums' = [sums EXCEPT ![s] = SlaveData(s)]
  /\ sqlThread' = [sqlThread EXCEPT ![s] = "on"]
  /\ UNCHANGED raised
  /\ Ends(s, "compare")
  /\ UNCHANGED <<conf, checked, active, point, locked, committed, applied,
                 broken, ticks, base, checks>>

\* Fault: replication is not resumed after a timeout.
SumOrGiveUp(s) ==
  /\ phase = "waiting" /\ pool \subseteq active /\ s \in pool
  /\ IF sqlThread[s] = "off"
       THEN /\ sums' = [sums EXCEPT ![s] = SlaveData(s)]
            /\ sqlThread' = [sqlThread EXCEPT ![s] = "on"]
       ELSE /\ ticks[s] = RplTimeout /\ UNCHANGED sums
            /\ sqlThread' = [sqlThread EXCEPT ![s] = "off"]
  /\ UNCHANGED raised
  /\ Ends(s, "compare")
  /\ UNCHANGED <<conf, checked, active, point, locked, committed, applied,
                 broken, ticks, base, checks>>

\* Stopped: the checksum; or the timeout: it is skipped and the SQL thread is
\* stopped.  Replication resumes either way.  --rpl-timeout=0 does not wait.
SumAndStart(s) ==
  /\ phase = "waiting" /\ pool \subseteq active /\ s \in pool
  /\ \/ /\ (sqlThread[s] = "off" /\ ticks[s] < RplTimeout) \/ RplTimeout = 0
        /\ sums' = [sums EXCEPT ![s] = SlaveData(s)]
     \/ ticks[s] = RplTimeout /\ RplTimeout > 0 /\ UNCHANGED sums
  /\ sqlThread' = [sqlThread EXCEPT ![s] = "on"]
  /\ UNCHANGED raised
  /\ Ends(s, "compare")
  /\ UNCHANGED <<conf, checked, active, point, locked, committed, applied,
                 broken, ticks, base, checks>>

\* The report: then the next table.
Compare ==
  /\ phase = "compare"
  /\ phase' = IF checks = MaxChecks THEN "done" ELSE "split"
  /\ UNCHANGED <<conf, checked, pool, active, point, locked, syncWorld, ticks,
                 base, sums, raised, checks>>

----------------------------------------------------------------------------
\* The servers.

\* A client commits; LOCK TABLES blocks those that write to the table.
CommitOnMaster ==
  /\ committed < MaxTrx
  /\ locked => committed + 1 \notin TableTrx
  /\ committed' = committed + 1
  /\ UNCHANGED <<phase, conf, checked, pool, active, point, locked, applied,
                 sqlThread, broken, ticks, base, sums, raised, checks>>

\* A slave applies its next transaction and stops if that was the last one of
\* UNTIL.
ApplyNext(s) ==
  /\ sqlThread[s] # "off" /\ ~broken[s] /\ applied[s] < committed
  /\ applied' = [applied EXCEPT ![s] = @ + 1]
  /\ sqlThread' = [sqlThread EXCEPT
       ![s] = IF @ = "until" /\ applied[s] + 1 >= point.upto
                 /\ point.own \subseteq {s} THEN "off" ELSE @]
  /\ UNCHANGED <<phase, conf, checked, pool, active, point, locked, committed,
                 broken, ticks, base, sums, raised, checks>>

\* The SQL thread of a slave whose data has strayed stops on an error.
StopOnError(s) ==
  /\ s \in conf.strayed /\ sqlThread[s] # "off" /\ applied[s] < committed
  /\ broken' = [broken EXCEPT ![s] = TRUE]
  /\ sqlThread' = [sqlThread EXCEPT ![s] = "off"]
  /\ UNCHANGED <<phase, conf, checked, pool, active, point, locked, committed,
                 applied, ticks, base, sums, raised, checks>>

----------------------------------------------------------------------------
SyncCall(s) ==
  \/ HoldSlave(s) \/ StopForSync(s) \/ StartUntil(s)
  \/ SumInactive(s) \/ Poll(s) \/ SumAndStart(s)
SyncStep ==
  \/ CheckGtids \/ SplitActive \/ LockTable \/ ComputePoint \/ SumMaster
  \/ UnlockTable \/ Compare
  \/ \E s \in SyncSet : SyncCall(s)
SyncServers ==
  CommitOnMaster \/ \E s \in SyncSet : ApplyNext(s) \/ StopOnError(s)

SyncNext == SyncStep \/ SyncServers
SyncSpec == SyncInit /\ [][SyncNext]_syncVars /\ WF_syncVars(SyncStep)

----------------------------------------------------------------------------
\* Properties.

BaseData == IF conf.master THEN base ELSE sums[BaseSlave]
Reports(s, differs) ==
  /\ phase = "compare" /\ s \in checked
  /\ BaseData # Nothing /\ sums[s] # Nothing
  /\ (sums[s] # BaseData) = differs

\* A difference is reported only for data that differs: never because a slave
\* that replicates lags behind or because rows are written meanwhile.
NoFalseDiff ==
  \A s \in checked :
    Reports(s, TRUE) =>
      \/ s \in conf.strayed \/ s \notin active
      \/ ~conf.master /\ (BaseSlave \in conf.strayed \/ BaseSlave \notin active)

\* The check leaves the servers as it found them: nothing is locked, and the
\* slaves that were replicating still are, unless an error stopped them.
NothingLeftBehind ==
  phase \in {"compare", "done"} =>
    /\ ~locked
    /\ \A s \in checked : s \in active /\ ~broken[s] => sqlThread[s] = "on"

\* Whatever a call raises and whatever the slaves do, the check ends and the
\* table is unlocked.
TableReleased == (phase # "start") ~> (phase \in {"done", "failed"} /\ ~locked)

\* "If an error occur during this process, any locked table must be unlocked
\* and both master and slaves should resume their previous activity."
SlavesResumeOnError ==
  phase = "failed" =>
    \A s \in checked : s \in active /\ ~broken[s] => sqlThread[s] = "on"
=============================================================================
