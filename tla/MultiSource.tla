----------------------------- MODULE MultiSource -----------------------------
(***************************************************************************)
(* mysqlrplms: ReplicationMultiSource of replication_ms.py makes one slave  *)
(* replicate from several masters in turn.  In the first round each master  *)
(* is set up with Replication.setup (as mysqlreplicate does), later with    *)
(* Slave.switch_master; then the slave replicates from it for a time slice  *)
(* during which reports are made.                                           *)
(*                                                                          *)
(* A transaction is a pair <<m, n>>: the n-th of master m.  CHANGE MASTER   *)
(* deletes the slave's relay log, and the IO thread then asks for what the  *)
(* slave has not executed (MASTER_AUTO_POSITION) or, without GTIDs, reads   *)
(* on from the position it was given.                                       *)
(***************************************************************************)
EXTENDS Integers, FiniteSets, Sequences

CONSTANTS
  Masters,        \* the masters, in the order of --masters
  NoMaster,       \* the slave is not configured
  MsTrx,          \* bound on the transactions of each master
  SetupTries,     \* polls of the slave after the first set-up
  MsConfs         \* the runs: [gtid : BOOLEAN, rplUser : masters that have it]

MasterSet == {Masters[i] : i \in DOMAIN Masters}

ASSUME MsAssumption ==
  /\ Masters \in Seq(MasterSet) /\ Masters # <<>> /\ NoMaster \notin MasterSet
  /\ MsTrx \in Nat /\ SetupTries \in Nat
  /\ MsConfs \subseteq [gtid : BOOLEAN, rplUser : SUBSET MasterSet]

VARIABLES
  msPhase,        \* where run() stands
  msConf,         \* the run
  idx,            \* index of the current master
  firstRound,     \* use_rpl_setup
  tries,          \* polls left
  msCommitted,    \* [MasterSet -> 0..MsTrx]
  msExecuted,     \* transactions executed by the slave
  relay,          \* transactions in its relay log, in order
  position,       \* next transaction of its master the IO thread reads
  msSource,       \* its master, or NoMaster
  ioRuns, sqlRuns,\* its threads
  masterUp        \* [MasterSet -> BOOLEAN]

msServers == <<msCommitted, msExecuted, relay, position, msSource, ioRuns,
               sqlRuns, masterUp>>
msVars == <<msPhase, msConf, idx, firstRound, tries, msServers>>

MsTrxs == MasterSet \X (1..(MsTrx + 1))
MsPhases == {"switch", "setup", "change", "start", "poll", "topology",
             "slice", "aborted"}

MsTypeOK ==
  /\ msPhase \in MsPhases /\ msConf \in MsConfs
  /\ idx \in DOMAIN Masters /\ firstRound \in BOOLEAN
  /\ tries \in 0..SetupTries
  /\ msCommitted \in [MasterSet -> 0..(MsTrx + 1)]
  /\ msExecuted \subseteq MsTrxs
  /\ relay \in Seq(MsTrxs) /\ Len(relay) <= MsTrx + 1
  /\ position \in 1..(MsTrx + 2)
  /\ msSource \in MasterSet \cup {NoMaster}
  /\ {ioRuns, sqlRuns} \subseteq BOOLEAN
  /\ masterUp \in [MasterSet -> BOOLEAN]

MsInit ==
  /\ msPhase = "switch" /\ msConf \in MsConfs
  /\ idx = 1 /\ firstRound = TRUE /\ tries = 0
  /\ msCommitted = [m \in MasterSet |-> 0]
  /\ msExecuted = {} /\ relay = <<>> /\ position = 1
  /\ msSource = NoMaster /\ ioRuns = FALSE /\ sqlRuns = FALSE
  /\ masterUp = [m \in MasterSet |-> TRUE]

----------------------------------------------------------------------------
Current == Masters[idx]
MsGoto(next) == msPhase' = next /\ UNCHANGED <<msConf, idx, firstRound>>
MsIdle == UNCHANGED <<msCommitted, masterUp>>

\* A call on the current master raises UtilError: run() ends.
MsAbort(from) ==
  /\ msPhase = from /\ ~masterUp[Current]
  /\ MsGoto("aborted")
  /\ UNCHANGED <<tries, msServers>>

\* _switch_master: STOP SLAVE with the old master.
StopOldMaster ==
  /\ msPhase = "switch"
  /\ MsGoto(IF firstRound THEN "setup" ELSE "change")
  /\ IF msSource = NoMaster THEN UNCHANGED <<ioRuns, sqlRuns>>
     ELSE ioRuns' = FALSE /\ sqlRuns' = FALSE
  /\ UNCHANGED <<tries, msCommitted, msExecuted, relay, position, msSource,
                 masterUp>>

\* The masters that have the replication user: those that had it at first, and
\* those that were set up in this round.
HaveUser == msConf.rplUser \cup {Masters[i] : i \in 1..(idx - 1)}

\* Replication.setup: the replication user is created where it is missing (a
\* transaction of the master), then the slave is stopped.
SetUpUser ==
  /\ msPhase = "setup" /\ masterUp[Current]
  /\ MsGoto("change")
  /\ msCommitted' = [msCommitted EXCEPT
       ![Current] = IF Current \in HaveUser THEN @ ELSE @ + 1]
  /\ ioRuns' = FALSE /\ sqlRuns' = FALSE
  /\ UNCHANGED <<tries, msExecuted, relay, position, msSource, masterUp>>

\* Fault: the position of SHOW MASTER STATUS is used with GTIDs too.
ChangeMasterByPosition ==
  /\ msPhase = "change" /\ masterUp[Current]
  /\ MsGoto("start")
  /\ msSource' = Current /\ relay' = <<>>
  /\ position' = msCommitted[Current] + 1
  /\ UNCHANGED <<tries, msCommitted, msExecuted, ioRuns, sqlRuns, masterUp>>

\* make_change_master and CHANGE MASTER.
ChangeMaster ==
  /\ msPhase = "change" /\ masterUp[Current]
  /\ MsGoto("start")
  /\ msSource' = Current /\ relay' = <<>>
  /\ position' = IF msConf.gtid THEN 1 ELSE msCommitted[Current] + 1
  /\ UNCHANGED <<tries, msCommitted, msExecuted, ioRuns, sqlRuns, masterUp>>

\* Fault: only the IO thread is started.
StartIoOnly ==
  /\ msPhase = "start"
  /\ MsGoto(IF firstRound THEN "poll" ELSE "topology")
  /\ ioRuns' = TRUE /\ UNCHANGED sqlRuns
  /\ tries' = SetupTries
  /\ UNCHANGED <<msCommitted, msExecuted, relay, position, msSource, masterUp>>

\* START SLAVE; the first round then polls the slave's status.
StartNewMaster ==
  /\ msPhase = "start"
  /\ MsGoto(IF firstRound THEN "poll" ELSE "topology")
  /\ ioRuns' = TRUE /\ sqlRuns' = TRUE
  /\ tries' = SetupTries
  /\ UNCHANGED <<msCommitted, msExecuted, relay, position, msSource, masterUp>>

\* setup's loop ends when the IO thread waits for its master, after num_tries
\* with an error.  "No" is a true value to Python: the state of the SQL thread
\* is not looked at.
PollSlave ==
  /\ msPhase = "poll"
  /\ \/ /\ masterUp[Current] /\ MsGoto("topology") /\ UNCHANGED tries
     \/ /\ tries > 0 /\ tries' = tries - 1 /\ UNCHANGED <<msPhase, msConf, idx,
                                                          firstRound>>
     \/ tries = 0 /\ MsGoto("aborted") /\ UNCHANGED tries
  /\ UNCHANGED msServers

\* The Topology object of the new pair: only now are GTIDs required.
CheckTopology ==
  /\ msPhase = "topology" /\ masterUp[Current]
  /\ MsGoto(IF msConf.gtid THEN "slice" ELSE "aborted")
  /\ UNCHANGED <<tries, msServers>>

\* Fault: the last master of the list is never reached.
EndSliceEarly ==
  /\ msPhase = "slice"
  /\ msPhase' = "switch"
  /\ IF idx + 1 >= Len(Masters) THEN idx' = 1 /\ firstRound' = FALSE
     ELSE idx' = idx + 1 /\ UNCHANGED firstRound
  /\ UNCHANGED <<msConf, tries, msServers>>

\* The time slice is over: the next master, and after the last the next round.
EndSlice ==
  /\ msPhase = "slice"
  /\ msPhase' = "switch"
  /\ IF idx = Len(Masters) THEN idx' = 1 /\ firstRound' = FALSE
     ELSE idx' = idx + 1 /\ UNCHANGED firstRound
  /\ UNCHANGED <<msConf, tries, msServers>>

\* A report connects to every master; one that does not answer ends run().
ReportHealth ==
  /\ msPhase = "slice" /\ \E m \in MasterSet : ~masterUp[m]
  /\ MsGoto("aborted")
  /\ UNCHANGED <<tries, msServers>>

\* stop_replication.
StopReplication ==
  /\ msPhase = "aborted" /\ msSource # NoMaster /\ (ioRuns \/ sqlRuns)
  /\ ioRuns' = FALSE /\ sqlRuns' = FALSE
  /\ UNCHANGED <<msPhase, msConf, idx, firstRound, tries, msCommitted,
                 msExecuted, relay, position, msSource, masterUp>>

----------------------------------------------------------------------------
\* The servers.

MsEnv == UNCHANGED <<msPhase, msConf, idx, firstRound, tries>>

CommitOn(m) ==
  /\ masterUp[m] /\ msCommitted[m] < MsTrx
  /\ msCommitted' = [msCommitted EXCEPT ![m] = @ + 1]
  /\ MsEnv /\ UNCHANGED <<msExecuted, relay, position, msSource, ioRuns,
                          sqlRuns, masterUp>>

MasterCrash(m) ==
  /\ masterUp[m] /\ \A r \in MasterSet : masterUp[r]
  /\ masterUp' = [masterUp EXCEPT ![m] = FALSE]
  /\ MsEnv /\ UNCHANGED <<msCommitted, msExecuted, relay, position, msSource,
                          ioRuns, sqlRuns>>

\* The IO thread: the next transaction from its position; with GTIDs the master
\* skips those the slave has executed.
Sendable(m) == {n \in position..msCommitted[m] :
                  ~msConf.gtid \/ <<m, n>> \notin msExecuted}
FetchNext ==
  /\ ioRuns /\ msSource # NoMaster /\ masterUp[msSource]
  /\ \E n \in Sendable(msSource) :
       /\ \A k \in Sendable(msSource) : n <= k
       /\ relay' = Append(relay, <<msSource, n>>)
       /\ position' = n + 1
  /\ MsEnv /\ UNCHANGED <<msCommitted, msExecuted, msSource, ioRuns, sqlRuns,
                          masterUp>>

\* The SQL thread.
ApplyRelay ==
  /\ sqlRuns /\ relay # <<>>
  /\ msExecuted' = msExecuted \cup {Head(relay)}
  /\ relay' = Tail(relay)
  /\ MsEnv /\ UNCHANGED <<msCommitted, position, msSource, ioRuns, sqlRuns,
                          masterUp>>

----------------------------------------------------------------------------
MsStep ==
  \/ StopOldMaster \/ SetUpUser \/ ChangeMaster \/ StartNewMaster
  \/ PollSlave \/ CheckTopology \/ EndSlice \/ ReportHealth
  \/ StopReplication
  \/ \E from \in {"setup", "change", "topology"} : MsAbort(from)
MsThreads == FetchNext \/ ApplyRelay

MsNext ==
  MsStep \/ MsThreads \/ \E m \in MasterSet : CommitOn(m) \/ MasterCrash(m)

\* The tool goes on; a slice lasts long enough, often enough, for the threads
\* to fetch and to apply from each master.
MsSpec ==
  /\ MsInit /\ [][MsNext]_msVars
  /\ WF_msVars(MsStep)
  /\ \A m \in MasterSet : /\ SF_msVars(FetchNext /\ msSource = m)
                           /\ SF_msVars(ApplyRelay /\ msSource = m)

----------------------------------------------------------------------------
\* Properties.

\* However often the slave leaves a master, with transactions still in its
\* relay log, what it has executed of that master has no gap.
NoGaps ==
  msConf.gtid =>
    \A t \in msExecuted : \A n \in 1..t[2] : <<t[1], n>> \in msExecuted

\* Each master's transactions reach the slave while every master is up.
EveryMasterReplicated ==
  \A m \in MasterSet, n \in 1..MsTrx :
    (msConf.gtid /\ msCommitted[m] >= n) ~>
       (<<m, n>> \in msExecuted \/ msPhase = "aborted")
=============================================================================
