------------------------------- MODULE Failover -------------------------------
(***************************************************************************)
(* Topology.failover of mysql/utilities/common/topology.py: the master is   *)
(* considered lost, a slave is elected, collects the transactions it misses *)
(* by being made a slave of each other slave in turn, and becomes the new   *)
(* master of the slaves that answer.                                        *)
(*                                                                          *)
(* One action per remote call (or per run of calls nothing can interleave   *)
(* with); between them the servers' replication threads run and slaves      *)
(* crash.  pc is the place in the method, idx the slave of the current loop *)
(* over self.slaves.  An uncaught exception ends the method in "aborted":   *)
(* the utility exits and its connections, with the FTWRL they hold, close.  *)
(* Scripts, reports and the creation of the replication user are left out:  *)
(* their errors are reported and the method goes on.                        *)
(***************************************************************************)
EXTENDS ReplServers

CONSTANTS
  OldMaster,      \* the master being replaced
  SlaveList,      \* self.slaves: a sequence of servers
  Candidates,     \* the --candidates list: a sequence of servers, may be empty
  Confs,          \* the configurations to consider (see ConfType)
  MasterMayLive,  \* whether the old master may in fact still be up
  WaitsExpire,    \* whether a wait for GTIDs may reach --timeout
  MaxCrashes      \* bound on the slaves that stop answering

Slaves == {SlaveList[i] : i \in DOMAIN SlaveList}

\* Options of the command and static facts about the servers.
ConfType == [force : BOOLEAN, pedantic : BOOLEAN, stopOnError : BOOLEAN,
             strict : BOOLEAN, gtid : SUBSET Servers, binlog : SUBSET Servers,
             rplUser : SUBSET Servers, sqlStopped : SUBSET Servers,
             readOnly : SUBSET Servers]

ASSUME FailoverAssumption ==
  /\ OldMaster \in Servers
  /\ SlaveList \in Seq(Servers \ {OldMaster}) /\ Len(SlaveList) > 0
  /\ \A i, j \in DOMAIN SlaveList : SlaveList[i] = SlaveList[j] => i = j
  /\ Candidates \in Seq(Servers \ {OldMaster})
  /\ Confs \subseteq ConfType
  /\ MasterMayLive \in BOOLEAN
  /\ WaitsExpire \in BOOLEAN
  /\ MaxCrashes \in Nat

VARIABLES
  conf,           \* the options and facts of this run (never changes)
  pc,             \* place in failover()
  idx,            \* position in SlaveList of the current loop
  cand,           \* new_master_dict, NoServer before the election
  master,         \* self.master once it is the new master, else NoServer
  listed,         \* the servers still in self.slaves
  target,         \* GTID set read from a server and compared or waited for
  waited          \* history: every wait so far ended with its GTIDs applied

tool == <<pc, idx, cand, master, listed, target, waited>>
vars == <<servers, conf, tool>>

Loops    == {"status", "drain", "compare", "detachFirst", "lock", "attach",
             "unlock", "reattach", "snapshot", "catchup", "detach"}
Promoted == {"stopAll", "remove", "switch", "change", "reset", "startAll",
             "check", "done"}
Places   == {"elect", "gtid", "precheck", "promote", "aborted"}
              \cup Loops \cup Promoted

TypeOK ==
  /\ ServersTypeOK
  /\ conf   \in Confs
  /\ pc     \in Places
  /\ idx    \in DOMAIN SlaveList
  /\ cand   \in (Servers \ {OldMaster}) \cup {NoServer}
  /\ master \in (Servers \ {OldMaster}) \cup {NoServer}
  /\ listed \subseteq Slaves
  /\ target \in SUBSET Trx
  /\ waited \in BOOLEAN

\* Slaves replicate from the old master, each with its own backlog; the
\* master's own executed set holds everything a slave got from it.
Init ==
  /\ conf \in Confs
  /\ \E up \in BOOLEAN : /\ up => MasterMayLive
                        /\ alive = [s \in Servers |-> s # OldMaster \/ up]
  /\ executed \in [Servers -> SUBSET Trx]
  /\ executed[OldMaster] = Trx
  /\ retrieved \in [Servers -> SUBSET Trx]
  /\ \A s \in Servers : retrieved[s] \cap executed[s] = {}
  /\ source = [s \in Servers |-> IF s = OldMaster THEN NoServer ELSE OldMaster]
  /\ io  = [s \in Servers |-> s # OldMaster]
  /\ sql = [s \in Servers |-> s # OldMaster /\ s \notin conf.sqlStopped]
  /\ readOnly = [s \in Servers |-> s \in conf.readOnly]
  /\ ftwrl = [s \in Servers |-> FALSE]
  /\ pc = "elect" /\ idx = 1 /\ cand = NoServer /\ master = NoServer
  /\ listed = Slaves /\ target = {} /\ waited = TRUE

----------------------------------------------------------------------------
Slave == SlaveList[idx]

Goto(place) == pc' = place

\* Fault: the loop runs one position past the end of the list.
NextSlaveOffByOne(first, after) ==
  IF idx <= Len(SlaveList) THEN Goto(first) /\ idx' = idx + 1
                           ELSE Goto(after) /\ idx' = 1

\* The next iteration of the loop that starts at first, or what follows it.
NextSlave(first, after) ==
  IF idx < Len(SlaveList) THEN Goto(first) /\ idx' = idx + 1
                          ELSE Goto(after) /\ idx' = 1

\* An exception leaves the method; closing the connections releases FTWRL.
Abort ==
  /\ Goto("aborted")
  /\ ftwrl' = [s \in Servers |-> FALSE]
  /\ UNCHANGED <<alive, data, threads, readOnly, conf,
                 idx, cand, master, listed, target, waited>>

----------------------------------------------------------------------------
\* find_best_slave(candidates, check_master=False, strict).

\* _check_candidate_eligibility without a master to compare with.
Eligible(s) ==
  /\ s \in conf.gtid \cup conf.binlog
  /\ s \in conf.rplUser \/ conf.force

Viable(list) == {i \in DOMAIN list : alive[list[i]] /\ Eligible(list[i])}

First(i, S) == i \in S /\ \A j \in S : i <= j

Choose(s) ==
  /\ cand' = s /\ Goto("gtid")
  /\ UNCHANGED <<servers, conf, idx, master, listed, target, waited>>

\* The first viable candidate, then the first viable slave unless strict.
\* connect_candidate raises on a candidate that does not answer.
Elect ==
  LET unreachable == {i \in DOMAIN Candidates : ~alive[Candidates[i]]}
      tried       == Viable(Candidates) \cup unreachable
  IN /\ pc = "elect"
     /\ \/ \E i \in Viable(Candidates) : First(i, tried) /\ Choose(Candidates[i])
        \/ \E i \in unreachable : First(i, tried) /\ Abort
        \/ /\ tried = {} /\ ~conf.strict
           /\ \E i \in Viable(SlaveList) :
                First(i, Viable(SlaveList)) /\ Choose(SlaveList[i])
        \/ /\ tried = {} /\ (conf.strict \/ Viable(SlaveList) = {})
           /\ Abort

\* GTID_MODE=ON on the new master and on every slave that answers.
CheckGtid ==
  /\ pc = "gtid"
  /\ IF alive[cand] /\ cand \in conf.gtid
          /\ \A s \in listed : alive[s] => s \in conf.gtid
       THEN Goto("precheck") /\ UNCHANGED <<servers, conf, idx, cand, master,
                                            listed, target, waited>>
       ELSE Abort

\* _check_slaves_status: dead, not a slave, or without its SQL thread.
Troubled(s) == ~alive[s] \/ source[s] = NoServer \/ ~sql[s]

StopOnTrouble ==
  (conf.stopOnError /\ ~conf.force) \/ (~conf.stopOnError /\ conf.pedantic)

\* Fault: the new master is promoted without being prepared.
SkipPreparation ==
  /\ pc = "precheck"
  /\ IF alive[cand] /\ ~(StopOnTrouble /\ \E s \in listed : Troubled(s))
       THEN Goto("promote") /\ UNCHANGED <<servers, conf, idx, cand, master,
                                           listed, target, waited>>
       ELSE Abort

CheckSlavesStatus ==
  /\ pc = "precheck"
  /\ IF alive[cand] /\ ~(StopOnTrouble /\ \E s \in listed : Troubled(s))
       THEN Goto("status") /\ UNCHANGED <<servers, conf, idx, cand, master,
                                          listed, target, waited>>
       ELSE Abort

----------------------------------------------------------------------------
\* _prepare_candidate_for_failover: one iteration per slave of the list.

\* is_alive, then read the slave's retrieved set.
CheckAlive ==
  /\ pc = "status"
  /\ IF alive[Slave]
       THEN /\ target' = retrieved[Slave]
            /\ Goto("drain")
            /\ UNCHANGED <<servers, conf, idx, cand, master, listed, waited>>
       ELSE /\ NextSlave("status", "promote")
            /\ UNCHANGED <<servers, conf, cand, master, listed, target, waited>>

\* Fault: the wait is issued without the --timeout argument.
WaitForever(s) ==
  /\ target \subseteq executed[s] \/ ~sql[s]
  /\ waited' = (waited /\ target \subseteq executed[s])

\* WAIT_UNTIL_SQL_THREAD_AFTER_GTIDS on s returns: the transactions of target
\* are applied, the SQL thread is not running, or --timeout is reached.
\* Its result is not looked at.
WaitReturns(s) ==
  /\ target \subseteq executed[s] \/ ~sql[s] \/ WaitsExpire
  /\ waited' = (waited /\ target \subseteq executed[s])

\* read_all_retrieved_gtids, the identity check, and the slave's half of
\* _has_missing_transactions.
Drain ==
  /\ pc = "drain"
  /\ IF ~alive[Slave] THEN Abort
     ELSE /\ WaitReturns(Slave)
          /\ IF Slave = cand
               THEN NextSlave("status", "promote") /\ UNCHANGED target
               ELSE Goto("compare") /\ target' = Known(Slave) /\ UNCHANGED idx
          /\ UNCHANGED <<servers, conf, cand, master, listed>>

\* Fault: the arguments of gtid_subset are swapped.
HasMissingSwapped ==
  /\ pc = "compare"
  /\ IF ~alive[Slave] \/ ~alive[cand] THEN Abort
     ELSE /\ IF executed[cand] \subseteq target
               THEN NextSlave("status", "promote")
               ELSE Goto("detachFirst") /\ UNCHANGED idx
          /\ UNCHANGED <<servers, conf, cand, master, listed, target, waited>>

\* gtid_subset(what the slave has, what the candidate executed).
HasMissingTransactions ==
  /\ pc = "compare"
  /\ IF ~alive[Slave] \/ ~alive[cand] THEN Abort
     ELSE /\ IF target \subseteq executed[cand]
               THEN NextSlave("status", "promote")
               ELSE Goto("detachFirst") /\ UNCHANGED idx
          /\ UNCHANGED <<servers, conf, cand, master, listed, target, waited>>

\* candidate.stop(); an error is only reported.
StopCandidate ==
  /\ pc = "detachFirst"
  /\ IF alive[cand] THEN StopSlave(cand) ELSE UNCHANGED <<data, threads>>
  /\ Goto("lock")
  /\ UNCHANGED <<alive, blocks, conf, idx, cand, master, listed, target, waited>>

\* Lock(temp_master) and set_read_only(True).
LockTempMaster ==
  /\ pc = "lock"
  /\ IF ~alive[Slave] THEN Abort
     ELSE /\ FlushLock(Slave) /\ SetReadOnly(Slave, TRUE)
          /\ Goto("attach")
          /\ UNCHANGED <<alive, data, threads, conf,
                         idx, cand, master, listed, target, waited>>

\* candidate.switch_master(temp_master).
AttachCandidate ==
  /\ pc = "attach"
  /\ IF ~alive[cand] THEN Abort
     ELSE /\ ChangeMaster(cand, Slave)
          /\ Goto("unlock")
          /\ UNCHANGED <<alive, blocks, conf,
                         idx, cand, master, listed, target, waited>>

\* Fault: only the table lock is released.
UnlockOnlyTables ==
  /\ pc = "unlock"
  /\ IF ~alive[Slave] THEN Abort
     ELSE /\ Unlock(Slave)
          /\ Goto("reattach")
          /\ UNCHANGED <<alive, data, threads, readOnly, conf,
                         idx, cand, master, listed, target, waited>>

\* set_read_only(False) clears the flag however it was set; then unlock().
UnlockTempMaster ==
  /\ pc = "unlock"
  /\ IF ~alive[Slave] THEN Abort
     ELSE /\ SetReadOnly(Slave, FALSE) /\ Unlock(Slave)
          /\ Goto("reattach")
          /\ UNCHANGED <<alive, data, threads, conf,
                         idx, cand, master, listed, target, waited>>

\* candidate.start(); an error is only reported.
StartCandidate ==
  /\ pc = "reattach"
  /\ IF alive[cand] THEN StartSlave(cand) ELSE UNCHANGED <<data, threads>>
  /\ Goto("snapshot")
  /\ UNCHANGED <<alive, blocks, conf, idx, cand, master, listed, target, waited>>

\* SELECT @@GLOBAL.GTID_EXECUTED on the temporary master.
ReadTempMasterGtids ==
  /\ pc = "snapshot"
  /\ IF ~alive[Slave] THEN Abort
     ELSE /\ target' = executed[Slave]
          /\ Goto("catchup")
          /\ UNCHANGED <<servers, conf, idx, cand, master, listed, waited>>

\* candidate.wait_for_slave_gtid(...): its result is not looked at either.
WaitForCandidate ==
  /\ pc = "catchup"
  /\ IF ~alive[cand] THEN Abort
     ELSE /\ WaitReturns(cand)
          /\ Goto("detach")
          /\ UNCHANGED <<servers, conf, idx, cand, master, listed, target>>

DetachCandidate ==
  /\ pc = "detach"
  /\ IF ~alive[cand] THEN Abort
     ELSE /\ StopSlave(cand)
          /\ NextSlave("status", "promote")
          /\ UNCHANGED <<alive, blocks, conf, cand, master, listed, target, waited>>

----------------------------------------------------------------------------
\* The rest of failover().

\* _change_role connects to the new master; create_rpl_user, before script.
Promote ==
  /\ pc = "promote"
  /\ IF ~alive[cand] THEN Abort
     ELSE /\ master' = cand
          /\ Goto("stopAll")
          /\ UNCHANGED <<servers, conf, idx, cand, listed, target, waited>>

\* run_cmd_on_slaves("stop") and ("start"): the dead are skipped.
StopAllSlaves ==
  /\ pc = "stopAll"
  /\ IF alive[Slave] THEN StopSlave(Slave) ELSE UNCHANGED <<data, threads>>
  /\ NextSlave("stopAll", "remove")
  /\ UNCHANGED <<alive, blocks, conf, cand, master, listed, target, waited>>

RemoveSlave ==
  /\ pc = "remove"
  /\ listed' = listed \ {cand}
  /\ Goto("switch")
  /\ UNCHANGED <<servers, conf, idx, cand, master, target, waited>>

\* is_alive, then slave.switch_master(self.master).
CheckBeforeSwitch ==
  /\ pc = "switch"
  /\ IF Slave \in listed /\ alive[Slave]
       THEN Goto("change") /\ UNCHANGED idx
       ELSE NextSlave("switch", "reset")
  /\ UNCHANGED <<servers, conf, cand, master, listed, target, waited>>

SwitchSlave ==
  /\ pc = "change"
  /\ IF ~alive[Slave] THEN Abort
     ELSE /\ ChangeMaster(Slave, master)
          /\ NextSlave("switch", "reset")
          /\ UNCHANGED <<alive, blocks, conf, cand, master, listed, target, waited>>

\* Fault: STOP SLAVE on the new master without RESET SLAVE ALL.
StopNewMaster ==
  /\ pc = "reset"
  /\ IF ~alive[master] THEN Abort
     ELSE /\ StopSlave(master)
          /\ Goto("startAll")
          /\ UNCHANGED <<alive, blocks, conf, idx, cand, master, listed, target, waited>>

ResetNewMaster ==
  /\ pc = "reset"
  /\ IF ~alive[master] THEN Abort
     ELSE /\ ResetSlaveAll(master)
          /\ Goto("startAll")
          /\ UNCHANGED <<alive, blocks, conf, idx, cand, master, listed, target, waited>>

StartAllSlaves ==
  /\ pc = "startAll"
  /\ IF Slave \in listed /\ alive[Slave]
       THEN StartSlave(Slave) ELSE UNCHANGED <<data, threads>>
  /\ NextSlave("startAll", "check")
  /\ UNCHANGED <<alive, blocks, conf, cand, master, listed, target, waited>>

\* After script, then _check_all_slaves, which finds no slave in error: the
\* branch that records one cannot be reached.
CheckAllSlaves ==
  /\ pc = "check"
  /\ Goto("done")
  /\ UNCHANGED <<servers, conf, idx, cand, master, listed, target, waited>>

----------------------------------------------------------------------------
Prepare ==
  \/ CheckAlive \/ Drain \/ HasMissingTransactions \/ StopCandidate
  \/ LockTempMaster \/ AttachCandidate \/ UnlockTempMaster \/ StartCandidate
  \/ ReadTempMasterGtids \/ WaitForCandidate \/ DetachCandidate

Failover ==
  \/ Elect \/ CheckGtid \/ CheckSlavesStatus \/ Prepare \/ Promote
  \/ StopAllSlaves \/ RemoveSlave \/ CheckBeforeSwitch \/ SwitchSlave
  \/ ResetNewMaster \/ StartAllSlaves \/ CheckAllSlaves

FetchStep == \E s \in Servers : Fetch(s) /\ UNCHANGED <<conf, tool>>
ApplyStep == \E s \in Servers : Apply(s) /\ UNCHANGED <<conf, tool>>

\* Slaves crash while the method runs; the old master stays as it was found.
CrashStep ==
  /\ pc \notin {"done", "aborted"}
  /\ Cardinality({s \in Servers \ {OldMaster} : ~alive[s]}) < MaxCrashes
  /\ \E s \in Servers \ {OldMaster} : Crash(s)
  /\ UNCHANGED <<conf, tool>>

Next == Failover \/ FetchStep \/ ApplyStep \/ CrashStep

\* Each call of the utility returns, and the threads of a live server run.
Fairness ==
  /\ WF_vars(Failover)
  /\ \A s \in Servers : WF_vars(Fetch(s) /\ UNCHANGED <<conf, tool>>)
  /\ \A s \in Servers : WF_vars(Apply(s) /\ UNCHANGED <<conf, tool>>)

Spec == Init /\ [][Next]_vars
FairSpec == Spec /\ Fairness

----------------------------------------------------------------------------
\* Properties.

\* The premise of a failover: the old master is gone, and no wait for GTIDs
\* ended before its transactions were applied.
CleanRun == ~alive[OldMaster] /\ waited

\* Once promoted, the new master has executed everything that any slave
\* still answering has executed or holds in its relay log: what the loop of
\* _prepare_candidate_for_failover is there to establish.
BestPromoted ==
  master # NoServer /\ CleanRun =>
    \A s \in Slaves \ {master} : alive[s] => Known(s) \subseteq executed[master]

\* No two servers ever replicate from each other with their IO threads
\* running, although between switch_master and RESET SLAVE ALL the new master
\* is configured for a slave that is configured for it.
NoReplicationCycle ==
  \A s, r \in Servers : ~(source[s] = r /\ source[r] = s /\ io[s] /\ io[r])

\* The locks taken on a temporary master in _prepare_candidate_for_failover
\* are gone at the next iteration and from promotion on.
WritesUnblocked ==
  pc \in {"status", "promote"} \cup Promoted =>
    \A s \in Servers : ~ftwrl[s] /\ (readOnly[s] => s \in conf.readOnly)

\* A clean failover is a promotion as Promotion describes it: a step of the
\* utility changes nothing but who is promoted, a relayed transaction that is
\* applied is received, a slave that stops answering leaves.
Abstract == INSTANCE Promotion WITH
  up      <- {s \in Slaves : alive[s]},
  has     <- executed,
  primary <- master
ImplementsPromotion == Abstract!Spec

\* At the end of failover() the new master replicates from nobody and every
\* slave that answers is attached to it and running.
TopologyRebuilt ==
  pc = "done" =>
    /\ source[master] = NoServer /\ ~io[master] /\ ~sql[master]
    /\ \A s \in listed : alive[s] => source[s] = master /\ io[s] /\ sql[s]

\* failover() always ends.
Terminates == <>(pc \in {"done", "aborted"})

\* After a clean failover the slaves that answer reach the data of a new master
\* that still answers.
Converges ==
  (pc = "done" /\ CleanRun /\ alive[master]) ~>
     (pc = "done" /\ \A s \in listed : alive[s] => executed[s] = executed[master])

----------------------------------------------------------------------------
\* What comments of the code state and the code does not do.

\* "This ensures the candidate is now the 'best' or 'most up-to-date' slave
\* in the topology" (_prepare_candidate_for_failover).
CandidateIsBest ==
  master # NoServer /\ ~alive[OldMaster] =>
    \A s \in Slaves : alive[s] => executed[s] \subseteq executed[master]

\* "This step is necessary for failover to ensure all transactions are
\* applied to all slaves before the new master is selected"
\* (read_all_retrieved_gtids): no step but a crash makes the surviving
\* servers forget a transaction.
NoTransactionLost ==
  [][alive' = alive => Surviving(Servers) \subseteq Surviving(Servers)']_vars

\* "Only turn on|off read only if it were off at connect()" (set_read_only).
ReadOnlyKept == \A s \in Servers : s \in conf.readOnly => readOnly[s]
=============================================================================
