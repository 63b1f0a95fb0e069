------------------------------ MODULE Switchover ------------------------------
(***************************************************************************)
(* Topology.switchover of mysql/utilities/common/topology.py: a master that *)
(* is up hands its role to the slave --new-master.  Writes are blocked, the *)
(* slaves catch up, all are stopped, and those that answer are attached to  *)
(* the new master; with --demote-master the old one too.                    *)
(*                                                                          *)
(* GTIDs are on at the master.  As in Failover there is one action per      *)
(* remote call; clients commit on the master when it is writable, threads   *)
(* run and servers crash.  An uncaught exception ends in "aborted", a       *)
(* refusal of the prerequisites in "refused"; both close the connections,   *)
(* which releases FTWRL but leaves READ_ONLY as it is.  The external        *)
(* scripts and the reports are left out: their errors change nothing.       *)
(***************************************************************************)
EXTENDS ReplServers

CONSTANTS
  OldMaster,      \* self.master when the method is called
  SlaveList,      \* self.slaves, in order
  NewMaster,      \* --new-master: nothing makes it a member of SlaveList
  Confs,          \* the configurations to consider (see ConfType)
  WaitsExpire,    \* whether a wait for GTIDs may reach --timeout
  MaxCrashes      \* bound on the servers that stop answering

Slaves == {SlaveList[i] : i \in DOMAIN SlaveList}

\* Options, and facts about the servers.  connected: the entries of
\* self.slaves that hold a Slave instance and not None; strayed: servers that
\* replicate from nobody; viable: the candidate passes every check of its
\* eligibility but the replication user's; rplUser: it has that user;
\* sameUser: --rpl-user agrees with the repository of a FILE slave; newUser:
\* the user of --rpl-user is still to be created on the candidate.
ConfType == [force : BOOLEAN, demote : BOOLEAN, connected : SUBSET Servers,
             strayed : SUBSET Servers, gtid : SUBSET Servers,
             viable : BOOLEAN, rplUser : BOOLEAN, sameUser : BOOLEAN,
             newUser : BOOLEAN]

ASSUME SwitchoverAssumption ==
  /\ OldMaster \in Servers /\ NewMaster \in Servers \ {OldMaster}
  /\ SlaveList \in Seq(Servers \ {OldMaster}) /\ Len(SlaveList) > 0
  /\ \A i, j \in DOMAIN SlaveList : SlaveList[i] = SlaveList[j] => i = j
  /\ Confs \subseteq ConfType
  /\ WaitsExpire \in BOOLEAN
  /\ MaxCrashes \in Nat

VARIABLES
  conf,           \* the options and facts of this run (never changes)
  pc,             \* place in switchover()
  idx,            \* position in List of the current loop
  master,         \* self.master
  listed,         \* the servers in self.slaves
  gtids           \* master_gtid: what the master had executed once blocked

tool == <<pc, idx, master, listed, gtids>>
vars == <<servers, conf, tool>>

\* self.slaves once the old master is appended to it.
List == Append(SlaveList, OldMaster)

Blocked == {"wait", "waiting", "stopAll", "unblock"}
Handed  == {"position", "switch", "change", "startAll", "check", "done"}
Ended   == {"done", "aborted", "refused"}
Places  == {"connect", "prerequisites", "configured", "user", "block",
            "snapshot", "demote", "promote"} \cup Blocked \cup Handed \cup Ended

TypeOK ==
  /\ ServersTypeOK
  /\ conf   \in Confs
  /\ pc     \in Places
  /\ idx    \in DOMAIN List
  /\ master \in {OldMaster, NewMaster}
  /\ listed \subseteq Servers
  /\ gtids  \in SUBSET Trx

\* Each slave holds some of the master's transactions.
Init ==
  /\ conf \in Confs
  /\ alive = [s \in Servers |-> TRUE]
  /\ executed \in [Servers -> SUBSET Trx]
  /\ \A s \in Servers : executed[s] \subseteq executed[OldMaster]
  /\ retrieved = [s \in Servers |-> {}]
  /\ source = [s \in Servers |-> IF s \in conf.strayed \cup {OldMaster}
                                   THEN NoServer ELSE OldMaster]
  /\ io  = [s \in Servers |-> source[s] # NoServer]
  /\ sql = [s \in Servers |-> source[s] # NoServer]
  /\ readOnly = [s \in Servers |-> FALSE]
  /\ ftwrl = [s \in Servers |-> FALSE]
  /\ pc = "connect" /\ idx = 1 /\ master = OldMaster
  /\ listed = Slaves /\ gtids = {}

----------------------------------------------------------------------------
Entry == List[idx]

\* The entry has an instance (the old master's is made when it is demoted)
\* and the server answers it.
Answers(s) == s \in listed /\ s \in conf.connected \cup {OldMaster} /\ alive[s]

Goto(place) == pc' = place

\* Fault: the loop runs one position past the end of the list.
NextSlaveOffByOne(first, after) ==
  IF idx <= Len(List) THEN Goto(first) /\ idx' = idx + 1
                      ELSE Goto(after) /\ idx' = 1

\* The next iteration of the loop that starts at first, or what follows it.
NextSlave(first, after) ==
  IF idx < Len(List) THEN Goto(first) /\ idx' = idx + 1
                     ELSE Goto(after) /\ idx' = 1

\* Only the place changes.
Proceed(place) ==
  Goto(place) /\ UNCHANGED <<servers, conf, idx, master, listed, gtids>>

\* The method ends early; closing the connections releases FTWRL.
Leave(how) ==
  /\ Goto(how)
  /\ ftwrl' = [s \in Servers |-> FALSE]
  /\ UNCHANGED <<alive, data, threads, readOnly, conf,
                 idx, master, listed, gtids>>
Abort == Leave("aborted")

----------------------------------------------------------------------------
ConnectCandidate ==
  /\ pc = "connect"
  /\ IF alive[NewMaster] THEN Proceed("prerequisites") ELSE Abort

\* GTIDs everywhere, and the candidate's eligibility.
Prerequisites ==
  /\ alive[OldMaster] /\ alive[NewMaster]
  /\ \A s \in listed : Answers(s) => s \in conf.gtid
  /\ source[NewMaster] = OldMaster
  /\ conf.viable /\ conf.rplUser

\* Every UtilError of _check_switchover_prerequisites, of a check or of a
\* lost connection, is ignored with --force.
CheckPrerequisites ==
  /\ pc = "prerequisites"
  /\ IF Prerequisites \/ conf.force THEN Proceed("configured")
                                    ELSE Leave("refused")

\* is_configured_for_master on every slave that answers.
CheckConfigured ==
  /\ pc = "configured"
  /\ IF conf.force \/ \A s \in listed : Answers(s) => source[s] = OldMaster
       THEN Proceed("user") ELSE Abort

\* _get_rpl_user and create_rpl_user.  toggle_binlog is sent to the master:
\* on the candidate the CREATE USER or GRANT is a transaction of its own.
CreateRplUser ==
  LET fresh == Trx \ UNION {Known(s) : s \in Servers} IN
  /\ pc = "user"
  /\ IF ~(alive[OldMaster] /\ alive[NewMaster]) THEN Abort
     ELSE IF ~(conf.sameUser \/ conf.force) THEN Leave("refused")
     ELSE IF conf.newUser /\ fresh # {}
       THEN /\ \E t \in fresh :
                 executed' = [executed EXCEPT ![NewMaster] = @ \cup {t}]
            /\ Goto("block")
            /\ UNCHANGED <<alive, retrieved, threads, blocks, conf,
                           idx, master, listed, gtids>>
       ELSE Proceed("block")

----------------------------------------------------------------------------
\* Fault: neither statement is executed on the master.
BlockNothing ==
  /\ pc = "block"
  /\ IF ~alive[OldMaster] THEN Abort ELSE Proceed("snapshot")

\* Lock(self.master, ...) then set_read_only(True).
BlockMaster ==
  /\ pc = "block"
  /\ IF ~alive[OldMaster] THEN Abort
     ELSE /\ FlushLock(OldMaster) /\ SetReadOnly(OldMaster, TRUE)
          /\ Goto("snapshot")
          /\ UNCHANGED <<alive, data, threads, conf, idx, master, listed, gtids>>

ReadMasterGtids ==
  /\ pc = "snapshot"
  /\ IF ~alive[OldMaster] THEN Abort
     ELSE /\ gtids' = executed[OldMaster]
          /\ Goto("wait")
          /\ UNCHANGED <<servers, conf, idx, master, listed>>

\* master.get_status(), then is_alive on the slave.  (The old master, last in
\* List, is not an entry yet.)
CheckAlive ==
  /\ pc = "wait"
  /\ IF ~alive[OldMaster] /\ Entry # OldMaster THEN Abort
     ELSE IF Answers(Entry) THEN Proceed("waiting")
     ELSE /\ NextSlave("wait", "stopAll")
          /\ UNCHANGED <<servers, conf, master, listed, gtids>>

\* Fault: the wait is issued without --timeout.
NeverGivesUp == ~(gtids \subseteq executed[Entry]) /\ ~sql[Entry]

\* wait_for_slave_gtid gives up: at --timeout, or without the SQL thread.
MayGiveUp == ~(gtids \subseteq executed[Entry]) /\ (~sql[Entry] \/ WaitsExpire)

\* Fault: the result of the wait is not looked at.
WaitIgnored ==
  /\ pc = "waiting"
  /\ IF ~alive[Entry] THEN Abort
     ELSE /\ gtids \subseteq executed[Entry] \/ MayGiveUp
          /\ NextSlave("wait", "stopAll")
          /\ UNCHANGED <<servers, conf, master, listed, gtids>>

\* A slave that did not catch up ends the method unless --force is given.
WaitForSlave ==
  /\ pc = "waiting"
  /\ \/ ~alive[Entry] /\ Abort
     \/ alive[Entry] /\ ~conf.force /\ MayGiveUp /\ Abort
     \/ /\ alive[Entry]
        /\ gtids \subseteq executed[Entry] \/ (conf.force /\ MayGiveUp)
        /\ NextSlave("wait", "stopAll")
        /\ UNCHANGED <<servers, conf, master, listed, gtids>>

\* run_cmd_on_slaves("stop") and ("start"): errors are reported only.
StopAllSlaves ==
  /\ pc = "stopAll"
  /\ IF Answers(Entry) THEN StopSlave(Entry) ELSE UNCHANGED <<data, threads>>
  /\ NextSlave("stopAll", "unblock")
  /\ UNCHANGED <<alive, blocks, conf, master, listed, gtids>>

\* set_read_only(False) then unlock(): the old master takes writes again.
UnblockMaster ==
  /\ pc = "unblock"
  /\ IF ~alive[OldMaster] THEN Abort
     ELSE /\ SetReadOnly(OldMaster, FALSE) /\ Unlock(OldMaster)
          /\ Goto(IF conf.demote THEN "demote" ELSE "promote")
          /\ UNCHANGED <<alive, data, threads, conf, idx, master, listed, gtids>>

----------------------------------------------------------------------------
\* Fault: the old master is stopped as a slave and not added to the list.
DemoteUnlisted ==
  /\ pc = "demote"
  /\ IF ~alive[OldMaster] THEN Abort
     ELSE /\ StopSlave(OldMaster)
          /\ Goto("promote")
          /\ UNCHANGED <<alive, blocks, conf, idx, master, listed, gtids>>

DemoteMaster ==
  /\ pc = "demote"
  /\ IF ~alive[OldMaster] THEN Abort
     ELSE /\ StopSlave(OldMaster)
          /\ listed' = listed \cup {OldMaster}
          /\ Goto("promote")
          /\ UNCHANGED <<alive, blocks, conf, idx, master, gtids>>

\* Fault: STOP SLAVE on the new master without RESET SLAVE ALL.
PromoteStopped ==
  /\ pc = "promote"
  /\ IF ~alive[NewMaster] THEN Abort
     ELSE /\ StopSlave(NewMaster)
          /\ master' = NewMaster /\ listed' = listed \ {NewMaster}
          /\ Goto("position")
          /\ UNCHANGED <<alive, blocks, conf, idx, gtids>>

\* self.master = m_candidate, remove_slave (which skips entries without an
\* instance), reset_all.
PromoteCandidate ==
  /\ pc = "promote"
  /\ IF ~alive[NewMaster] THEN Abort
     ELSE /\ ResetSlaveAll(NewMaster)
          /\ master' = NewMaster
          /\ listed' = listed \ ({NewMaster} \cap conf.connected)
          /\ Goto("position")
          /\ UNCHANGED <<alive, blocks, conf, idx, gtids>>

\* m_candidate.get_status() for the values of CHANGE MASTER.
ReadNewMasterStatus ==
  /\ pc = "position"
  /\ IF alive[NewMaster] THEN Proceed("switch") ELSE Abort

CheckBeforeSwitch ==
  /\ pc = "switch"
  /\ IF Answers(Entry) THEN Proceed("change")
     ELSE /\ NextSlave("switch", "startAll")
          /\ UNCHANGED <<servers, conf, master, listed, gtids>>

\* make_change_master and its statement.
SwitchSlave ==
  /\ pc = "change"
  /\ IF ~alive[Entry] THEN Abort
     ELSE /\ ChangeMaster(Entry, master)
          /\ NextSlave("switch", "startAll")
          /\ UNCHANGED <<alive, blocks, conf, master, listed, gtids>>

StartAllSlaves ==
  /\ pc = "startAll"
  /\ IF Answers(Entry) THEN StartSlave(Entry) ELSE UNCHANGED <<data, threads>>
  /\ NextSlave("startAll", "check")
  /\ UNCHANGED <<alive, blocks, conf, master, listed, gtids>>

\* _check_all_slaves never finds a slave in error.
CheckAllSlaves == pc = "check" /\ Proceed("done")

----------------------------------------------------------------------------
Check  == ConnectCandidate \/ CheckPrerequisites \/ CheckConfigured
            \/ CreateRplUser
Settle == BlockMaster \/ ReadMasterGtids \/ CheckAlive \/ WaitForSlave
            \/ StopAllSlaves \/ UnblockMaster
Hand   == DemoteMaster \/ PromoteCandidate \/ ReadNewMasterStatus
            \/ CheckBeforeSwitch \/ SwitchSlave \/ StartAllSlaves
            \/ CheckAllSlaves

SwitchoverStep == Check \/ Settle \/ Hand

FetchStep == \E s \in Servers : Fetch(s) /\ UNCHANGED <<conf, tool>>
ApplyStep == \E s \in Servers : Apply(s) /\ UNCHANGED <<conf, tool>>

\* Clients write to the old master, and to the new one once all is done.
CommitStep ==
  /\ \E s \in Servers : /\ s = OldMaster \/ (s = master /\ pc = "done")
                        /\ Commit(s)
  /\ UNCHANGED <<conf, tool>>

CrashStep ==
  /\ pc \notin Ended
  /\ Cardinality({s \in Servers : ~alive[s]}) < MaxCrashes
  /\ \E s \in Servers : Crash(s)
  /\ UNCHANGED <<conf, tool>>

Next == SwitchoverStep \/ FetchStep \/ ApplyStep \/ CommitStep \/ CrashStep

Fairness ==
  /\ WF_vars(SwitchoverStep)
  /\ \A s \in Servers : WF_vars(Fetch(s) /\ UNCHANGED <<conf, tool>>)
  /\ \A s \in Servers : WF_vars(Apply(s) /\ UNCHANGED <<conf, tool>>)

Spec == Init /\ [][Next]_vars
FairSpec == Spec /\ Fairness

----------------------------------------------------------------------------
\* Properties.

\* From the moment the master's GTIDs are read until it is unblocked, it
\* commits nothing more: what the slaves wait for is all there is.
SnapshotIsFinal == pc \in Blocked => executed[OldMaster] = gtids

\* Unless --force is given, every slave in the list that answers has executed
\* the master's last transaction before any slave is stopped, and so has the
\* new master, if it is in the list, when it takes over.
SlavesCaughtUp ==
  /\ pc \in {"stopAll", "unblock"} /\ ~conf.force =>
       \A s \in listed : Answers(s) => gtids \subseteq executed[s]
  /\ pc \in Handed /\ ~conf.force /\ NewMaster \in Slaves \cap conf.connected =>
       gtids \subseteq executed[NewMaster]

\* No two servers ever replicate from each other, although the old master is
\* attached to a server that was its slave.
NoReplicationCycle ==
  \A s, r \in Servers : ~(source[s] = r /\ source[r] = s /\ io[s])

\* At the end the new master replicates from nobody, and every entry of the
\* list that answers is attached to it and running, the old master included
\* when it is to be demoted.
TopologySwitched ==
  pc = "done" =>
    /\ source[NewMaster] = NoServer /\ ~io[NewMaster] /\ ~sql[NewMaster]
    /\ \A s \in (listed \cap conf.connected)
                  \cup (IF conf.demote THEN {OldMaster} ELSE {}) :
         alive[s] => source[s] = NewMaster /\ io[s] /\ sql[s]
    /\ ~readOnly[OldMaster] /\ ~ftwrl[OldMaster]

\* switchover() always ends when its waits may expire.
Terminates == <>(pc \in Ended)

\* Afterwards the slaves that answer reach everything a new master that still
\* answers has executed at the end.
Converges ==
  \A t \in Trx :
    (pc = "done" /\ alive[NewMaster] /\ t \in executed[NewMaster]) ~>
       \A s \in listed \cap conf.connected : alive[s] => t \in executed[s]

----------------------------------------------------------------------------
\* What the documentation states and the code does not do: "there is no loss
\* of transactions as the master is locked and all slaves are allowed to
\* catch up to the master" (mysqlrpladmin.1).

\* The new master has what the master had executed when it was blocked, also
\* when --new-master names a slave that is not in --slaves.
NewMasterCaughtUp ==
  pc = "done" /\ ~conf.force => gtids \subseteq executed[NewMaster]

\* The new master has everything a client committed on the old master.
NoWriteLost ==
  pc = "done" /\ ~conf.force =>
     executed[OldMaster] \subseteq executed[NewMaster]
=============================================================================
