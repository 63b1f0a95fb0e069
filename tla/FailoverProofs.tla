---------------------------- MODULE FailoverProofs ----------------------------
(***************************************************************************)
(* Type correctness of Failover; BestPromoted for every list of slaves,     *)
(* every configuration and every set of transactions; that a clean failover *)
(* implements Promotion; and what becomes of the locks and the topology.    *)
(* The loop invariant: once iteration i is over, everything slave i knows   *)
(* is executed on the candidate, and slave i cannot learn anything more     *)
(* because its source is gone and it has been drained.                      *)
(***************************************************************************)
EXTENDS Failover, TLAPS

\* The steps on one slave between its drain and the end of its iteration.
Drained == {"compare", "detachFirst", "lock", "attach", "unlock",
            "reattach", "snapshot", "catchup", "detach"}

Before == {"elect", "gtid", "precheck"}

\* How the tool's variables depend on the place in the method.
ToolInv ==
  /\ pc = "elect" => cand = NoServer
  /\ pc \notin {"elect", "aborted"} => cand \in Servers
  /\ pc \in Before => idx = 1
  /\ pc \in Before \cup Loops \cup {"promote"} => master = NoServer
  /\ pc \in Promoted => master = cand
  /\ master # NoServer => master = cand /\ cand \in Servers
  /\ pc \in Drained => Slave # cand

\* The candidate has executed all that s knows, unless s does not answer.
Settled(s) == alive[s] => Known(s) \subseteq executed[cand]

\* Nobody but the candidate is ever pointed at a server other than the old
\* master before the promotion, or other than the new master after it.
SourceInv ==
  \A s \in Servers \ {cand} :
     source[s] \in {OldMaster, NoServer} \cup (IF master = NoServer THEN {} ELSE {cand})

\* The iterations that are over.
LoopInv ==
  /\ pc \in Loops => \A i \in 1 .. idx - 1 : SlaveList[i] # cand => Settled(SlaveList[i])
  /\ pc = "promote" \/ master # NoServer => \A s \in Slaves \ {cand} : Settled(s)

\* The current iteration.
IterationInv ==
  /\ pc = "drain" /\ Slave # cand /\ alive[Slave] => retrieved[Slave] \subseteq target
  /\ pc \in Drained /\ alive[Slave] => retrieved[Slave] \subseteq executed[Slave]
  /\ pc = "compare" /\ alive[Slave] => executed[Slave] \subseteq target
  /\ pc = "catchup" /\ alive[Slave] => executed[Slave] \subseteq target
  /\ pc = "detach" => Settled(Slave)

DataInv == SourceInv /\ LoopInv /\ IterationInv

IInv == TypeOK /\ ToolInv /\ (CleanRun => DataInv)

----------------------------------------------------------------------------
\* Facts about the list of slaves.

LEMMA ListFacts ==
  /\ Len(SlaveList) \in Nat \ {0}
  /\ DOMAIN SlaveList = 1 .. Len(SlaveList)
  /\ \A i \in DOMAIN SlaveList : SlaveList[i] \in Servers \ {OldMaster}
  /\ \A i \in DOMAIN Candidates : Candidates[i] \in Servers \ {OldMaster}
  BY FailoverAssumption

LEMMA NextSlaveType ==
  ASSUME idx \in DOMAIN SlaveList, NEW first \in Places, NEW after \in Places,
         NextSlave(first, after)
  PROVE  pc' \in Places /\ idx' \in DOMAIN SlaveList
  BY ListFacts DEF NextSlave, Goto

\* The statements keep the types of what they change.
LEMMA StatementsType ==
  ASSUME ServersTypeOK, NEW s, NEW m \in Servers \cup {NoServer},
         StopSlave(s) \/ StartSlave(s) \/ ChangeMaster(s, m) \/ ResetSlaveAll(s)
  PROVE  /\ executed' \in [Servers -> SUBSET Trx]
         /\ retrieved' \in [Servers -> SUBSET Trx]
         /\ source' \in [Servers -> Servers \cup {NoServer}]
         /\ io' \in [Servers -> BOOLEAN]
         /\ sql' \in [Servers -> BOOLEAN]
  <1>. USE DEF ServersTypeOK, data
  <1>1. CASE StopSlave(s)
    BY <1>1 DEF StopSlave
  <1>2. CASE StartSlave(s)
    <2>. DEFINE runs == source[s] # NoServer
    <2>1. runs \in BOOLEAN
      OBVIOUS
    <2>2. io' = [io EXCEPT ![s] = runs] /\ sql' = [sql EXCEPT ![s] = runs]
      BY <1>2 DEF StartSlave
    <2>3. UNCHANGED <<executed, retrieved, source>>
      BY <1>2 DEF StartSlave
    <2>. HIDE DEF runs
    <2>. QED
      BY <2>1, <2>2, <2>3
  <1>3. CASE ChangeMaster(s, m)
    BY <1>3 DEF ChangeMaster
  <1>4. CASE ResetSlaveAll(s)
    BY <1>4 DEF ResetSlaveAll
  <1>. QED
    BY <1>1, <1>2, <1>3, <1>4

\* No step of the utility or of a server breaks the types.
LEMMA TypeStep ==
  ASSUME TypeOK, [Next]_vars
  PROVE  TypeOK'
<1>. USE NoServerAssumption, FailoverAssumption, ListFacts
<1>. USE DEF TypeOK, ServersTypeOK, servers, tool, data, threads, blocks
<1>0. Slave \in Servers \ {OldMaster}
  BY DEF Slave
<1>ab. ASSUME Abort PROVE TypeOK'
  BY <1>ab DEF Abort, Goto, Places
<1>1. ASSUME Elect PROVE TypeOK'
  BY <1>1, <1>0, <1>ab DEF Elect, Choose, Viable, First, Goto, Places
<1>2. ASSUME CheckGtid PROVE TypeOK'
  BY <1>2, <1>0, <1>ab DEF CheckGtid, Goto, Places, Loops
<1>3. ASSUME CheckSlavesStatus PROVE TypeOK'
  BY <1>3, <1>0, <1>ab DEF CheckSlavesStatus, Goto, Places, Loops
<1>4. ASSUME CheckAlive PROVE TypeOK'
  BY <1>4, <1>0, <1>ab, NextSlaveType DEF CheckAlive, Goto, Places, Loops
<1>5. ASSUME Drain PROVE TypeOK'
  BY <1>5, <1>0, <1>ab, NextSlaveType DEF Drain, WaitReturns, Known, Goto, Places, Loops
<1>6. ASSUME HasMissingTransactions PROVE TypeOK'
  BY <1>6, <1>0, <1>ab, NextSlaveType DEF HasMissingTransactions, Goto, Places, Loops
<1>7. ASSUME StopCandidate PROVE TypeOK'
  BY <1>7, <1>0, <1>ab, StatementsType DEF StopCandidate, Goto, Places, Loops
<1>8. ASSUME LockTempMaster PROVE TypeOK'
  BY <1>8, <1>0, <1>ab DEF LockTempMaster, FlushLock, SetReadOnly, Goto, Places, Loops
<1>9. ASSUME AttachCandidate PROVE TypeOK'
  BY <1>9, <1>0, <1>ab, StatementsType DEF AttachCandidate, Goto, Places, Loops
<1>10. ASSUME UnlockTempMaster PROVE TypeOK'
  BY <1>10, <1>0, <1>ab DEF UnlockTempMaster, Unlock, SetReadOnly, Goto, Places, Loops
<1>11. ASSUME StartCandidate PROVE TypeOK'
  BY <1>11, <1>0, <1>ab, StatementsType DEF StartCandidate, Goto, Places, Loops
<1>12. ASSUME ReadTempMasterGtids PROVE TypeOK'
  BY <1>12, <1>0, <1>ab DEF ReadTempMasterGtids, Goto, Places, Loops
<1>13. ASSUME WaitForCandidate PROVE TypeOK'
  BY <1>13, <1>0, <1>ab DEF WaitForCandidate, WaitReturns, Goto, Places, Loops
<1>14. ASSUME DetachCandidate PROVE TypeOK'
  BY <1>14, <1>0, <1>ab, NextSlaveType, StatementsType DEF DetachCandidate, Places, Loops
<1>15. ASSUME Promote PROVE TypeOK'
  BY <1>15, <1>0, <1>ab DEF Promote, Goto, Places, Promoted
<1>16. ASSUME StopAllSlaves PROVE TypeOK'
  BY <1>16, <1>0, <1>ab, NextSlaveType, StatementsType DEF StopAllSlaves, Places, Promoted
<1>17. ASSUME RemoveSlave PROVE TypeOK'
  BY <1>17, <1>0, <1>ab DEF RemoveSlave, Goto, Places, Promoted
<1>18. ASSUME CheckBeforeSwitch PROVE TypeOK'
  BY <1>18, <1>0, <1>ab, NextSlaveType DEF CheckBeforeSwitch, Goto, Places, Promoted
<1>19. ASSUME SwitchSlave PROVE TypeOK'
  BY <1>19, <1>0, <1>ab, NextSlaveType, StatementsType DEF SwitchSlave, Places, Promoted
<1>20. ASSUME ResetNewMaster PROVE TypeOK'
  BY <1>20, <1>0, <1>ab, StatementsType DEF ResetNewMaster, Goto, Places, Promoted
<1>21. ASSUME StartAllSlaves PROVE TypeOK'
  BY <1>21, <1>0, <1>ab, NextSlaveType, StatementsType DEF StartAllSlaves, Places, Promoted
<1>22. ASSUME CheckAllSlaves PROVE TypeOK'
  BY <1>22, <1>0, <1>ab DEF CheckAllSlaves, Goto, Places, Promoted
<1>23. ASSUME FetchStep PROVE TypeOK'
  BY <1>23, <1>0, <1>ab DEF FetchStep, Fetch
<1>24. ASSUME ApplyStep PROVE TypeOK'
  BY <1>24, <1>0, <1>ab DEF ApplyStep, Apply
<1>25. ASSUME CrashStep PROVE TypeOK'
  BY <1>25, <1>0, <1>ab DEF CrashStep, Crash
<1>26. CASE UNCHANGED vars
  BY <1>26 DEF vars
<1>. QED
  BY <1>1, <1>2, <1>3, <1>4, <1>5, <1>6, <1>7, <1>8, <1>9, <1>10, <1>11, <1>12, <1>13, <1>14, <1>15, <1>16, <1>17, <1>18, <1>19, <1>20, <1>21, <1>22, <1>23, <1>24, <1>25, <1>26 DEF Next, Failover, Prepare

\* Type correctness: every variable of the servers and of the utility keeps
\* its type, whatever fails.
THEOREM TypeCorrect == Spec => []TypeOK
<1>1. Init => TypeOK
  BY NoServerAssumption, FailoverAssumption, ListFacts
  DEF Init, TypeOK, ServersTypeOK, Places, Slaves
<1>2. TypeOK /\ [Next]_vars => TypeOK'
  BY TypeStep
<1>. QED
  BY <1>1, <1>2, PTL DEF Spec

----------------------------------------------------------------------------
\* The utility's own variables.
LEMMA ToolStep ==
  ASSUME TypeOK, ToolInv, [Next]_vars
  PROVE  ToolInv'
<1>. USE NoServerAssumption, FailoverAssumption, ListFacts
<1>. USE DEF ToolInv, Slave, Before, Loops, Drained, Promoted, Goto, tool
<1>t. idx \in DOMAIN SlaveList /\ pc \in Places /\ cand \in (Servers \ {OldMaster}) \cup {NoServer}
  BY DEF TypeOK
<1>ab. ASSUME Abort PROVE ToolInv'
  BY <1>ab DEF Abort
<1>1. ASSUME Elect PROVE ToolInv'
  BY <1>1, <1>t, <1>ab DEF Elect, Choose, Viable, First
<1>2. ASSUME CheckGtid PROVE ToolInv'
  BY <1>2, <1>t, <1>ab DEF CheckGtid
<1>3. ASSUME CheckSlavesStatus PROVE ToolInv'
  BY <1>3, <1>t, <1>ab DEF CheckSlavesStatus
<1>4. ASSUME CheckAlive PROVE ToolInv'
  BY <1>4, <1>t, <1>ab DEF CheckAlive, NextSlave
<1>5. ASSUME Drain PROVE ToolInv'
  BY <1>5, <1>t, <1>ab DEF Drain, NextSlave
<1>6. ASSUME HasMissingTransactions PROVE ToolInv'
  BY <1>6, <1>t, <1>ab DEF HasMissingTransactions, NextSlave
<1>7. ASSUME StopCandidate PROVE ToolInv'
  BY <1>7, <1>t, <1>ab DEF StopCandidate
<1>8. ASSUME LockTempMaster PROVE ToolInv'
  BY <1>8, <1>t, <1>ab DEF LockTempMaster
<1>9. ASSUME AttachCandidate PROVE ToolInv'
  BY <1>9, <1>t, <1>ab DEF AttachCandidate
<1>10. ASSUME UnlockTempMaster PROVE ToolInv'
  BY <1>10, <1>t, <1>ab DEF UnlockTempMaster
<1>11. ASSUME StartCandidate PROVE ToolInv'
  BY <1>11, <1>t, <1>ab DEF StartCandidate
<1>12. ASSUME ReadTempMasterGtids PROVE ToolInv'
  BY <1>12, <1>t, <1>ab DEF ReadTempMasterGtids
<1>13. ASSUME WaitForCandidate PROVE ToolInv'
  BY <1>13, <1>t, <1>ab DEF WaitForCandidate
<1>14. ASSUME DetachCandidate PROVE ToolInv'
  BY <1>14, <1>t, <1>ab DEF DetachCandidate, NextSlave
<1>15. ASSUME Promote PROVE ToolInv'
  BY <1>15, <1>t, <1>ab DEF Promote
<1>16. ASSUME StopAllSlaves PROVE ToolInv'
  BY <1>16, <1>t, <1>ab DEF StopAllSlaves, NextSlave
<1>17. ASSUME RemoveSlave PROVE ToolInv'
  BY <1>17, <1>t, <1>ab DEF RemoveSlave
<1>18. ASSUME CheckBeforeSwitch PROVE ToolInv'
  BY <1>18, <1>t, <1>ab DEF CheckBeforeSwitch, NextSlave
<1>19. ASSUME SwitchSlave PROVE ToolInv'
  BY <1>19, <1>t, <1>ab DEF SwitchSlave, NextSlave
<1>20. ASSUME ResetNewMaster PROVE ToolInv'
  BY <1>20, <1>t, <1>ab DEF ResetNewMaster
<1>21. ASSUME StartAllSlaves PROVE ToolInv'
  BY <1>21, <1>t, <1>ab DEF StartAllSlaves, NextSlave
<1>22. ASSUME CheckAllSlaves PROVE ToolInv'
  BY <1>22, <1>t, <1>ab DEF CheckAllSlaves
<1>23. ASSUME FetchStep PROVE ToolInv'
  BY <1>23, <1>t, <1>ab DEF FetchStep
<1>24. ASSUME ApplyStep PROVE ToolInv'
  BY <1>24, <1>t, <1>ab DEF ApplyStep
<1>25. ASSUME CrashStep PROVE ToolInv'
  BY <1>25, <1>t, <1>ab DEF CrashStep
<1>26. CASE UNCHANGED vars
  BY <1>26 DEF vars
<1>. QED
  BY <1>1, <1>2, <1>3, <1>4, <1>5, <1>6, <1>7, <1>8, <1>9, <1>10, <1>11, <1>12, <1>13, <1>14, <1>15, <1>16, <1>17, <1>18, <1>19, <1>20, <1>21, <1>22, <1>23, <1>24, <1>25, <1>26 DEF Next, Failover, Prepare

----------------------------------------------------------------------------
\* The transactions.  A step of a clean run starts in a clean run.
LEMMA CleanBefore ==
  ASSUME TypeOK, [Next]_vars, CleanRun'
  PROVE  CleanRun
<1>. USE FailoverAssumption DEF CleanRun, TypeOK, ServersTypeOK
<1>1. alive'[OldMaster] = alive[OldMaster] \/ CrashStep
  BY DEF Next, Failover, Prepare, FetchStep, Fetch, ApplyStep, Apply, vars, tool,
         servers, data, threads, blocks, Abort, Elect, Choose, CheckGtid,
         CheckSlavesStatus, CheckAlive, Drain, HasMissingTransactions,
         StopCandidate, LockTempMaster, AttachCandidate, UnlockTempMaster,
         StartCandidate, ReadTempMasterGtids, WaitForCandidate,
         DetachCandidate, Promote, StopAllSlaves, RemoveSlave,
         CheckBeforeSwitch, SwitchSlave, ResetNewMaster, StartAllSlaves,
         CheckAllSlaves
<1>2. waited' => waited
  BY DEF Next, Failover, Prepare, FetchStep, ApplyStep, CrashStep, vars, tool,
         WaitReturns, Abort, Elect, Choose, CheckGtid,
         CheckSlavesStatus, CheckAlive, Drain, HasMissingTransactions,
         StopCandidate, LockTempMaster, AttachCandidate, UnlockTempMaster,
         StartCandidate, ReadTempMasterGtids, WaitForCandidate,
         DetachCandidate, Promote, StopAllSlaves, RemoveSlave,
         CheckBeforeSwitch, SwitchSlave, ResetNewMaster, StartAllSlaves,
         CheckAllSlaves
<1>3. CrashStep => alive'[OldMaster] = alive[OldMaster]
  BY DEF CrashStep, Crash
<1>. QED
  BY <1>1, <1>2, <1>3

\* A step that leaves the servers' data, their sources and the candidate as
\* they are keeps what is settled, as no server comes back to life.
LEMMA QuietStep ==
  ASSUME TypeOK, ToolInv, ToolInv', DataInv,
         UNCHANGED <<alive, data, source, cand, master, idx, target>>,
         pc' \in {pc, "aborted"} \/ (pc \in Before /\ pc' \in Before \cup {"status"})
           \/ (pc \in Promoted /\ pc' \in Promoted)
           \/ <<pc, pc'>> \in {<<"detachFirst", "lock">>, <<"lock", "attach">>,
                               <<"unlock", "reattach">>, <<"reattach", "snapshot">>}
  PROVE  DataInv'
<1>. USE FailoverAssumption, ListFacts, NoServerAssumption
     DEF DataInv, data, Settled, Known, Slave, ToolInv, Before, Promoted, Loops, Drained
<1>1. SourceInv'
  BY DEF SourceInv
<1>2. LoopInv'
  BY DEF LoopInv, TypeOK
<1>3. IterationInv'
  BY DEF IterationInv
<1>. QED
  BY <1>1, <1>2, <1>3

\* The end of an iteration on a slave that is settled.
LEMMA IterationEnds ==
  ASSUME TypeOK, ToolInv, DataInv, pc \in Loops, NextSlave("status", "promote"),
         Slave = cand \/ Settled(Slave),
         UNCHANGED <<alive, data, source, cand, master>>
  PROVE  DataInv'
<1>. USE ListFacts DEF Goto, NextSlave, data
<1>t. idx \in DOMAIN SlaveList
  BY DEF TypeOK
<1>m. master = NoServer
  BY DEF ToolInv
<1>1. SourceInv'
  BY DEF DataInv, SourceInv
<1>2. \A s : Settled(s) => Settled(s)'
  BY DEF Settled, Known
<1>3. \A i \in 1 .. idx : SlaveList[i] # cand => Settled(SlaveList[i])'
  <2>. SUFFICES ASSUME NEW i \in 1 .. idx, SlaveList[i] # cand
                PROVE  Settled(SlaveList[i])'
    OBVIOUS
  <2>1. CASE i = idx
    BY <2>1, <1>2 DEF Slave
  <2>2. CASE i # idx
    <3>1. i \in 1 .. idx - 1
      BY <2>2, <1>t
    <3>2. Settled(SlaveList[i])
      BY <3>1 DEF DataInv, LoopInv
    <3>. QED
      BY <3>2, <1>2
  <2>. QED
    BY <2>1, <2>2
<1>4. LoopInv'
  <2>1. CASE idx < Len(SlaveList)
    <3>1. pc' = "status" /\ idx' = idx + 1
      BY <2>1
    <3>. QED
      BY <3>1, <1>3, <1>t, <1>m DEF LoopInv
  <2>2. CASE ~(idx < Len(SlaveList))
    <3>1. pc' = "promote" /\ idx = Len(SlaveList)
      BY <2>2, <1>t
    <3>2. \A s \in Slaves \ {cand} : Settled(s)'
      BY <3>1, <1>3 DEF Slaves
    <3>. QED
      BY <3>1, <3>2 DEF LoopInv, Loops
  <2>. QED
    BY <2>1, <2>2
<1>5. IterationInv'
  BY DEF IterationInv, Drained
<1>. QED
  BY <1>1, <1>4, <1>5 DEF DataInv

\* One step per action; the SQL and IO threads are the ones that could undo
\* what an iteration settled.
LEMMA DataStep ==
  ASSUME TypeOK, TypeOK', ToolInv, ToolInv', DataInv, CleanRun, CleanRun', [Next]_vars
  PROVE  DataInv'
<1>. USE FailoverAssumption, ListFacts, NoServerAssumption
<1>. USE DEF tool, servers, data, threads, blocks, Goto
<1>t. /\ idx \in DOMAIN SlaveList /\ Slave \in Slaves /\ Slave \in Servers \ {OldMaster}
      /\ \A i \in DOMAIN SlaveList : SlaveList[i] \in Slaves
      /\ Slaves \subseteq Servers \ {OldMaster}
      /\ executed \in [Servers -> SUBSET Trx] /\ retrieved \in [Servers -> SUBSET Trx]
      /\ source \in [Servers -> Servers \cup {NoServer}] /\ alive \in [Servers -> BOOLEAN]
  BY DEF TypeOK, ServersTypeOK, Slave, Slaves
<1>ab. ASSUME Abort PROVE DataInv'
  BY <1>ab, QuietStep DEF Abort
<1>1. ASSUME Elect PROVE DataInv'
  BY <1>1, <1>t, <1>ab DEF Elect, Choose, DataInv, SourceInv, LoopInv, IterationInv,
     ToolInv, Before, Loops, Drained, Promoted
<1>2. ASSUME CheckGtid PROVE DataInv'
  BY <1>2, <1>ab, QuietStep DEF CheckGtid, Before
<1>3. ASSUME CheckSlavesStatus PROVE DataInv'
  <2>1. CASE Abort
    BY <2>1, <1>ab
  <2>2. CASE ~Abort
    BY <1>3, <1>t, <2>2 DEF CheckSlavesStatus, DataInv, SourceInv, LoopInv, IterationInv,
       ToolInv, Before, Loops, Drained, Promoted, Slave
  <2>. QED
    BY <2>1, <2>2
<1>4. ASSUME CheckAlive PROVE DataInv'
  <2>1. CASE alive[Slave]
    BY <1>4, <2>1, <1>t DEF CheckAlive, DataInv, SourceInv, LoopInv, IterationInv,
       ToolInv, Loops, Drained, Promoted, Slave, Settled, Known
  <2>2. CASE ~alive[Slave]
    BY <1>4, <2>2, IterationEnds DEF CheckAlive, Loops, Settled
  <2>. QED
    BY <2>1, <2>2
<1>5. ASSUME Drain PROVE DataInv'
  <2>1. CASE ~alive[Slave]
    BY <1>5, <1>ab, <2>1 DEF Drain
  <2>2. CASE alive[Slave] /\ Slave = cand
    BY <1>5, <2>2, IterationEnds DEF Drain, Loops
  <2>3. CASE alive[Slave] /\ Slave # cand
    <3>1. retrieved[Slave] \subseteq executed[Slave]
      BY <1>5, <2>3 DEF Drain, WaitReturns, CleanRun, DataInv, IterationInv
    <3>2. SourceInv'
      BY <1>5, <2>3 DEF Drain, DataInv, SourceInv
    <3>3. LoopInv'
      BY <1>5, <2>3 DEF Drain, DataInv, LoopInv, ToolInv, Loops, Settled, Known
    <3>4. IterationInv'
      BY <1>5, <2>3, <3>1, <1>t DEF Drain, IterationInv, Drained, Slave, Known
    <3>. QED
      BY <3>2, <3>3, <3>4 DEF DataInv
  <2>. QED
    BY <2>1, <2>2, <2>3
<1>6. ASSUME HasMissingTransactions PROVE DataInv'
  <2>1. CASE ~alive[Slave] \/ ~alive[cand]
    BY <1>6, <1>ab, <2>1 DEF HasMissingTransactions
  <2>2. CASE alive[Slave] /\ alive[cand] /\ target \subseteq executed[cand]
    <3>1. Settled(Slave)
      BY <1>6, <2>2, <1>t DEF HasMissingTransactions, DataInv, IterationInv, Drained, Settled, Known
    <3>. QED
      BY <1>6, <2>2, <3>1, IterationEnds DEF HasMissingTransactions, Loops
  <2>3. CASE alive[Slave] /\ alive[cand] /\ ~(target \subseteq executed[cand])
    <3>1. /\ pc = "compare" /\ pc' = "detachFirst"
          /\ UNCHANGED <<alive, executed, retrieved, source, idx, cand, master>>
      BY <1>6, <2>3 DEF HasMissingTransactions
    <3>2. SourceInv'
      BY <3>1 DEF DataInv, SourceInv
    <3>3. LoopInv'
      BY <3>1 DEF DataInv, LoopInv, ToolInv, Loops, Settled, Known
    <3>4. IterationInv'
      BY <3>1 DEF DataInv, IterationInv, Drained, Slave
    <3>. QED
      BY <3>2, <3>3, <3>4 DEF DataInv
  <2>. QED
    BY <2>1, <2>2, <2>3
<1>7. ASSUME StopCandidate PROVE DataInv'
  BY <1>7, QuietStep DEF StopCandidate, StopSlave
<1>8. ASSUME LockTempMaster PROVE DataInv'
  BY <1>8, <1>ab, QuietStep DEF LockTempMaster
<1>9. ASSUME AttachCandidate PROVE DataInv'
  <2>1. CASE ~alive[cand]
    BY <1>9, <1>ab, <2>1 DEF AttachCandidate
  <2>2. CASE alive[cand]
    BY <1>9, <1>t, <2>2 DEF AttachCandidate, ChangeMaster, DataInv, SourceInv, LoopInv,
       IterationInv, ToolInv, Loops, Drained, Promoted, Slave, Slaves, Settled, Known
  <2>. QED
    BY <2>1, <2>2
<1>10. ASSUME UnlockTempMaster PROVE DataInv'
  BY <1>10, <1>ab, QuietStep DEF UnlockTempMaster
<1>11. ASSUME StartCandidate PROVE DataInv'
  BY <1>11, QuietStep DEF StartCandidate, StartSlave
<1>12. ASSUME ReadTempMasterGtids PROVE DataInv'
  <2>1. CASE ~alive[Slave]
    BY <1>12, <1>ab, <2>1 DEF ReadTempMasterGtids
  <2>2. CASE alive[Slave]
    BY <1>12, <1>t, <2>2 DEF ReadTempMasterGtids, DataInv, SourceInv, LoopInv,
       IterationInv, ToolInv, Loops, Drained, Promoted, Slave, Slaves, Settled, Known
  <2>. QED
    BY <2>1, <2>2
<1>13. ASSUME WaitForCandidate PROVE DataInv'
  <2>1. CASE ~alive[cand]
    BY <1>13, <1>ab, <2>1 DEF WaitForCandidate
  <2>2. CASE alive[cand]
    <3>1. target \subseteq executed[cand]
      BY <1>13, <2>2 DEF WaitForCandidate, WaitReturns, CleanRun
    <3>2. SourceInv'
      BY <1>13, <2>2 DEF WaitForCandidate, DataInv, SourceInv
    <3>3. LoopInv'
      BY <1>13, <2>2 DEF WaitForCandidate, DataInv, LoopInv, ToolInv, Loops, Settled, Known
    <3>4. Settled(Slave)
      BY <1>13, <3>1 DEF WaitForCandidate, DataInv, IterationInv, Drained, Settled, Known
    <3>5. IterationInv'
      BY <1>13, <2>2, <3>4, <1>t DEF WaitForCandidate, DataInv, IterationInv, Drained, Slave,
         Settled, Known
    <3>. QED
      BY <3>2, <3>3, <3>5 DEF DataInv
  <2>. QED
    BY <2>1, <2>2
<1>14. ASSUME DetachCandidate PROVE DataInv'
  <2>1. CASE ~alive[cand]
    BY <1>14, <1>ab, <2>1 DEF DetachCandidate
  <2>2. CASE alive[cand]
    BY <1>14, <2>2, IterationEnds DEF DetachCandidate, StopSlave, DataInv, IterationInv, Loops
  <2>. QED
    BY <2>1, <2>2
<1>15. ASSUME Promote PROVE DataInv'
  <2>1. CASE ~alive[cand]
    BY <1>15, <1>ab, <2>1 DEF Promote
  <2>2. CASE alive[cand]
    <3>1. SourceInv'
      BY <1>15, <2>2 DEF Promote, DataInv, SourceInv, ToolInv
    <3>2. LoopInv'
      BY <1>15, <2>2 DEF Promote, DataInv, LoopInv, Loops, Settled, Known
    <3>3. IterationInv'
      BY <1>15, <2>2 DEF Promote, IterationInv, Drained
    <3>. QED
      BY <3>1, <3>2, <3>3 DEF DataInv
  <2>. QED
    BY <2>1, <2>2
<1>16. ASSUME StopAllSlaves PROVE DataInv'
  BY <1>16, <1>t DEF StopAllSlaves, StopSlave, NextSlave, DataInv, SourceInv,
     LoopInv, IterationInv, ToolInv, Loops, Drained, Promoted, Settled, Known
<1>17. ASSUME RemoveSlave PROVE DataInv'
  BY <1>17, QuietStep DEF RemoveSlave, Promoted
<1>18. ASSUME CheckBeforeSwitch PROVE DataInv'
  BY <1>18, <1>t DEF CheckBeforeSwitch, NextSlave, DataInv, SourceInv,
     LoopInv, IterationInv, ToolInv, Loops, Drained, Promoted, Settled, Known
<1>19. ASSUME SwitchSlave PROVE DataInv'
  <2>1. CASE ~alive[Slave]
    BY <1>19, <1>ab, <2>1 DEF SwitchSlave
  <2>2. CASE alive[Slave]
    BY <1>19, <1>t, <2>2 DEF SwitchSlave, ChangeMaster, NextSlave, DataInv, SourceInv,
       LoopInv, IterationInv, ToolInv, Loops, Drained, Promoted, Settled, Known
  <2>. QED
    BY <2>1, <2>2
<1>20. ASSUME ResetNewMaster PROVE DataInv'
  <2>1. CASE ~alive[master]
    BY <1>20, <1>ab, <2>1 DEF ResetNewMaster
  <2>2. CASE alive[master]
    BY <1>20, <1>t, <2>2 DEF ResetNewMaster, ResetSlaveAll, DataInv, SourceInv,
       LoopInv, IterationInv, ToolInv, Loops, Drained, Promoted, Settled, Known
  <2>. QED
    BY <2>1, <2>2
<1>21. ASSUME StartAllSlaves PROVE DataInv'
  BY <1>21, <1>t DEF StartAllSlaves, StartSlave, NextSlave, DataInv, SourceInv,
     LoopInv, IterationInv, ToolInv, Loops, Drained, Promoted, Settled, Known
<1>22. ASSUME CheckAllSlaves PROVE DataInv'
  BY <1>22, QuietStep DEF CheckAllSlaves, Promoted
<1>23. ASSUME FetchStep PROVE DataInv'
  <2>1. PICK s \in Servers : Fetch(s) /\ UNCHANGED <<conf, tool>>
    BY <1>23 DEF FetchStep
  <2>2. \A r \in Servers : r # s => Known(r)' = Known(r)
    BY <2>1, <1>t DEF Fetch, Known
  <2>3. CASE s = cand
    BY <2>1, <2>2, <2>3, <1>t DEF Fetch, DataInv, SourceInv,
       LoopInv, IterationInv, ToolInv, Loops, Drained, Promoted, Slave, Settled, Known
  <2>4. CASE s # cand
    <3>1. source[s] = cand /\ master # NoServer
      BY <2>1, <2>4, <1>t DEF Fetch, DataInv, SourceInv, CleanRun
    <3>2. Known(s)' \subseteq Known(s) \cup executed[cand]
      BY <2>1, <3>1, <1>t DEF Fetch, Known
    <3>. QED
      BY <2>1, <2>2, <3>1, <3>2, <1>t DEF Fetch, DataInv, SourceInv,
         LoopInv, IterationInv, ToolInv, Loops, Drained, Promoted, Settled, Slave
  <2>. QED
    BY <2>3, <2>4
<1>24. ASSUME ApplyStep PROVE DataInv'
  <2>1. PICK s \in Servers : Apply(s) /\ UNCHANGED <<conf, tool>>
    BY <1>24 DEF ApplyStep
  <2>2. \A r \in Servers : Known(r)' = Known(r) /\ executed[r] \subseteq executed'[r]
    BY <2>1, <1>t DEF Apply, Known
  <2>3. SourceInv'
    BY <2>1 DEF Apply, DataInv, SourceInv
  <2>4. LoopInv'
    BY <2>1, <2>2, <1>t DEF Apply, DataInv, LoopInv, ToolInv, Loops, Promoted, Settled, Slaves
  <2>5. IterationInv'
    BY <2>1, <2>2, <1>t DEF Apply, DataInv, IterationInv, ToolInv, Drained, Loops, Settled, Slave
  <2>. QED
    BY <2>3, <2>4, <2>5 DEF DataInv
<1>25. ASSUME CrashStep PROVE DataInv'
  BY <1>25, <1>t DEF CrashStep, Crash, DataInv, SourceInv,
     LoopInv, IterationInv, ToolInv, Loops, Drained, Promoted, Settled, Known, Slave
<1>26. CASE UNCHANGED vars
  BY <1>26, QuietStep DEF vars
<1>. QED
  BY <1>1, <1>2, <1>3, <1>4, <1>5, <1>6, <1>7, <1>8, <1>9, <1>10, <1>11, <1>12, <1>13,
     <1>14, <1>15, <1>16, <1>17, <1>18, <1>19, <1>20, <1>21, <1>22, <1>23, <1>24, <1>25,
     <1>26 DEF Next, Failover, Prepare

LEMMA Initially == Init => IInv
<1>. SUFFICES ASSUME Init PROVE IInv
  OBVIOUS
<1>1. TypeOK
  BY NoServerAssumption, FailoverAssumption, ListFacts
  DEF Init, TypeOK, ServersTypeOK, Places, Slaves
<1>2. ToolInv /\ DataInv
  BY NoServerAssumption, FailoverAssumption
  DEF Init, ToolInv, DataInv, SourceInv, LoopInv, IterationInv, Before, Loops, Drained, Promoted
<1>. QED
  BY <1>1, <1>2 DEF IInv

LEMMA IInvStep == IInv /\ [Next]_vars => IInv'
<1>. SUFFICES ASSUME IInv, [Next]_vars PROVE IInv'
  OBVIOUS
<1>1. TypeOK' /\ ToolInv'
  BY TypeStep, ToolStep DEF IInv
<1>2. CleanRun' => DataInv'
  BY <1>1, CleanBefore, DataStep DEF IInv
<1>. QED
  BY <1>1, <1>2 DEF IInv

\* In a failover whose waits all ended with their transactions applied, the
\* promoted server has everything the slaves that answer have: nothing they
\* executed or received is lost by making them its slaves.
THEOREM BestSlavePromoted == Spec => []BestPromoted
<1>1. IInv => BestPromoted
  BY DEF IInv, ToolInv, DataInv, LoopInv, BestPromoted, Settled
<1>. QED
  BY Initially, IInvStep, <1>1, PTL DEF Spec

----------------------------------------------------------------------------
\* The refinement.  What a slave applies is in its relay log, and after the
\* promotion the relay log of a slave that answers holds nothing the new master
\* has not executed.
LEMMA Relayed ==
  ASSUME IInv, CleanRun, master # NoServer,
         NEW s \in Slaves \ {master}, alive[s], NEW t \in retrieved[s]
  PROVE  t \in executed[master]
BY DEF IInv, ToolInv, DataInv, LoopInv, Settled, Known

\* The utility itself commits nothing, revives nobody, and changes the new
\* master only by promoting its candidate.
LEMMA UtilityStep ==
  ASSUME Failover, ~Promote
  PROVE  UNCHANGED <<alive, executed, master>>
BY DEF Failover, Prepare, servers, data, threads, blocks, tool, StopSlave, StartSlave,
       ChangeMaster, ResetSlaveAll, Abort, Elect, Choose, CheckGtid,
       CheckSlavesStatus, CheckAlive, Drain, HasMissingTransactions,
       StopCandidate, LockTempMaster, AttachCandidate, UnlockTempMaster,
       StartCandidate, ReadTempMasterGtids, WaitForCandidate,
       DetachCandidate, StopAllSlaves, RemoveSlave, CheckBeforeSwitch,
       SwitchSlave, ResetNewMaster, StartAllSlaves, CheckAllSlaves

\* Every step of a clean failover is a step of Promotion or leaves the members
\* that answer, what the servers executed and the promoted server as they are.
LEMMA StepRefines ==
  ASSUME IInv, CleanRun, [Next]_vars
  PROVE  [Abstract!Next]_(Abstract!vars)
<1>t. /\ Slaves \subseteq Servers
      /\ executed \in [Servers -> SUBSET Trx] /\ retrieved \in [Servers -> SUBSET Trx]
      /\ alive \in [Servers -> BOOLEAN]
  BY FailoverAssumption, ListFacts DEF IInv, TypeOK, ServersTypeOK, Slaves
<1>. DEFINE Up == {s \in Slaves : alive[s]}
<1>s. ASSUME UNCHANGED <<alive, executed, master>>
      PROVE  UNCHANGED Abstract!vars
  BY <1>s DEF Abstract!vars
<1>1. CASE Failover /\ ~Promote
  BY <1>1, <1>s, UtilityStep
<1>2. CASE Promote
  <2>1. CASE ~alive[cand]
    BY <1>2, <2>1, <1>s DEF Promote, Abort, data
  <2>2. CASE alive[cand]
    <3>1. /\ pc = "promote" /\ master' = cand
          /\ UNCHANGED <<alive, executed>>
      BY <1>2, <2>2 DEF Promote, servers, data
    <3>2. master = NoServer /\ cand \in Servers
      BY <3>1 DEF IInv, ToolInv
    <3>3. \A s \in Up : executed[s] \subseteq executed[cand]
      BY <3>1 DEF IInv, DataInv, LoopInv, Settled, Known
    <3>4. Abstract!Promote(cand)
      BY <3>1, <3>2, <3>3 DEF Abstract!Promote
    <3>. QED
      BY <3>2, <3>4 DEF Abstract!Next
  <2>. QED
    BY <2>1, <2>2
<1>3. CASE FetchStep
  BY <1>3, <1>s DEF FetchStep, Fetch, tool
<1>4. CASE ApplyStep
  <2>1. PICK s \in Servers : Apply(s) /\ UNCHANGED <<conf, tool>>
    BY <1>4 DEF ApplyStep
  <2>2. PICK t \in retrieved[s] \ executed[s] :
          executed' = [executed EXCEPT ![s] = @ \cup {t}]
    BY <2>1 DEF Apply
  <2>3. alive' = alive /\ master' = master
    BY <2>1 DEF Apply, tool
  <2>4. master # NoServer /\ s \in Up \ {master} => t \in executed[master]
    BY Relayed
  <2>5. Abstract!Receive(s, t)
    BY <2>2, <2>3, <2>4 DEF Abstract!Receive
  <2>. QED
    BY <2>5, <1>t DEF Abstract!Next
<1>5. CASE CrashStep
  <2>1. PICK s \in Servers \ {OldMaster} : Crash(s)
    BY <1>5 DEF CrashStep
  <2>2. /\ alive[s] /\ alive' = [alive EXCEPT ![s] = FALSE]
        /\ UNCHANGED <<executed, master>>
    BY <1>5, <2>1 DEF CrashStep, Crash, tool, data
  <2>3. CASE s \in Slaves
    <3>1. s \in Up /\ Up' = Up \ {s}
      BY <2>2, <2>3, <1>t DEF Slaves
    <3>2. Abstract!Fail(s)
      BY <3>1, <2>2 DEF Abstract!Fail
    <3>. QED
      BY <3>2, <2>1 DEF Abstract!Next
  <2>4. CASE s \notin Slaves
    <3>1. Up' = Up
      BY <2>2, <2>4, <1>t DEF Slaves
    <3>. QED
      BY <3>1, <2>2 DEF Abstract!vars
  <2>. QED
    BY <2>3, <2>4
<1>6. CASE UNCHANGED vars
  BY <1>6, <1>s DEF vars, servers, data, tool
<1>. QED
  BY <1>1, <1>2, <1>3, <1>4, <1>5, <1>6 DEF Next

\* A failover on a lost master, no wait of which ended before its transactions
\* were applied, implements Promotion: one server at most is promoted, it has
\* by then all that the slaves that answer executed, and they receive nothing
\* afterwards that it does not have.
THEOREM CleanFailoverPromotes == Spec /\ []CleanRun => ImplementsPromotion
<1>1. Init => Abstract!Init
  BY FailoverAssumption, ListFacts DEF Init, Abstract!Init, Slaves
<1>2. IInv /\ CleanRun /\ [Next]_vars => [Abstract!Next]_(Abstract!vars)
  BY StepRefines
<1>. QED
  BY <1>1, <1>2, Initially, IInvStep, PTL DEF Spec, ImplementsPromotion, Abstract!Spec

----------------------------------------------------------------------------
(***************************************************************************)
(* What the method makes of the topology, for every list of slaves, every   *)
(* configuration and every crash, whether or not the waits ended in time:   *)
(* no two servers replicate from each other, no server stays blocked, and a *)
(* failover that completes leaves every slave attached and running.         *)
(***************************************************************************)

Attaching == {"switch", "change", "reset"}
Rebuilt == {"startAll", "check", "done"}

\* Only the slave of the current iteration is ever locked or made read only.
BlockInv ==
  pc # "aborted" =>
    \A s \in Servers : ftwrl[s] \/ (readOnly[s] /\ s \notin conf.readOnly) =>
                         pc \in {"attach", "unlock"} /\ s = Slave

\* Who is configured for whom; a slave of the candidate does not run until the
\* candidate is nobody's slave.
RolesInv ==
  /\ source[OldMaster] = NoServer
  /\ cand # NoServer => source[cand] # cand
  /\ \A s \in Servers \ {cand} :
       \/ source[s] \in {OldMaster, NoServer}
       \/ source[s] = cand /\ pc \in Attaching \cup Rebuilt \cup {"aborted"}
  /\ \A s \in Servers : source[s] = cand /\ io[s] => source[cand] = NoServer

\* Each of the last loops starts at the first slave.
IndexInv == pc \in {"promote", "remove", "reset"} => idx = 1

\* While the slaves are re-pointed, none of them that answers is running.
StoppedInv ==
  /\ pc = "stopAll" => \A i \in 1 .. idx - 1 : alive[SlaveList[i]] => ~io[SlaveList[i]]
  /\ pc \in {"remove"} \cup Attaching => \A s \in Slaves : alive[s] => ~io[s]
  /\ pc \in Rebuilt => source[cand] = NoServer /\ ~io[cand] /\ ~sql[cand]

\* The slaves the two last loops have been at.
AttachedInv ==
  /\ pc \in Attaching \cup Rebuilt => cand \notin listed
  /\ pc = "change" => Slave \in listed
  /\ pc \in {"switch", "change"} =>
       \A i \in 1 .. idx - 1 : SlaveList[i] \in listed /\ alive[SlaveList[i]] =>
                                 source[SlaveList[i]] = cand
  /\ pc \in {"reset"} \cup Rebuilt => \A s \in listed : alive[s] => source[s] = cand
  /\ pc = "startAll" =>
       \A i \in 1 .. idx - 1 : SlaveList[i] \in listed /\ alive[SlaveList[i]] =>
                                 io[SlaveList[i]] /\ sql[SlaveList[i]]
  /\ pc \in {"check", "done"} => \A s \in listed : alive[s] => io[s] /\ sql[s]

TopologyInv == BlockInv /\ RolesInv /\ IndexInv /\ StoppedInv /\ AttachedInv

----------------------------------------------------------------------------
LEMMA TopologyInitially == Init => TopologyInv
<1>. SUFFICES ASSUME Init PROVE TopologyInv
  OBVIOUS
<1>1. BlockInv /\ RolesInv
  BY NoServerAssumption, FailoverAssumption
  DEF Init, BlockInv, RolesInv, Attaching, Rebuilt, Slaves
<1>2. IndexInv /\ StoppedInv /\ AttachedInv
  BY NoServerAssumption, FailoverAssumption
  DEF Init, IndexInv, StoppedInv, AttachedInv, Attaching, Rebuilt, Slaves
<1>. QED
  BY <1>1, <1>2 DEF TopologyInv

\* The locks: taken by one action, released by another, or with the connection.
LEMMA BlockStep ==
  ASSUME TypeOK, BlockInv, [Next]_vars PROVE BlockInv'
<1> USE DEF BlockInv, TypeOK, ServersTypeOK, blocks, servers, tool, Slave
<1>1. ASSUME LockTempMaster PROVE BlockInv'
  BY <1>1 DEF LockTempMaster, FlushLock, SetReadOnly, Abort, Goto
<1>2. ASSUME AttachCandidate PROVE BlockInv'
  BY <1>2 DEF AttachCandidate, Abort, Goto
<1>3. ASSUME UnlockTempMaster PROVE BlockInv'
  BY <1>3 DEF UnlockTempMaster, Unlock, SetReadOnly, Abort, Goto
<1>4. ASSUME CrashStep PROVE BlockInv'
  BY <1>4 DEF CrashStep, Crash
<1>5. ASSUME \/ Elect \/ CheckGtid \/ CheckSlavesStatus \/ CheckAlive \/ Drain
             \/ HasMissingTransactions \/ StopCandidate \/ StartCandidate
             \/ ReadTempMasterGtids \/ WaitForCandidate \/ DetachCandidate \/ Promote
      PROVE  BlockInv'
  <2>1. /\ pc \notin {"attach", "unlock", "aborted"}
        /\ UNCHANGED <<readOnly, conf>> /\ (UNCHANGED ftwrl \/ pc' = "aborted")
    BY <1>5 DEF Elect, Choose, CheckGtid, CheckSlavesStatus, CheckAlive, Drain,
       HasMissingTransactions, StopCandidate, StartCandidate, ReadTempMasterGtids,
       WaitForCandidate, DetachCandidate, Promote, Abort, Goto
  <2> QED
    BY <2>1
<1>6. ASSUME \/ StopAllSlaves \/ RemoveSlave \/ CheckBeforeSwitch \/ SwitchSlave
             \/ ResetNewMaster \/ StartAllSlaves \/ CheckAllSlaves
      PROVE  BlockInv'
  <2>1. /\ pc \notin {"attach", "unlock", "aborted"}
        /\ UNCHANGED <<readOnly, conf>> /\ (UNCHANGED ftwrl \/ pc' = "aborted")
    BY <1>6 DEF StopAllSlaves, RemoveSlave, CheckBeforeSwitch, SwitchSlave,
       ResetNewMaster, StartAllSlaves, CheckAllSlaves, Abort, Goto
  <2> QED
    BY <2>1
<1>7. ASSUME FetchStep \/ ApplyStep \/ UNCHANGED vars PROVE BlockInv'
  BY <1>7 DEF FetchStep, Fetch, ApplyStep, Apply, vars
<1> QED
  BY <1>1, <1>2, <1>3, <1>4, <1>5, <1>6, <1>7 DEF Next, Failover, Prepare

\* The steps that neither re-point a server nor start or stop its threads.
LEMMA ThreadsKept ==
  ASSUME TypeOK,
         \/ Abort \/ Elect \/ CheckGtid \/ CheckSlavesStatus \/ CheckAlive \/ Drain
         \/ HasMissingTransactions \/ LockTempMaster \/ UnlockTempMaster
         \/ ReadTempMasterGtids \/ WaitForCandidate \/ Promote
         \/ FetchStep \/ ApplyStep \/ CrashStep \/ UNCHANGED vars
  PROVE  /\ UNCHANGED <<threads, listed>>
         /\ cand' = cand \/ pc = "elect"
         /\ \A s \in Servers : alive'[s] => alive[s]
         /\ \/ UNCHANGED <<pc, idx>>
            \/ pc' = "aborted"
            \/ pc' \in Places \ ({"remove"} \cup Attaching \cup Rebuilt \cup {"done", "stopAll"})
            \/ pc = "promote" /\ pc' = "stopAll" /\ UNCHANGED idx
<1> USE DEF tool, vars, servers, TypeOK, ServersTypeOK, Attaching, Rebuilt, Places, Loops, Promoted
<1>1. CASE Abort
  BY <1>1 DEF Abort, Goto
<1>2. CASE Elect \/ CheckGtid \/ CheckSlavesStatus \/ Promote
  BY <1>2 DEF Elect, Choose, CheckGtid, CheckSlavesStatus, Promote, Abort, Goto
<1>3. CASE CheckAlive \/ Drain \/ HasMissingTransactions
  BY <1>3 DEF CheckAlive, Drain, HasMissingTransactions, NextSlave, Abort, Goto
<1>4. CASE LockTempMaster \/ UnlockTempMaster \/ ReadTempMasterGtids \/ WaitForCandidate
  BY <1>4 DEF LockTempMaster, UnlockTempMaster, ReadTempMasterGtids, WaitForCandidate, Abort, Goto
<1>5. CASE FetchStep \/ ApplyStep \/ UNCHANGED vars
  BY <1>5 DEF FetchStep, Fetch, ApplyStep, Apply
<1>6. CASE CrashStep
  BY <1>6 DEF CrashStep, Crash
<1> QED
  BY <1>1, <1>2, <1>3, <1>4, <1>5, <1>6

\* Who is configured for whom.
LEMMA RolesStep ==
  ASSUME TypeOK, TypeOK', ToolInv, ToolInv', RolesInv, StoppedInv, AttachedInv,
         [Next]_vars
  PROVE  RolesInv'
<1> USE FailoverAssumption, NoServerAssumption, ListFacts
<1>t. /\ Slave \in Slaves /\ Slave \in Servers \ {OldMaster} /\ OldMaster \in Servers
      /\ source \in [Servers -> Servers \cup {NoServer}]
      /\ io \in [Servers -> BOOLEAN]
      /\ cand \in (Servers \ {OldMaster}) \cup {NoServer}
  BY DEF TypeOK, ServersTypeOK, Slave, Slaves
<1>kept. ASSUME \/ Abort \/ Elect \/ CheckGtid \/ CheckSlavesStatus \/ CheckAlive \/ Drain
                \/ HasMissingTransactions \/ LockTempMaster \/ UnlockTempMaster
                \/ ReadTempMasterGtids \/ WaitForCandidate \/ Promote
                \/ FetchStep \/ ApplyStep \/ CrashStep \/ UNCHANGED vars
         PROVE  RolesInv'
  <2>1. CASE cand' = cand
    <3>1. UNCHANGED threads
      BY <1>kept, ThreadsKept
    <3>2. pc \in Attaching \cup Rebuilt \cup {"aborted"} => pc' \in Attaching \cup Rebuilt \cup {"aborted"}
      BY <1>kept
      DEF Abort, Elect, CheckGtid, CheckSlavesStatus, CheckAlive, Drain, HasMissingTransactions,
          LockTempMaster, UnlockTempMaster, ReadTempMasterGtids, WaitForCandidate, Promote,
          FetchStep, ApplyStep, CrashStep, vars, tool, Attaching, Rebuilt, Goto
    <3> QED
      BY <2>1, <3>1, <3>2 DEF RolesInv, threads
  <2>2. CASE cand' # cand
    <3>1. pc = "elect" /\ UNCHANGED threads /\ cand = NoServer /\ cand' \in (Servers \ {OldMaster}) \cup {NoServer}
      BY <1>kept, <2>2, ThreadsKept DEF ToolInv, TypeOK
    <3> QED
      BY <1>t, <3>1 DEF RolesInv, threads, Attaching, Rebuilt
  <2> QED
    BY <2>1, <2>2
<1>1. ASSUME StopCandidate \/ DetachCandidate \/ StopAllSlaves PROVE RolesInv'
  <2>1. CASE Abort
    BY <2>1, <1>kept
  <2>2. CASE ~Abort
    <3>1. /\ UNCHANGED <<source, cand>> /\ \A s \in Servers : io'[s] => io[s]
          /\ pc \notin Attaching \cup Rebuilt \cup {"aborted"}
      BY <1>1, <1>t, <2>2
      DEF StopCandidate, DetachCandidate, StopAllSlaves, StopSlave, threads, Attaching, Rebuilt
    <3> QED
      BY <3>1, <1>t DEF RolesInv
  <2> QED
    BY <2>1, <2>2
<1>2. ASSUME StartCandidate PROVE RolesInv'
  <2>1. UNCHANGED <<source, cand>> /\ pc = "reattach" /\ \A s \in Servers \ {cand} : io'[s] = io[s]
    BY <1>2, <1>t DEF StartCandidate, StartSlave, threads
  <2> QED
    BY <2>1, <1>t DEF RolesInv, Attaching, Rebuilt, ToolInv, Before
<1>3. ASSUME AttachCandidate PROVE RolesInv'
  <2>1. CASE Abort
    BY <2>1, <1>kept
  <2>2. CASE ~Abort
    <3>1. /\ source' = [source EXCEPT ![cand] = Slave] /\ UNCHANGED <<io, cand>>
          /\ pc = "attach" /\ Slave # cand /\ cand \in Servers
      BY <1>3, <2>2 DEF AttachCandidate, ChangeMaster, ToolInv, Drained
    <3> QED
      BY <3>1, <1>t DEF RolesInv, Attaching, Rebuilt
  <2> QED
    BY <2>1, <2>2
<1>4. ASSUME RemoveSlave \/ CheckBeforeSwitch \/ CheckAllSlaves PROVE RolesInv'
  <2>1. /\ UNCHANGED <<source, io, cand>>
        /\ pc' \in Attaching \cup Rebuilt
    BY <1>4 DEF RemoveSlave, CheckBeforeSwitch, CheckAllSlaves, NextSlave, Goto, Attaching, Rebuilt,
                servers, threads
  <2> QED
    BY <2>1 DEF RolesInv
<1>5. ASSUME SwitchSlave PROVE RolesInv'
  <2>1. CASE Abort
    BY <2>1, <1>kept
  <2>2. CASE ~Abort
    <3>1. /\ source' = [source EXCEPT ![Slave] = cand] /\ UNCHANGED <<io, cand>>
          /\ pc = "change" /\ pc' \in Attaching /\ alive[Slave]
      BY <1>5, <2>2 DEF SwitchSlave, ChangeMaster, ToolInv, Promoted, NextSlave, Goto, Attaching
    <3>2. ~io[Slave]
      BY <3>1, <1>t DEF StoppedInv, Attaching
    <3>3. Slave # cand
      BY <3>1 DEF AttachedInv, Attaching
    <3> QED
      BY <3>1, <3>2, <3>3, <1>t DEF RolesInv
  <2> QED
    BY <2>1, <2>2
<1>6. ASSUME ResetNewMaster PROVE RolesInv'
  <2>1. CASE Abort
    BY <2>1, <1>kept
  <2>2. CASE ~Abort
    <3>1. /\ source' = [source EXCEPT ![cand] = NoServer] /\ io' = [io EXCEPT ![cand] = FALSE]
          /\ UNCHANGED cand /\ pc = "reset" /\ pc' = "startAll" /\ cand \in Servers
      BY <1>6, <2>2 DEF ResetNewMaster, ResetSlaveAll, ToolInv, Promoted, Goto
    <3> QED
      BY <3>1, <1>t DEF RolesInv, Attaching, Rebuilt
  <2> QED
    BY <2>1, <2>2
<1>7. ASSUME StartAllSlaves PROVE RolesInv'
  <2>1. /\ UNCHANGED <<source, cand>> /\ pc \in Rebuilt /\ pc' \in Rebuilt
    BY <1>7 DEF StartAllSlaves, StartSlave, threads, NextSlave, Goto, Rebuilt
  <2>2. source[cand] = NoServer
    BY <2>1 DEF StoppedInv
  <2> QED
    BY <2>1, <2>2, <1>t DEF RolesInv
<1> QED
  BY <1>kept, <1>1, <1>2, <1>3, <1>4, <1>5, <1>6, <1>7 DEF Next, Failover, Prepare

LEMMA IndexStep ==
  ASSUME TypeOK, IndexInv, [Next]_vars PROVE IndexInv'
<1> USE DEF IndexInv, tool, Goto
<1>1. ASSUME Failover PROVE IndexInv'
  <2>1. CASE Abort
    BY <2>1 DEF Abort
  <2>2. CASE Elect \/ CheckGtid \/ CheckSlavesStatus
    BY <2>2, <2>1 DEF Elect, Choose, CheckGtid, CheckSlavesStatus
  <2>3. CASE Prepare
    BY <2>3, <2>1 DEF Prepare, CheckAlive, Drain, HasMissingTransactions, StopCandidate,
       LockTempMaster, AttachCandidate, UnlockTempMaster, StartCandidate, ReadTempMasterGtids,
       WaitForCandidate, DetachCandidate, NextSlave
  <2>4. CASE Promote \/ StopAllSlaves \/ RemoveSlave \/ CheckBeforeSwitch
    BY <2>4, <2>1 DEF Promote, StopAllSlaves, RemoveSlave, CheckBeforeSwitch, NextSlave
  <2>5. CASE SwitchSlave \/ ResetNewMaster \/ StartAllSlaves \/ CheckAllSlaves
    BY <2>5, <2>1 DEF SwitchSlave, ResetNewMaster, StartAllSlaves, CheckAllSlaves, NextSlave
  <2> QED
    BY <1>1, <2>2, <2>3, <2>4, <2>5 DEF Failover
<1>2. ASSUME FetchStep \/ ApplyStep \/ CrashStep \/ UNCHANGED vars PROVE IndexInv'
  BY <1>2 DEF FetchStep, ApplyStep, CrashStep, vars
<1> QED
  BY <1>1, <1>2 DEF Next

\* The slaves stand still while they are re-pointed.
LEMMA StoppedStep ==
  ASSUME TypeOK, TypeOK', ToolInv, IndexInv, StoppedInv, AttachedInv, [Next]_vars
  PROVE  StoppedInv'
<1> USE FailoverAssumption, NoServerAssumption, ListFacts
<1>t. /\ Slave \in Slaves /\ Slave \in Servers \ {OldMaster}
      /\ Slaves \subseteq Servers
      /\ idx \in DOMAIN SlaveList
      /\ source \in [Servers -> Servers \cup {NoServer}]
      /\ io \in [Servers -> BOOLEAN] /\ sql \in [Servers -> BOOLEAN]
  BY DEF TypeOK, ServersTypeOK, Slave, Slaves
<1>kept. ASSUME \/ Abort \/ Elect \/ CheckGtid \/ CheckSlavesStatus \/ CheckAlive \/ Drain
                \/ HasMissingTransactions \/ LockTempMaster \/ UnlockTempMaster
                \/ ReadTempMasterGtids \/ WaitForCandidate \/ Promote
                \/ FetchStep \/ ApplyStep \/ CrashStep \/ UNCHANGED vars
         PROVE  StoppedInv'
  <2>1. /\ UNCHANGED <<io, sql, source>>
        /\ cand' = cand \/ pc = "elect"
        /\ \A s \in Servers : alive'[s] => alive[s]
    BY <1>kept, ThreadsKept DEF threads
  <2>2. CASE UNCHANGED <<pc, idx>>
    <3>1. \A i \in 1 .. idx - 1 : SlaveList[i] \in Servers
      BY <1>t
    <3>2. pc = "stopAll" => \A i \in 1 .. idx - 1 : alive'[SlaveList[i]] => ~io[SlaveList[i]]
      BY <2>1, <3>1 DEF StoppedInv
    <3>3. pc \in {"remove"} \cup Attaching => \A s \in Slaves : alive'[s] => ~io[s]
      BY <2>1, <1>t DEF StoppedInv
    <3>4. pc \in Rebuilt => source[cand'] = NoServer /\ ~io[cand'] /\ ~sql[cand']
      BY <2>1 DEF StoppedInv, Rebuilt
    <3>5. io' = io /\ sql' = sql /\ source' = source
      BY <2>1
    <3>6. pc' = pc /\ idx' = idx
      BY <2>2
    <3> HIDE DEF Slaves
    <3> QED
      BY <3>2, <3>3, <3>4, <3>5, <3>6 DEF StoppedInv
  <2>3. CASE pc = "promote" /\ pc' = "stopAll" /\ UNCHANGED idx
    BY <2>3 DEF StoppedInv, IndexInv, Attaching, Rebuilt
  <2>4. CASE pc' \notin {"stopAll", "remove"} \cup Attaching \cup Rebuilt
    BY <2>4 DEF StoppedInv
  <2> QED
    BY <1>kept, ThreadsKept, <2>2, <2>3, <2>4 DEF Attaching, Rebuilt
<1>1. ASSUME StopCandidate \/ StartCandidate \/ AttachCandidate \/ DetachCandidate
      PROVE  StoppedInv'
  <2>1. pc' \in {"lock", "snapshot", "unlock", "status", "promote", "aborted"}
    BY <1>1 DEF StopCandidate, StartCandidate, AttachCandidate, DetachCandidate, NextSlave, Abort, Goto
  <2> QED
    BY <2>1 DEF StoppedInv, Attaching, Rebuilt
<1>2. ASSUME StopAllSlaves PROVE StoppedInv'
  <2>1. /\ pc = "stopAll" /\ UNCHANGED alive
        /\ alive[Slave] => ~io'[Slave]
        /\ \A s \in Servers : io'[s] => io[s]
    BY <1>2, <1>t DEF StopAllSlaves, StopSlave, threads
  <2>2. \A i \in 1 .. idx : alive[SlaveList[i]] => ~io'[SlaveList[i]]
    <3> SUFFICES ASSUME NEW i \in 1 .. idx, alive[SlaveList[i]] PROVE ~io'[SlaveList[i]]
      OBVIOUS
    <3>1. CASE i = idx
      BY <2>1, <3>1 DEF Slave
    <3>2. CASE i \in 1 .. idx - 1
      <4>1. ~io[SlaveList[i]] /\ SlaveList[i] \in Servers
        BY <2>1, <3>2, <1>t DEF StoppedInv
      <4> QED
        BY <2>1, <4>1
    <3> QED
      BY <3>1, <3>2, <1>t
  <2>3. CASE idx < Len(SlaveList)
    BY <1>2, <2>1, <2>2, <2>3, <1>t DEF StopAllSlaves, NextSlave, Goto, StoppedInv, Attaching, Rebuilt
  <2>4. CASE ~(idx < Len(SlaveList))
    <3>1. pc' = "remove" /\ idx = Len(SlaveList)
      BY <1>2, <2>4, <1>t DEF StopAllSlaves, NextSlave, Goto
    <3>2. \A s \in Slaves : alive[s] => ~io'[s]
      BY <2>2, <3>1 DEF Slaves
    <3> QED
      BY <2>1, <3>1, <3>2 DEF StoppedInv, Attaching, Rebuilt
  <2> QED
    BY <2>3, <2>4
<1>3. ASSUME RemoveSlave \/ CheckBeforeSwitch PROVE StoppedInv'
  <2>1. /\ pc \in {"remove"} \cup Attaching /\ pc' \in Attaching
        /\ UNCHANGED <<io, alive>>
    BY <1>3 DEF RemoveSlave, CheckBeforeSwitch, NextSlave, Goto, servers, threads, Attaching
  <2> QED
    BY <2>1 DEF StoppedInv, Attaching, Rebuilt
<1>4. ASSUME SwitchSlave PROVE StoppedInv'
  <2>1. CASE Abort
    BY <2>1, <1>kept
  <2>2. CASE ~Abort
    <3>1. pc = "change" /\ pc' \in Attaching /\ UNCHANGED <<io, alive>>
      BY <1>4, <2>2 DEF SwitchSlave, ChangeMaster, NextSlave, Goto, Attaching
    <3> QED
      BY <3>1 DEF StoppedInv, Attaching, Rebuilt
  <2> QED
    BY <2>1, <2>2
<1>5. ASSUME ResetNewMaster PROVE StoppedInv'
  <2>1. CASE Abort
    BY <2>1, <1>kept
  <2>2. CASE ~Abort
    <3>1. /\ source' = [source EXCEPT ![cand] = NoServer] /\ io' = [io EXCEPT ![cand] = FALSE]
          /\ sql' = [sql EXCEPT ![cand] = FALSE]
          /\ UNCHANGED cand /\ pc' = "startAll" /\ cand \in Servers
      BY <1>5, <2>2 DEF ResetNewMaster, ResetSlaveAll, ToolInv, Promoted, Goto
    <3> QED
      BY <3>1, <1>t DEF StoppedInv, Attaching
  <2> QED
    BY <2>1, <2>2
<1>6. ASSUME StartAllSlaves \/ CheckAllSlaves PROVE StoppedInv'
  <2>1. pc \in Rebuilt /\ pc' \in Rebuilt /\ UNCHANGED <<source, cand>> /\ cand \notin listed
    BY <1>6
    DEF StartAllSlaves, CheckAllSlaves, StartSlave, NextSlave, Goto, Rebuilt, servers, threads, AttachedInv
  <2>2. cand \in Servers
    BY <2>1 DEF ToolInv, Places, Rebuilt, TypeOK
  <2>3. io'[cand] = io[cand] /\ sql'[cand] = sql[cand]
    BY <1>6, <2>1, <2>2, <1>t DEF StartAllSlaves, CheckAllSlaves, StartSlave, servers, threads
  <2> QED
    BY <2>1, <2>3 DEF StoppedInv, Attaching, Rebuilt
<1> QED
  BY <1>kept, <1>1, <1>2, <1>3, <1>4, <1>5, <1>6 DEF Next, Failover, Prepare

\* The slaves of the list, one after the other.
LEMMA AttachedStep ==
  ASSUME TypeOK, TypeOK', ToolInv, IndexInv, AttachedInv, [Next]_vars
  PROVE  AttachedInv'
<1> USE FailoverAssumption, NoServerAssumption, ListFacts
<1>t. /\ Slave \in Slaves /\ Slave \in Servers \ {OldMaster}
      /\ Slaves \subseteq Servers /\ listed \subseteq Slaves
      /\ idx \in DOMAIN SlaveList
      /\ source \in [Servers -> Servers \cup {NoServer}]
      /\ io \in [Servers -> BOOLEAN] /\ sql \in [Servers -> BOOLEAN]
  BY DEF TypeOK, ServersTypeOK, Slave, Slaves
<1>kept. ASSUME \/ Abort \/ Elect \/ CheckGtid \/ CheckSlavesStatus \/ CheckAlive \/ Drain
                \/ HasMissingTransactions \/ LockTempMaster \/ UnlockTempMaster
                \/ ReadTempMasterGtids \/ WaitForCandidate \/ Promote
                \/ FetchStep \/ ApplyStep \/ CrashStep \/ UNCHANGED vars
         PROVE  AttachedInv'
  <2>1. /\ UNCHANGED <<io, sql, source, listed>>
        /\ cand' = cand \/ pc = "elect"
        /\ \A s \in Servers : alive'[s] => alive[s]
    BY <1>kept, ThreadsKept DEF threads
  <2>2. CASE UNCHANGED <<pc, idx>>
    BY <2>1, <2>2, <1>t DEF AttachedInv, Slave, Slaves, Attaching, Rebuilt
  <2>3. CASE pc' \notin Attaching \cup Rebuilt
    BY <2>3 DEF AttachedInv, Attaching, Rebuilt
  <2> QED
    BY <1>kept, ThreadsKept, <2>2, <2>3 DEF Attaching, Rebuilt
<1>1. ASSUME \/ StopCandidate \/ StartCandidate \/ AttachCandidate \/ DetachCandidate
             \/ StopAllSlaves
      PROVE  AttachedInv'
  <2>1. pc' \notin Attaching \cup Rebuilt
    BY <1>1 DEF StopCandidate, StartCandidate, AttachCandidate, DetachCandidate, StopAllSlaves,
                NextSlave, Abort, Goto, Attaching, Rebuilt
  <2> QED
    BY <2>1 DEF AttachedInv, Attaching, Rebuilt
<1>2. ASSUME RemoveSlave PROVE AttachedInv'
  BY <1>2 DEF RemoveSlave, Goto, AttachedInv, IndexInv, Attaching, Rebuilt
<1>3. ASSUME CheckBeforeSwitch PROVE AttachedInv'
  <2>1. /\ pc = "switch" /\ UNCHANGED <<alive, source, io, sql, listed, cand>>
        /\ IF Slave \in listed /\ alive[Slave] THEN pc' = "change" /\ UNCHANGED idx
           ELSE NextSlave("switch", "reset")
    BY <1>3 DEF CheckBeforeSwitch, Goto, servers, threads
  <2>2. CASE Slave \in listed /\ alive[Slave]
    BY <2>1, <2>2 DEF AttachedInv, Slave, Attaching, Rebuilt
  <2>3. CASE ~(Slave \in listed /\ alive[Slave])
    <3>1. \A i \in 1 .. idx : SlaveList[i] \in listed /\ alive[SlaveList[i]] =>
                                source[SlaveList[i]] = cand
      <4> SUFFICES ASSUME NEW i \in 1 .. idx, SlaveList[i] \in listed, alive[SlaveList[i]]
                   PROVE  source[SlaveList[i]] = cand
        OBVIOUS
      <4>1. i \in 1 .. idx - 1
        BY <2>3, <1>t DEF Slave
      <4> QED
        BY <2>1, <4>1 DEF AttachedInv
    <3>2. CASE idx < Len(SlaveList)
      BY <2>1, <2>3, <3>1, <3>2, <1>t DEF NextSlave, Goto, AttachedInv, Attaching, Rebuilt
    <3>3. CASE ~(idx < Len(SlaveList))
      <4>1. pc' = "reset" /\ idx = Len(SlaveList)
        BY <2>1, <2>3, <3>3, <1>t DEF NextSlave, Goto
      <4>2. \A s \in listed : alive[s] => source[s] = cand
        BY <3>1, <4>1, <1>t DEF Slaves
      <4> QED
        BY <2>1, <4>1, <4>2 DEF AttachedInv, Attaching, Rebuilt
    <3> QED
      BY <3>2, <3>3
  <2> QED
    BY <2>2, <2>3
<1>4. ASSUME SwitchSlave PROVE AttachedInv'
  <2>1. CASE Abort
    BY <2>1, <1>kept
  <2>2. CASE ~Abort
    <3>1. /\ pc = "change" /\ UNCHANGED <<alive, io, sql, listed, cand>>
          /\ source' = [source EXCEPT ![Slave] = cand]
          /\ NextSlave("switch", "reset")
      BY <1>4, <2>2 DEF SwitchSlave, ChangeMaster, ToolInv, Promoted
    <3>2. \A i \in 1 .. idx : SlaveList[i] \in listed /\ alive[SlaveList[i]] =>
                                source'[SlaveList[i]] = cand
      <4> SUFFICES ASSUME NEW i \in 1 .. idx, SlaveList[i] \in listed, alive[SlaveList[i]]
                   PROVE  source'[SlaveList[i]] = cand
        OBVIOUS
      <4>1. CASE SlaveList[i] = Slave
        BY <3>1, <4>1, <1>t
      <4>2. CASE SlaveList[i] # Slave
        <5>1. i \in 1 .. idx - 1
          BY <4>2, <1>t DEF Slave
        <5>2. source[SlaveList[i]] = cand
          BY <3>1, <5>1 DEF AttachedInv
        <5> QED
          BY <3>1, <4>2, <5>2, <1>t
      <4> QED
        BY <4>1, <4>2
    <3>3. CASE idx < Len(SlaveList)
      BY <3>1, <3>2, <3>3, <1>t DEF NextSlave, Goto, AttachedInv, Attaching, Rebuilt
    <3>4. CASE ~(idx < Len(SlaveList))
      <4>1. pc' = "reset" /\ idx = Len(SlaveList)
        BY <3>1, <3>4, <1>t DEF NextSlave, Goto
      <4>2. \A s \in listed : alive[s] => source'[s] = cand
        BY <3>2, <4>1, <1>t DEF Slaves
      <4> QED
        BY <3>1, <4>1, <4>2 DEF AttachedInv, Attaching, Rebuilt
    <3> QED
      BY <3>3, <3>4
  <2> QED
    BY <2>1, <2>2
<1>5. ASSUME ResetNewMaster PROVE AttachedInv'
  <2>1. CASE Abort
    BY <2>1, <1>kept
  <2>2. CASE ~Abort
    <3>1. /\ pc = "reset" /\ pc' = "startAll" /\ UNCHANGED <<alive, listed, cand, idx>>
          /\ \A s \in Servers \ {cand} : source'[s] = source[s]
      BY <1>5, <2>2, <1>t DEF ResetNewMaster, ResetSlaveAll, ToolInv, Promoted, Goto
    <3>2. cand \notin listed /\ idx = 1
      BY <3>1 DEF AttachedInv, IndexInv, Attaching
    <3> QED
      BY <3>1, <3>2, <1>t DEF AttachedInv, Attaching, Rebuilt
  <2> QED
    BY <2>1, <2>2
<1>6. ASSUME StartAllSlaves PROVE AttachedInv'
  <2>1. /\ pc = "startAll" /\ UNCHANGED <<alive, source, listed, cand>>
        /\ \A s \in listed : alive[s] => source[s] = cand
        /\ NextSlave("startAll", "check")
    BY <1>6 DEF StartAllSlaves, StartSlave, threads, AttachedInv, Rebuilt
  <2>2. cand # NoServer
    BY <2>1 DEF ToolInv, Places
  <2>3. \A i \in 1 .. idx : SlaveList[i] \in listed /\ alive[SlaveList[i]] =>
                              io'[SlaveList[i]] /\ sql'[SlaveList[i]]
    <3> SUFFICES ASSUME NEW i \in 1 .. idx, SlaveList[i] \in listed, alive[SlaveList[i]]
                 PROVE  io'[SlaveList[i]] /\ sql'[SlaveList[i]]
      OBVIOUS
    <3>1. CASE SlaveList[i] = Slave
      <4>1. source[Slave] # NoServer
        BY <2>1, <2>2, <3>1
      <4>2. StartSlave(Slave)
        BY <1>6, <3>1 DEF StartAllSlaves
      <4>3. io' = [io EXCEPT ![Slave] = TRUE] /\ sql' = [sql EXCEPT ![Slave] = TRUE]
        BY <4>1, <4>2 DEF StartSlave
      <4> QED
        BY <3>1, <4>3, <1>t
    <3>2. CASE SlaveList[i] # Slave
      <4>1. i \in 1 .. idx - 1
        BY <3>2, <1>t DEF Slave
      <4>2. io[SlaveList[i]] /\ sql[SlaveList[i]]
        BY <2>1, <4>1 DEF AttachedInv
      <4> QED
        BY <1>6, <3>2, <4>2, <1>t DEF StartAllSlaves, StartSlave, threads
    <3> QED
      BY <3>1, <3>2
  <2>4. CASE idx < Len(SlaveList)
    BY <2>1, <2>3, <2>4, <1>t DEF NextSlave, Goto, AttachedInv, Attaching, Rebuilt
  <2>5. CASE ~(idx < Len(SlaveList))
    <3>1. pc' = "check" /\ idx = Len(SlaveList)
      BY <2>1, <2>5, <1>t DEF NextSlave, Goto
    <3>2. \A s \in listed : alive[s] => io'[s] /\ sql'[s]
      BY <2>3, <3>1, <1>t DEF Slaves
    <3> QED
      BY <2>1, <3>1, <3>2 DEF AttachedInv, Attaching, Rebuilt
  <2> QED
    BY <2>4, <2>5
<1>7. ASSUME CheckAllSlaves PROVE AttachedInv'
  BY <1>7 DEF CheckAllSlaves, Goto, servers, threads, AttachedInv, Attaching, Rebuilt
<1> QED
  BY <1>kept, <1>1, <1>2, <1>3, <1>4, <1>5, <1>6, <1>7 DEF Next, Failover, Prepare

----------------------------------------------------------------------------
FullInv == TypeOK /\ ToolInv /\ TopologyInv

LEMMA FullInvariant == Spec => []FullInv
<1>1. Init => FullInv
  <2> SUFFICES ASSUME Init PROVE FullInv
    OBVIOUS
  <2>1. TypeOK
    BY NoServerAssumption, FailoverAssumption, ListFacts
    DEF Init, TypeOK, ServersTypeOK, Places, Slaves
  <2>2. ToolInv
    BY NoServerAssumption, FailoverAssumption
    DEF Init, ToolInv, Before, Loops, Drained, Promoted
  <2> QED
    BY <2>1, <2>2, TopologyInitially DEF FullInv
<1>2. FullInv /\ [Next]_vars => FullInv'
  <2> SUFFICES ASSUME FullInv, [Next]_vars PROVE FullInv'
    OBVIOUS
  <2>1. TypeOK' /\ ToolInv'
    BY TypeStep, ToolStep DEF FullInv
  <2> QED
    BY <2>1, BlockStep, RolesStep, IndexStep, StoppedStep, AttachedStep DEF FullInv, TopologyInv
<1> QED
  BY <1>1, <1>2, PTL DEF Spec

\* failover(): at no time do two servers replicate from each other, although
\* the new master is configured for a server that is being made its slave.
THEOREM NoCycle == Spec => []NoReplicationCycle
<1>1. FullInv => NoReplicationCycle
  <2> SUFFICES ASSUME FullInv, NEW s \in Servers, NEW r \in Servers,
                      source[s] = r, source[r] = s, io[s], io[r]
               PROVE  FALSE
    BY DEF NoReplicationCycle
  <2>1. s # OldMaster /\ r # OldMaster
    BY NoServerAssumption DEF FullInv, TopologyInv, RolesInv
  <2>2. s = cand \/ r = cand
    BY <2>1, NoServerAssumption DEF FullInv, TopologyInv, RolesInv
  <2>3. CASE s = cand
    BY <2>3, NoServerAssumption DEF FullInv, TopologyInv, RolesInv
  <2>4. CASE r = cand
    BY <2>4, NoServerAssumption DEF FullInv, TopologyInv, RolesInv
  <2> QED
    BY <2>2, <2>3, <2>4
<1> QED
  BY <1>1, FullInvariant, PTL

\* _prepare_candidate_for_failover: what it locks it unlocks before it goes on.
THEOREM LocksReleased == Spec => []WritesUnblocked
<1>1. FullInv => WritesUnblocked
  BY DEF FullInv, TopologyInv, BlockInv, WritesUnblocked, Promoted
<1> QED
  BY <1>1, FullInvariant, PTL

\* A failover that completes leaves the new master without a source and every
\* slave that answers attached to it, running.
THEOREM Rebuilds == Spec => []TopologyRebuilt
<1>1. FullInv => TopologyRebuilt
  BY DEF FullInv, TopologyInv, StoppedInv, AttachedInv, TopologyRebuilt, ToolInv, Promoted, Rebuilt
<1> QED
  BY <1>1, FullInvariant, PTL
=============================================================================
