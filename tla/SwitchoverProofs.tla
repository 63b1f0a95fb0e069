--------------------------- MODULE SwitchoverProofs ---------------------------
(***************************************************************************)
(* The safety of Switchover for every list of slaves, every candidate (also *)
(* one outside the list), every configuration and every crash.  The snapshot *)
(* of the GTIDs is final because a blocked master neither commits nor        *)
(* applies; the loops over List settle the entries one after the other; and  *)
(* nobody replicates from the new master before it replicates from nobody.   *)
(***************************************************************************)
EXTENDS Switchover, TLAPS

\* The old master is the master, in the list of slaves only to be demoted.
Leading == {"connect", "prerequisites", "configured", "user", "block", "snapshot"}
             \cup Blocked \cup {"demote", "refused"}

\* The places outside the loops over List.
Single == {"connect", "prerequisites", "configured", "user", "block", "snapshot",
           "unblock", "demote", "promote", "position", "check", "done"}

\* Started or about to be: every entry has been re-pointed.
Repointed == {"startAll", "check", "done"}

\* The entry has an instance, whether or not its server answers.
HasInstance(s) == s \in listed /\ s \in conf.connected \cup {OldMaster}

\* How the tool's variables depend on the place in the method.
ToolInv ==
  /\ pc \in Single => idx = 1
  /\ pc \in Leading => listed = Slaves
  /\ listed \subseteq Slaves \cup {OldMaster}
  /\ pc \in Handed \cup {"promote"} /\ conf.demote => OldMaster \in listed
  /\ pc \in Handed => master = NewMaster /\ ~HasInstance(NewMaster)
  /\ pc = "change" => HasInstance(Entry)
  /\ pc = "waiting" => Entry \in listed

\* The master is blocked until it is unblocked; a crash ends its lock, but a
\* server that is down executes nothing.
BlockInv ==
  /\ pc \in {"snapshot"} \cup Blocked =>
       readOnly[OldMaster] /\ (alive[OldMaster] => ftwrl[OldMaster])
  /\ pc \in Blocked => executed[OldMaster] = gtids
  /\ pc \in {"demote", "promote"} \cup Handed => ~readOnly[OldMaster] /\ ~ftwrl[OldMaster]

\* Who has what the master had: the slaves the loop has waited for, and the
\* candidate as long as it answers.
CaughtInv ==
  ~conf.force =>
    /\ pc \in {"wait", "waiting"} =>
         \A i \in 1 .. idx - 1 : Answers(List[i]) => gtids \subseteq executed[List[i]]
    /\ pc \in {"stopAll", "unblock"} =>
         \A s \in listed : Answers(s) => gtids \subseteq executed[s]
    /\ NewMaster \in Slaves \cap conf.connected =>
         /\ pc \in {"demote", "promote"} /\ alive[NewMaster] => gtids \subseteq executed[NewMaster]
         /\ pc \in Handed => gtids \subseteq executed[NewMaster]

\* Who is configured for whom.
RolesInv ==
  /\ \A s \in Servers : source[s] \in {OldMaster, NewMaster, NoServer}
  /\ source[OldMaster] # OldMaster
  /\ \A s \in Servers : source[s] = NewMaster => source[NewMaster] = NoServer
  /\ pc \in Handed => source[NewMaster] = NoServer /\ ~io[NewMaster] /\ ~sql[NewMaster]

\* The entries the two last loops have been at.
AttachedInv ==
  /\ pc \in {"switch", "change"} =>
       \A i \in 1 .. idx - 1 : HasInstance(List[i]) /\ alive[List[i]] =>
                                 source[List[i]] = NewMaster
  /\ pc \in Repointed => \A s \in Servers : HasInstance(s) /\ alive[s] => source[s] = NewMaster
  /\ pc = "startAll" =>
       \A i \in 1 .. idx - 1 : HasInstance(List[i]) /\ alive[List[i]] =>
                                 io[List[i]] /\ sql[List[i]]
  /\ pc \in {"check", "done"} =>
       \A s \in Servers : HasInstance(s) /\ alive[s] => io[s] /\ sql[s]

SwitchInv == TypeOK /\ ToolInv /\ BlockInv /\ CaughtInv /\ RolesInv /\ AttachedInv

----------------------------------------------------------------------------

LEMMA ListFacts ==
  /\ Len(List) \in Nat \ {0} /\ DOMAIN List = 1 .. Len(List)
  /\ \A i \in DOMAIN List : List[i] \in Slaves \cup {OldMaster}
  /\ \A s \in Slaves \cup {OldMaster} : \E i \in DOMAIN List : List[i] = s
  /\ Slaves \subseteq Servers \ {OldMaster}
<1>1. /\ SlaveList \in Seq(Servers \ {OldMaster}) /\ Len(SlaveList) \in Nat
      /\ DOMAIN SlaveList = 1 .. Len(SlaveList)
  BY SwitchoverAssumption
<1>2. /\ Len(List) = Len(SlaveList) + 1 /\ DOMAIN List = 1 .. Len(SlaveList) + 1
      /\ \A i \in 1 .. Len(SlaveList) : List[i] = SlaveList[i]
      /\ List[Len(SlaveList) + 1] = OldMaster
  BY <1>1, SwitchoverAssumption DEF List
<1>3. \A i \in DOMAIN List : List[i] \in Slaves \cup {OldMaster}
  BY <1>1, <1>2 DEF Slaves
<1>4. \A s \in Slaves \cup {OldMaster} : \E i \in DOMAIN List : List[i] = s
  BY <1>1, <1>2 DEF Slaves
<1>5. Slaves \subseteq Servers \ {OldMaster}
  BY <1>1 DEF Slaves
<1> QED
  BY <1>1, <1>2, <1>3, <1>4, <1>5

LEMMA EntryFact == ASSUME TypeOK PROVE Entry \in Slaves \cup {OldMaster} /\ Entry \in Servers
BY ListFacts, SwitchoverAssumption DEF TypeOK, Entry

LEMMA NextSlaveFact ==
  ASSUME idx \in DOMAIN List, NEW first, NEW after, NextSlave(first, after)
  PROVE  /\ idx' \in DOMAIN List
         /\ \/ pc' = first /\ idx < Len(List) /\ idx' = idx + 1
            \/ pc' = after /\ idx = Len(List) /\ idx' = 1
BY ListFacts DEF NextSlave, Goto

LEMMA SwitchInitially == Init => SwitchInv
<1> SUFFICES ASSUME Init PROVE SwitchInv
  OBVIOUS
<1> USE SwitchoverAssumption, NoServerAssumption, ListFacts
<1>1. TypeOK
  BY DEF Init, TypeOK, ServersTypeOK, Places
<1>2. ToolInv /\ BlockInv /\ CaughtInv /\ AttachedInv
  BY DEF Init, ToolInv, BlockInv, CaughtInv, AttachedInv, Leading, Handed, Blocked, Repointed
<1>3. RolesInv
  BY DEF Init, RolesInv, Handed
<1> QED
  BY <1>1, <1>2, <1>3 DEF SwitchInv

----------------------------------------------------------------------------
LEMMA TypeStep == ASSUME TypeOK, [Next]_vars PROVE TypeOK'
<1> USE SwitchoverAssumption, EntryFact
    DEF TypeOK, ServersTypeOK, data, threads, blocks, servers, tool, Places, Blocked, Handed, Ended
<1>1. ASSUME Check PROVE TypeOK'
  <2>1. ASSUME NEW t \in Trx, executed' = [executed EXCEPT ![NewMaster] = @ \cup {t}]
        PROVE  executed' \in [Servers -> SUBSET Trx]
    BY <2>1
  <2>2. CASE ConnectCandidate \/ CheckPrerequisites \/ CheckConfigured
    BY <2>2 DEF ConnectCandidate, CheckPrerequisites, CheckConfigured, Proceed, Abort, Leave, Goto
  <2>3. CASE CreateRplUser
    BY <2>1, <2>3 DEF CreateRplUser, Proceed, Abort, Leave, Goto
  <2> QED
    BY <1>1, <2>2, <2>3 DEF Check
<1>2. ASSUME BlockMaster \/ ReadMasterGtids \/ UnblockMaster PROVE TypeOK'
  <2>1. CASE BlockMaster
    BY <2>1 DEF BlockMaster, FlushLock, SetReadOnly, Abort, Leave, Goto
  <2>2. CASE ReadMasterGtids
    <3>1. executed[OldMaster] \in SUBSET Trx
      OBVIOUS
    <3> QED
      BY <2>2, <3>1 DEF ReadMasterGtids, Abort, Leave, Goto
  <2>3. CASE UnblockMaster
    BY <2>3 DEF UnblockMaster, Unlock, SetReadOnly, Abort, Leave, Goto
  <2> QED
    BY <1>2, <2>1, <2>2, <2>3
<1>3. ASSUME CheckAlive PROVE TypeOK'
  <2>1. CASE NextSlave("wait", "stopAll")
    <3>1. pc' \in Places /\ idx' \in DOMAIN List
      BY <2>1, NextSlaveFact
    <3> QED
      BY <1>3, <3>1 DEF CheckAlive, Proceed, Abort, Leave
  <2>2. CASE ~NextSlave("wait", "stopAll")
    BY <1>3, <2>2 DEF CheckAlive, Proceed, Abort, Leave, Goto
  <2> QED
    BY <2>1, <2>2
<1>4. ASSUME WaitForSlave PROVE TypeOK'
  BY <1>4, NextSlaveFact DEF WaitForSlave, Abort, Leave, Goto
<1>5. ASSUME StopAllSlaves PROVE TypeOK'
  BY <1>5, NextSlaveFact DEF StopAllSlaves, StopSlave
<1>ab. ASSUME Abort PROVE TypeOK'
  BY <1>ab DEF Abort, Leave, Goto
<1>6. ASSUME DemoteMaster PROVE TypeOK'
  <2>1. CASE Abort
    BY <2>1, <1>ab
  <2>2. CASE ~Abort
    <3>1. /\ io' = [io EXCEPT ![OldMaster] = FALSE] /\ sql' = [sql EXCEPT ![OldMaster] = FALSE]
          /\ listed' = listed \cup {OldMaster} /\ pc' = "promote"
          /\ UNCHANGED <<alive, executed, retrieved, source, blocks, conf, idx, master, gtids>>
      BY <1>6, <2>2 DEF DemoteMaster, StopSlave, Goto
    <3> QED
      BY <3>1
  <2> QED
    BY <2>1, <2>2
<1>7. ASSUME PromoteCandidate PROVE TypeOK'
  <2>1. CASE Abort
    BY <2>1, <1>ab
  <2>2. CASE ~Abort
    BY <1>7, <2>2 DEF PromoteCandidate, ResetSlaveAll, Goto
  <2> QED
    BY <2>1, <2>2
<1>8. ASSUME ReadNewMasterStatus \/ CheckAllSlaves PROVE TypeOK'
  BY <1>8 DEF ReadNewMasterStatus, CheckAllSlaves, Proceed, Abort, Leave, Goto
<1>9. ASSUME CheckBeforeSwitch PROVE TypeOK'
  BY <1>9, NextSlaveFact DEF CheckBeforeSwitch, Proceed, Goto
<1>10. ASSUME SwitchSlave PROVE TypeOK'
  <2>1. CASE Abort
    BY <2>1 DEF Abort, Leave, Goto
  <2>2. CASE ~Abort
    <3>1. pc' \in Places /\ idx' \in DOMAIN List
      BY <1>10, <2>2, NextSlaveFact DEF SwitchSlave
    <3>2. master \in Servers
      OBVIOUS
    <3> QED
      BY <1>10, <2>2, <3>1, <3>2 DEF SwitchSlave, ChangeMaster
  <2> QED
    BY <2>1, <2>2
<1>11. ASSUME StartAllSlaves PROVE TypeOK'
  BY <1>11, NextSlaveFact DEF StartAllSlaves, StartSlave
<1>12. ASSUME FetchStep PROVE TypeOK'
  BY <1>12 DEF FetchStep, Fetch
<1>13. ASSUME ApplyStep PROVE TypeOK'
  BY <1>13 DEF ApplyStep, Apply
<1>14. ASSUME CommitStep PROVE TypeOK'
  BY <1>14 DEF CommitStep, Commit
<1>15. ASSUME CrashStep PROVE TypeOK'
  BY <1>15 DEF CrashStep, Crash
<1>16. ASSUME UNCHANGED vars PROVE TypeOK'
  BY <1>16 DEF vars
<1> QED
  BY <1>1, <1>2, <1>3, <1>4, <1>5, <1>6, <1>7, <1>8, <1>9, <1>10, <1>11, <1>12, <1>13, <1>14,
     <1>15, <1>16 DEF Next, SwitchoverStep, Settle, Hand

\* The steps of the servers and the clients leave the tool and the topology alone.
ServersStep == FetchStep \/ ApplyStep \/ CommitStep \/ CrashStep

LEMMA ServersFrame ==
  ASSUME TypeOK, ServersStep
  PROVE  /\ UNCHANGED <<conf, tool, threads, readOnly>>
         /\ \A s \in Servers : /\ alive'[s] => alive[s]
                               /\ executed[s] \subseteq executed'[s]
                               /\ ftwrl'[s] => ftwrl[s]
                               /\ alive'[s] => ftwrl'[s] = ftwrl[s]
<1> USE DEF TypeOK, ServersTypeOK, blocks
<1>1. CASE FetchStep
  BY <1>1 DEF FetchStep, Fetch
<1>2. CASE ApplyStep
  BY <1>2 DEF ApplyStep, Apply
<1>3. CASE CommitStep
  BY <1>3 DEF CommitStep, Commit
<1>4. CASE CrashStep
  BY <1>4 DEF CrashStep, Crash, data
<1> QED
  BY <1>1, <1>2, <1>3, <1>4 DEF ServersStep

\* Leaving the method early only releases the lock.
LEMMA LeaveFrame ==
  ASSUME TypeOK, NEW how, Leave(how)
  PROVE  /\ UNCHANGED <<alive, executed, source, io, sql, readOnly, conf, idx, master, listed, gtids>>
         /\ pc' = how
BY DEF Leave, data, threads, Goto

LEMMA ToolStep == ASSUME TypeOK, ToolInv, [Next]_vars PROVE ToolInv'
<1> USE SwitchoverAssumption, NoServerAssumption, EntryFact
    DEF ToolInv, HasInstance, Single, Leading, Blocked, Handed, tool
<1>1. ASSUME ServersStep \/ UNCHANGED vars PROVE ToolInv'
  <2>1. UNCHANGED <<conf, tool>>
    BY <1>1, ServersFrame DEF vars
  <2> QED
    BY <2>1 DEF Entry
<1>2. ASSUME Abort PROVE ToolInv'
  BY <1>2, LeaveFrame DEF Abort
<1>3. ASSUME Check PROVE ToolInv'
  <2>1. /\ UNCHANGED <<conf, idx, master, listed>>
        /\ pc \in Leading /\ idx = 1
        /\ pc' \in {"prerequisites", "configured", "user", "block", "refused", "aborted"}
    BY <1>3 DEF Check, ConnectCandidate, CheckPrerequisites, CheckConfigured, CreateRplUser,
                Proceed, Abort, Leave, Goto
  <2> QED
    BY <2>1
<1>4. ASSUME BlockMaster \/ ReadMasterGtids \/ UnblockMaster, ~Abort PROVE ToolInv'
  <2>1. /\ UNCHANGED <<conf, idx, master, listed>>
        /\ \/ pc = "block" /\ pc' = "snapshot"
           \/ pc = "snapshot" /\ pc' = "wait"
           \/ pc = "unblock" /\ pc' = "demote"
           \/ pc = "unblock" /\ pc' = "promote" /\ ~conf.demote
    BY <1>4 DEF BlockMaster, ReadMasterGtids, UnblockMaster, Goto
  <2> QED
    BY <2>1
<1>5. ASSUME CheckAlive \/ WaitForSlave \/ StopAllSlaves, ~Abort PROVE ToolInv'
  <2>1. /\ UNCHANGED <<conf, master, listed>>
        /\ pc \in {"wait", "waiting", "stopAll"}
        /\ \/ pc' = "waiting" /\ idx' = idx /\ Entry \in listed
           \/ pc' \in {"wait", "stopAll"}
           \/ pc' = "unblock" /\ idx' = 1
    <3>1. CASE CheckAlive
      BY <1>5, <3>1 DEF CheckAlive, Proceed, NextSlave, Goto, Answers
    <3>2. CASE WaitForSlave
      BY <1>5, <3>2 DEF WaitForSlave, NextSlave, Goto
    <3>3. CASE StopAllSlaves
      BY <3>3 DEF StopAllSlaves, NextSlave, Goto
    <3> QED
      BY <1>5, <3>1, <3>2, <3>3
  <2> QED
    BY <2>1 DEF Entry
<1>6. ASSUME DemoteMaster \/ PromoteCandidate, ~Abort PROVE ToolInv'
  <2>1. CASE DemoteMaster
    BY <1>6, <2>1, ListFacts DEF DemoteMaster, Goto
  <2>2. CASE PromoteCandidate
    <3>1. /\ UNCHANGED <<conf, idx>> /\ idx = 1
          /\ pc = "promote" /\ pc' = "position" /\ master' = NewMaster
          /\ listed' = listed \ ({NewMaster} \cap conf.connected)
      BY <1>6, <2>2 DEF PromoteCandidate, Goto
    <3> QED
      BY <3>1
  <2> QED
    BY <1>6, <2>1, <2>2
<1>7. ASSUME \/ ReadNewMasterStatus \/ CheckBeforeSwitch \/ SwitchSlave \/ StartAllSlaves
             \/ CheckAllSlaves,
             ~Abort
      PROVE  ToolInv'
  <2>1. /\ UNCHANGED <<conf, master, listed>>
        /\ pc \in Handed
        /\ \/ pc' \in {"switch", "startAll"}
           \/ pc' = "change" /\ HasInstance(Entry) /\ idx' = idx
           \/ pc' \in {"check", "done"} /\ idx' = 1
    <3>1. CASE ReadNewMasterStatus \/ CheckAllSlaves
      BY <1>7, <3>1 DEF ReadNewMasterStatus, CheckAllSlaves, Proceed, Goto
    <3>2. CASE CheckBeforeSwitch
      BY <3>2 DEF CheckBeforeSwitch, Proceed, NextSlave, Goto, Answers
    <3>3. CASE SwitchSlave
      BY <1>7, <3>3 DEF SwitchSlave, NextSlave, Goto
    <3>4. CASE StartAllSlaves
      BY <3>4 DEF StartAllSlaves, NextSlave, Goto
    <3> QED
      BY <1>7, <3>1, <3>2, <3>3, <3>4
  <2> QED
    BY <2>1 DEF Entry
<1> QED
  BY <1>1, <1>2, <1>3, <1>4, <1>5, <1>6, <1>7
  DEF Next, ServersStep, SwitchoverStep, Settle, Hand

----------------------------------------------------------------------------
\* Between the two statements that block the master and the two that unblock
\* it the master executes nothing.
LEMMA BlockStep == ASSUME TypeOK, ToolInv, BlockInv, [Next]_vars PROVE BlockInv'
<1> USE SwitchoverAssumption
    DEF BlockInv, TypeOK, ServersTypeOK, Blocked, Handed, tool
<1>1. ASSUME ServersStep PROVE BlockInv'
  <2>1. /\ UNCHANGED <<conf, tool, readOnly>>
        /\ alive'[OldMaster] => alive[OldMaster]
        /\ ftwrl'[OldMaster] => ftwrl[OldMaster]
        /\ alive'[OldMaster] => ftwrl'[OldMaster] = ftwrl[OldMaster]
    BY <1>1, ServersFrame
  <2>2. pc \in Blocked => executed'[OldMaster] = executed[OldMaster]
    <3>1. CASE FetchStep
      BY <3>1 DEF FetchStep, Fetch
    <3>2. CASE ApplyStep
      BY <3>2 DEF ApplyStep, Apply
    <3>3. CASE CommitStep
      BY <3>3 DEF CommitStep, Commit
    <3>4. CASE CrashStep
      BY <3>4 DEF CrashStep, Crash, data
    <3> QED
      BY <1>1, <3>1, <3>2, <3>3, <3>4 DEF ServersStep
  <2> QED
    BY <2>1, <2>2
<1>2. ASSUME UNCHANGED vars PROVE BlockInv'
  BY <1>2 DEF vars, servers, data, threads, blocks
<1>3. ASSUME Abort PROVE BlockInv'
  BY <1>3, LeaveFrame DEF Abort
<1>4. ASSUME Check PROVE BlockInv'
  <2>1. pc' \in {"prerequisites", "configured", "user", "block", "refused", "aborted"}
    BY <1>4 DEF Check, ConnectCandidate, CheckPrerequisites, CheckConfigured, CreateRplUser,
                Proceed, Abort, Leave, Goto
  <2> QED
    BY <2>1
<1>5. ASSUME BlockMaster, ~Abort PROVE BlockInv'
  BY <1>5 DEF BlockMaster, FlushLock, SetReadOnly, Goto
<1>6. ASSUME ReadMasterGtids, ~Abort PROVE BlockInv'
  BY <1>6 DEF ReadMasterGtids, Goto, servers, data, blocks
<1>7. ASSUME UnblockMaster, ~Abort PROVE BlockInv'
  BY <1>7 DEF UnblockMaster, Unlock, SetReadOnly, Goto
<1>8. ASSUME CheckAlive \/ WaitForSlave \/ StopAllSlaves, ~Abort PROVE BlockInv'
  <2>1. /\ pc \in {"wait", "waiting", "stopAll"} /\ pc' \in Blocked
        /\ UNCHANGED <<alive, executed, readOnly, ftwrl, gtids>>
    <3>1. CASE CheckAlive
      BY <1>8, <3>1 DEF CheckAlive, Proceed, NextSlave, Goto, servers, data, blocks
    <3>2. CASE WaitForSlave
      BY <1>8, <3>2 DEF WaitForSlave, NextSlave, Goto, servers, data, blocks
    <3>3. CASE StopAllSlaves
      BY <3>3 DEF StopAllSlaves, StopSlave, NextSlave, Goto, data, blocks
    <3> QED
      BY <1>8, <3>1, <3>2, <3>3
  <2> QED
    BY <2>1
<1>9. ASSUME \/ DemoteMaster \/ PromoteCandidate \/ ReadNewMasterStatus \/ CheckBeforeSwitch
             \/ SwitchSlave \/ StartAllSlaves \/ CheckAllSlaves,
             ~Abort
      PROVE  BlockInv'
  <2>1. /\ pc \in {"demote", "promote"} \cup Handed
        /\ pc' \in {"promote"} \cup Handed
        /\ UNCHANGED <<readOnly, ftwrl>>
    <3>1. CASE DemoteMaster \/ PromoteCandidate \/ ReadNewMasterStatus \/ CheckAllSlaves
      BY <1>9, <3>1 DEF DemoteMaster, PromoteCandidate, ReadNewMasterStatus, CheckAllSlaves,
                        Proceed, Goto, servers, blocks
    <3>2. CASE CheckBeforeSwitch \/ SwitchSlave \/ StartAllSlaves
      BY <1>9, <3>2 DEF CheckBeforeSwitch, SwitchSlave, StartAllSlaves, Proceed, NextSlave, Goto,
                        servers, blocks
    <3> QED
      BY <1>9, <3>1, <3>2
  <2> QED
    BY <2>1
<1> QED
  BY <1>1, <1>2, <1>3, <1>4, <1>5, <1>6, <1>7, <1>8, <1>9
  DEF Next, ServersStep, SwitchoverStep, Settle, Hand

\* Only slaves are pointed at the new master, and only once it has been reset.
LEMMA RolesStep ==
  ASSUME TypeOK, TypeOK', ToolInv, ToolInv', RolesInv, [Next]_vars PROVE RolesInv'
<1> USE SwitchoverAssumption, NoServerAssumption, EntryFact DEF tool, threads
<1>t. /\ source \in [Servers -> Servers \cup {NoServer}]
      /\ io \in [Servers -> BOOLEAN] /\ sql \in [Servers -> BOOLEAN]
      /\ OldMaster \in Servers /\ NewMaster \in Servers /\ OldMaster # NewMaster
  BY DEF TypeOK, ServersTypeOK
<1>1. ASSUME UNCHANGED threads, pc' \in Handed => pc \in Handed PROVE RolesInv'
  BY <1>1 DEF RolesInv
<1>2. ASSUME ServersStep \/ UNCHANGED vars PROVE RolesInv'
  BY <1>1, <1>2, ServersFrame DEF vars, servers
<1>3. ASSUME Abort PROVE RolesInv'
  BY <1>1, <1>3, LeaveFrame DEF Abort, Handed
<1>4. ASSUME Check PROVE RolesInv'
  <2>1. UNCHANGED threads
    BY <1>4 DEF Check, ConnectCandidate, CheckPrerequisites, CheckConfigured, CreateRplUser,
                Proceed, Abort, Leave, servers
  <2>2. pc' \notin Handed
    BY <1>4 DEF Check, ConnectCandidate, CheckPrerequisites, CheckConfigured, CreateRplUser,
                Proceed, Abort, Leave, Goto, Handed
  <2> QED
    BY <1>1, <2>1, <2>2
<1>5. ASSUME BlockMaster \/ ReadMasterGtids \/ UnblockMaster \/ CheckAlive \/ WaitForSlave,
             ~Abort
      PROVE  RolesInv'
  <2>1. UNCHANGED threads
    BY <1>5 DEF BlockMaster, ReadMasterGtids, UnblockMaster, CheckAlive, WaitForSlave, Proceed, servers
  <2>2. pc' \notin Handed
    BY <1>5 DEF BlockMaster, ReadMasterGtids, UnblockMaster, CheckAlive, WaitForSlave, Proceed,
                NextSlave, Goto, Handed
  <2> QED
    BY <1>1, <2>1, <2>2
<1>6. ASSUME StopAllSlaves \/ DemoteMaster, ~Abort PROVE RolesInv'
  <2>1. UNCHANGED source
    BY <1>6 DEF StopAllSlaves, DemoteMaster, StopSlave
  <2>2. pc' \notin Handed
    BY <1>6 DEF StopAllSlaves, DemoteMaster, NextSlave, Goto, Handed
  <2> QED
    BY <2>1, <2>2 DEF RolesInv
<1>7. ASSUME PromoteCandidate, ~Abort PROVE RolesInv'
  <2>1. /\ source' = [source EXCEPT ![NewMaster] = NoServer]
        /\ io' = [io EXCEPT ![NewMaster] = FALSE] /\ sql' = [sql EXCEPT ![NewMaster] = FALSE]
    BY <1>7 DEF PromoteCandidate, ResetSlaveAll
  <2> QED
    BY <1>t, <2>1 DEF RolesInv
<1>8. ASSUME ReadNewMasterStatus \/ CheckBeforeSwitch \/ CheckAllSlaves, ~Abort PROVE RolesInv'
  <2>1. UNCHANGED threads
    BY <1>8 DEF ReadNewMasterStatus, CheckBeforeSwitch, CheckAllSlaves, Proceed, servers
  <2>2. pc \in Handed
    BY <1>8 DEF ReadNewMasterStatus, CheckBeforeSwitch, CheckAllSlaves, Handed
  <2> QED
    BY <1>1, <2>1, <2>2
<1>9. ASSUME SwitchSlave, ~Abort PROVE RolesInv'
  <2>1. /\ pc = "change" /\ master = NewMaster /\ Entry # NewMaster
        /\ source' = [source EXCEPT ![Entry] = NewMaster] /\ UNCHANGED <<io, sql>>
    BY <1>9 DEF SwitchSlave, ChangeMaster, ToolInv, Handed
  <2>2. source[NewMaster] = NoServer
    BY <2>1 DEF RolesInv, Handed
  <2>3. /\ \A s \in Servers : source'[s] \in {OldMaster, NewMaster, NoServer}
        /\ source'[NewMaster] = NoServer /\ source'[OldMaster] # OldMaster
    BY <1>t, <2>1, <2>2 DEF RolesInv
  <2>4. pc \in Handed
    BY <2>1 DEF Handed
  <2> QED
    BY <2>1, <2>3, <2>4 DEF RolesInv
<1>10. ASSUME StartAllSlaves PROVE RolesInv'
  <2>1. pc \in Handed /\ pc = "startAll" /\ UNCHANGED source
    BY <1>10 DEF StartAllSlaves, StartSlave, Handed
  <2>2. io'[NewMaster] = io[NewMaster] /\ sql'[NewMaster] = sql[NewMaster]
    <3>1. ~HasInstance(NewMaster)
      BY <2>1 DEF ToolInv
    <3>2. Answers(Entry) => Entry # NewMaster
      BY <3>1 DEF Answers, HasInstance
    <3> QED
      BY <1>10, <1>t, <3>2 DEF StartAllSlaves, StartSlave
  <2> QED
    BY <2>1, <2>2 DEF RolesInv
<1> QED
  BY <1>2, <1>3, <1>4, <1>5, <1>6, <1>7, <1>8, <1>9, <1>10
  DEF Next, ServersStep, SwitchoverStep, Settle, Hand

----------------------------------------------------------------------------
\* Executed sets only grow, and the servers that answer are only fewer.
LEMMA Grows ==
  ASSUME TypeOK, [Next]_vars
  PROVE  \A s \in Servers : executed[s] \subseteq executed'[s] /\ (alive'[s] => alive[s])
<1> USE DEF TypeOK, ServersTypeOK
<1>1. CASE ServersStep
  BY <1>1, ServersFrame
<1>2. CASE UNCHANGED vars
  BY <1>2 DEF vars, servers, data
<1>3. CASE Abort
  BY <1>3, LeaveFrame DEF Abort
<1>4. CASE Check
  <2>1. UNCHANGED alive
    BY <1>4 DEF Check, ConnectCandidate, CheckPrerequisites, CheckConfigured, CreateRplUser,
                Proceed, Abort, Leave, servers
  <2>2. \/ UNCHANGED executed
        \/ \E t \in Trx : executed' = [executed EXCEPT ![NewMaster] = @ \cup {t}]
    BY <1>4 DEF Check, ConnectCandidate, CheckPrerequisites, CheckConfigured, CreateRplUser,
                Proceed, Abort, Leave, servers, data
  <2> QED
    BY <2>1, <2>2
<1>5. CASE Settle /\ ~Abort
  BY <1>5 DEF Settle, BlockMaster, ReadMasterGtids, UnblockMaster, CheckAlive, WaitForSlave,
     StopAllSlaves, StopSlave, Proceed, servers, data
<1>6. CASE Hand /\ ~Abort
  BY <1>6 DEF Hand, DemoteMaster, PromoteCandidate, ReadNewMasterStatus, CheckBeforeSwitch,
     SwitchSlave, StartAllSlaves, CheckAllSlaves, StopSlave, StartSlave, ChangeMaster,
     ResetSlaveAll, Proceed, servers, data
<1> QED
  BY <1>1, <1>2, <1>3, <1>4, <1>5, <1>6 DEF Next, ServersStep, SwitchoverStep

\* One slave after the other has what the master had when it was blocked.
LEMMA CaughtStep ==
  ASSUME TypeOK, ToolInv, CaughtInv, [Next]_vars PROVE CaughtInv'
<1> USE SwitchoverAssumption DEF tool
<1>g. \A s \in Servers : executed[s] \subseteq executed'[s] /\ (alive'[s] => alive[s])
  BY Grows
<1>l. /\ idx \in DOMAIN List /\ Entry \in Servers /\ listed \subseteq Servers
      /\ NewMaster \in Servers
      /\ \A i \in DOMAIN List : List[i] \in Servers
  BY EntryFact, ListFacts DEF TypeOK
<1>1. ASSUME ServersStep \/ UNCHANGED vars PROVE CaughtInv'
  <2>1. UNCHANGED <<conf, tool>>
    BY <1>1, ServersFrame DEF vars
  <2>2. \A i \in 1 .. idx - 1 : List[i] \in Servers
    BY <1>l, ListFacts
  <2> QED
    BY <1>g, <1>l, <2>1, <2>2 DEF CaughtInv, Answers
<1>2. ASSUME Abort PROVE CaughtInv'
  BY <1>2, LeaveFrame DEF Abort, CaughtInv, Handed
<1>3. ASSUME Check \/ BlockMaster, ~Abort PROVE CaughtInv'
  <2>1. pc' \in {"prerequisites", "configured", "user", "block", "refused", "snapshot"}
    BY <1>3 DEF Check, ConnectCandidate, CheckPrerequisites, CheckConfigured, CreateRplUser,
                BlockMaster, Proceed, Leave, Goto
  <2> QED
    BY <2>1 DEF CaughtInv, Handed
<1>4. ASSUME ReadMasterGtids, ~Abort PROVE CaughtInv'
  <2>1. pc' = "wait" /\ idx' = 1
    BY <1>4 DEF ReadMasterGtids, ToolInv, Single, Goto
  <2> QED
    BY <2>1 DEF CaughtInv, Handed
<1>5. ASSUME CheckAlive \/ WaitForSlave, ~Abort PROVE CaughtInv'
  <2>1. /\ pc \in {"wait", "waiting"} /\ UNCHANGED <<servers, conf, listed, gtids>>
        /\ \/ pc' = "waiting" /\ UNCHANGED idx
           \/ /\ NextSlave("wait", "stopAll")
              /\ ~conf.force /\ Answers(Entry) => gtids \subseteq executed[Entry]
    <3>1. CASE CheckAlive
      BY <1>5, <3>1 DEF CheckAlive, Proceed, Goto
    <3>2. CASE WaitForSlave
      BY <1>5, <3>2 DEF WaitForSlave
    <3> QED
      BY <1>5, <3>1, <3>2
  <2>2. CASE conf.force
    BY <2>1, <2>2 DEF CaughtInv
  <2>3. CASE ~conf.force /\ pc' = "waiting" /\ UNCHANGED idx
    BY <2>1, <2>3 DEF CaughtInv, Answers, Handed, servers, data
  <2>4. CASE /\ ~conf.force /\ NextSlave("wait", "stopAll")
             /\ Answers(Entry) => gtids \subseteq executed[Entry]
    <3>1. \A i \in 1 .. idx : Answers(List[i]) => gtids \subseteq executed[List[i]]
      <4> SUFFICES ASSUME NEW i \in 1 .. idx, Answers(List[i])
                   PROVE  gtids \subseteq executed[List[i]]
        OBVIOUS
      <4>1. CASE i = idx
        BY <2>4, <4>1 DEF Entry
      <4>2. CASE i # idx
        <5>1. i \in 1 .. idx - 1
          BY <1>l, <4>2, ListFacts
        <5> QED
          BY <2>1, <2>4, <5>1 DEF CaughtInv
      <4> QED
        BY <4>1, <4>2
    <3>2. /\ UNCHANGED <<alive, executed, conf, listed, gtids>>
          /\ \A s : Answers(s)' = Answers(s)
      BY <2>1 DEF servers, data, Answers
    <3>3. CASE pc' = "wait" /\ idx' = idx + 1
      <4>1. 1 .. idx' - 1 = 1 .. idx
        BY <1>l, <3>3, ListFacts
      <4> QED
        BY <3>1, <3>2, <3>3, <4>1 DEF CaughtInv, Handed
    <3>4. CASE pc' = "stopAll" /\ idx = Len(List)
      <4>1. \A s \in listed : Answers(s) => gtids \subseteq executed[s]
        BY <3>1, <3>4, ListFacts DEF ToolInv
      <4> QED
        BY <3>2, <3>4, <4>1 DEF CaughtInv, Handed
    <3> QED
      BY <1>l, <2>4, <3>3, <3>4, NextSlaveFact
  <2> QED
    BY <2>1, <2>2, <2>3, <2>4
<1>6. ASSUME StopAllSlaves PROVE CaughtInv'
  <2>1. /\ pc = "stopAll" /\ pc' \in {"stopAll", "unblock"}
        /\ UNCHANGED <<alive, executed, conf, listed, gtids>>
    BY <1>6 DEF StopAllSlaves, StopSlave, NextSlave, Goto, data
  <2> QED
    BY <2>1 DEF CaughtInv, Answers, Handed
<1>7. ASSUME UnblockMaster, ~Abort PROVE CaughtInv'
  <2>1. /\ pc = "unblock" /\ pc' \in {"demote", "promote"}
        /\ UNCHANGED <<alive, executed, conf, listed, gtids>>
    BY <1>7 DEF UnblockMaster, Goto, data
  <2>2. listed = Slaves
    BY <2>1 DEF ToolInv, Leading, Blocked
  <2>3. ASSUME ~conf.force, NewMaster \in Slaves \cap conf.connected, alive[NewMaster]
        PROVE  gtids \subseteq executed[NewMaster]
    BY <2>1, <2>2, <2>3 DEF CaughtInv, Answers
  <2> QED
    BY <2>1, <2>3 DEF CaughtInv, Handed
<1>8. ASSUME DemoteMaster, ~Abort PROVE CaughtInv'
  BY <1>8 DEF DemoteMaster, StopSlave, Goto, CaughtInv, Handed, data
<1>9. ASSUME PromoteCandidate, ~Abort PROVE CaughtInv'
  BY <1>9 DEF PromoteCandidate, ResetSlaveAll, Goto, CaughtInv, Handed
<1>10. ASSUME \/ ReadNewMasterStatus \/ CheckBeforeSwitch \/ SwitchSlave \/ StartAllSlaves
              \/ CheckAllSlaves,
              ~Abort
       PROVE  CaughtInv'
  <2>1. pc \in Handed /\ pc' \in Handed /\ UNCHANGED <<conf, gtids>>
    <3>1. CASE ReadNewMasterStatus \/ CheckAllSlaves
      BY <1>10, <3>1 DEF ReadNewMasterStatus, CheckAllSlaves, Proceed, Goto, Handed
    <3>2. CASE CheckBeforeSwitch \/ SwitchSlave \/ StartAllSlaves
      BY <1>10, <3>2 DEF CheckBeforeSwitch, SwitchSlave, StartAllSlaves, Proceed, NextSlave, Goto, Handed
    <3> QED
      BY <1>10, <3>1, <3>2
  <2> QED
    BY <1>g, <1>l, <2>1 DEF CaughtInv, Handed
<1> QED
  BY <1>1, <1>2, <1>3, <1>4, <1>5, <1>6, <1>7, <1>8, <1>9, <1>10
  DEF Next, ServersStep, SwitchoverStep, Settle, Hand

\* One entry after the other is attached to the new master and started.
LEMMA AttachedStep ==
  ASSUME TypeOK, ToolInv, RolesInv, AttachedInv, [Next]_vars PROVE AttachedInv'
<1> USE SwitchoverAssumption, NoServerAssumption DEF tool
<1>t. /\ idx \in DOMAIN List /\ Entry \in Servers /\ listed \subseteq Slaves \cup {OldMaster}
      /\ source \in [Servers -> Servers \cup {NoServer}]
      /\ io \in [Servers -> BOOLEAN] /\ sql \in [Servers -> BOOLEAN]
      /\ \A i \in 1 .. idx : List[i] \in Servers
  <2>1. idx \in DOMAIN List /\ Entry \in Servers
    BY EntryFact DEF TypeOK
  <2>2. listed \subseteq Slaves \cup {OldMaster}
    BY DEF ToolInv
  <2>3. /\ source \in [Servers -> Servers \cup {NoServer}]
        /\ io \in [Servers -> BOOLEAN] /\ sql \in [Servers -> BOOLEAN]
    BY DEF TypeOK, ServersTypeOK
  <2>4. \A i \in 1 .. idx : i \in DOMAIN List
    BY <2>1, ListFacts
  <2>5. \A i \in 1 .. idx : List[i] \in Servers
    BY <2>4, ListFacts, SwitchoverAssumption
  <2> QED
    BY <2>1, <2>2, <2>3, <2>5
<1>1. ASSUME ServersStep \/ UNCHANGED vars PROVE AttachedInv'
  <2>1. /\ UNCHANGED <<conf, tool, threads>>
        /\ \A s \in Servers : alive'[s] => alive[s]
    BY <1>1, ServersFrame DEF vars, servers
  <2>2. \A i \in 1 .. idx - 1 : List[i] \in Servers
    BY <1>t, ListFacts
  <2> QED
    BY <2>1, <2>2 DEF AttachedInv, HasInstance, threads
<1>2. ASSUME Abort PROVE AttachedInv'
  BY <1>2, LeaveFrame DEF Abort, AttachedInv, Repointed
<1>3. ASSUME \/ Check \/ Settle \/ DemoteMaster \/ PromoteCandidate, ~Abort PROVE AttachedInv'
  <2>1. pc' \notin {"switch", "change"} \cup Repointed
    <3>1. CASE Check
      BY <1>3, <3>1 DEF Check, ConnectCandidate, CheckPrerequisites, CheckConfigured, CreateRplUser,
                Proceed, Leave, Goto, Repointed
    <3>2. CASE Settle
      BY <1>3, <3>2 DEF Settle, BlockMaster, ReadMasterGtids, UnblockMaster, CheckAlive,
         WaitForSlave, StopAllSlaves, Proceed, NextSlave, Goto, Repointed
    <3>3. CASE DemoteMaster \/ PromoteCandidate
      BY <1>3, <3>3 DEF DemoteMaster, PromoteCandidate, Goto, Repointed
    <3> QED
      BY <1>3, <3>1, <3>2, <3>3
  <2> QED
    BY <2>1 DEF AttachedInv, Repointed
<1>4. ASSUME ReadNewMasterStatus, ~Abort PROVE AttachedInv'
  <2>1. pc' = "switch" /\ idx' = 1
    BY <1>4 DEF ReadNewMasterStatus, Proceed, Goto, ToolInv, Single
  <2> QED
    BY <2>1 DEF AttachedInv, Repointed
<1>5. ASSUME CheckBeforeSwitch \/ SwitchSlave, ~Abort PROVE AttachedInv'
  <2>1. /\ pc \in {"switch", "change"} /\ UNCHANGED <<alive, io, sql, conf, listed>>
        /\ \/ pc' = "change" /\ UNCHANGED <<idx, source>>
           \/ /\ NextSlave("switch", "startAll")
              /\ \/ source' = source /\ ~(HasInstance(Entry) /\ alive[Entry])
                 \/ source' = [source EXCEPT ![Entry] = NewMaster]
    <3>1. CASE CheckBeforeSwitch
      BY <1>5, <3>1
      DEF CheckBeforeSwitch, Proceed, Goto, Answers, HasInstance, servers, threads
    <3>2. CASE SwitchSlave
      BY <1>5, <3>2 DEF SwitchSlave, ChangeMaster, ToolInv, Handed
    <3> QED
      BY <1>5, <3>1, <3>2
  <2>2. CASE pc' = "change" /\ UNCHANGED <<idx, source>>
    BY <2>1, <2>2 DEF AttachedInv, HasInstance, Repointed
  <2>3. CASE /\ NextSlave("switch", "startAll")
             /\ \/ source' = source /\ ~(HasInstance(Entry) /\ alive[Entry])
                \/ source' = [source EXCEPT ![Entry] = NewMaster]
    <3>1. \A i \in 1 .. idx : HasInstance(List[i]) /\ alive[List[i]] =>
                                source'[List[i]] = NewMaster
      <4> SUFFICES ASSUME NEW i \in 1 .. idx, HasInstance(List[i]), alive[List[i]]
                   PROVE  source'[List[i]] = NewMaster
        OBVIOUS
      <4>1. CASE List[i] = Entry
        BY <1>t, <2>3, <4>1
      <4>2. CASE List[i] # Entry
        <5>1. i \in 1 .. idx - 1
          BY <1>t, <4>2, ListFacts DEF Entry
        <5>2. source[List[i]] = NewMaster
          BY <2>1, <5>1 DEF AttachedInv
        <5> QED
          BY <1>t, <2>3, <4>2, <5>2
      <4> QED
        BY <4>1, <4>2
    <3>2. \A s : HasInstance(s)' = HasInstance(s)
      BY <2>1 DEF HasInstance
    <3>3. CASE pc' = "switch" /\ idx' = idx + 1
      <4>1. 1 .. idx' - 1 = 1 .. idx
        BY <1>t, <3>3, ListFacts
      <4> QED
        BY <2>1, <3>1, <3>2, <3>3, <4>1 DEF AttachedInv, Repointed
    <3>4. CASE pc' = "startAll" /\ idx = Len(List) /\ idx' = 1
      <4>1. \A s \in Servers : HasInstance(s) /\ alive[s] => source'[s] = NewMaster
        <5> SUFFICES ASSUME NEW s \in Servers, HasInstance(s), alive[s] PROVE source'[s] = NewMaster
          OBVIOUS
        <5>1. PICK i \in DOMAIN List : List[i] = s
          BY <1>t, ListFacts DEF HasInstance
        <5> QED
          BY <3>1, <3>4, <5>1, ListFacts
      <4> QED
        BY <2>1, <3>2, <3>4, <4>1 DEF AttachedInv
    <3> QED
      BY <1>t, <2>3, <3>3, <3>4, NextSlaveFact
  <2> QED
    BY <2>1, <2>2, <2>3
<1>6. ASSUME StartAllSlaves PROVE AttachedInv'
  <2>1. /\ pc = "startAll" /\ UNCHANGED <<alive, source, conf, listed>>
        /\ NextSlave("startAll", "check")
        /\ \A s \in Servers : HasInstance(s) /\ alive[s] => source[s] = NewMaster
    BY <1>6 DEF StartAllSlaves, StartSlave, threads, AttachedInv, Repointed
  <2>2. \A i \in 1 .. idx : HasInstance(List[i]) /\ alive[List[i]] => io'[List[i]] /\ sql'[List[i]]
    <3> SUFFICES ASSUME NEW i \in 1 .. idx, HasInstance(List[i]), alive[List[i]]
                 PROVE  io'[List[i]] /\ sql'[List[i]]
      OBVIOUS
    <3>1. CASE List[i] = Entry
      <4>1. Answers(Entry) /\ source[Entry] # NoServer
        BY <1>t, <2>1, <3>1 DEF HasInstance, Answers
      <4>2. io' = [io EXCEPT ![Entry] = TRUE] /\ sql' = [sql EXCEPT ![Entry] = TRUE]
        BY <1>6, <4>1 DEF StartAllSlaves, StartSlave
      <4> QED
        BY <1>t, <3>1, <4>2
    <3>2. CASE List[i] # Entry
      <4>1. i \in 1 .. idx - 1
        BY <1>t, <3>2, ListFacts DEF Entry
      <4>2. io[List[i]] /\ sql[List[i]]
        BY <2>1, <4>1 DEF AttachedInv
      <4> QED
        BY <1>6, <1>t, <3>2, <4>2 DEF StartAllSlaves, StartSlave, threads
    <3> QED
      BY <3>1, <3>2
  <2>3. \A s : HasInstance(s)' = HasInstance(s)
    BY <2>1 DEF HasInstance
  <2>4. CASE pc' = "startAll" /\ idx' = idx + 1
    <3>1. 1 .. idx' - 1 = 1 .. idx
      BY <1>t, <2>4, ListFacts
    <3> QED
      BY <2>1, <2>2, <2>3, <2>4, <3>1 DEF AttachedInv
  <2>5. CASE pc' = "check" /\ idx = Len(List)
    <3>1. \A s \in Servers : HasInstance(s) /\ alive[s] => io'[s] /\ sql'[s]
      <4> SUFFICES ASSUME NEW s \in Servers, HasInstance(s), alive[s] PROVE io'[s] /\ sql'[s]
        OBVIOUS
      <4>1. PICK i \in DOMAIN List : List[i] = s
        BY <1>t, ListFacts DEF HasInstance
      <4> QED
        BY <2>2, <2>5, <4>1, ListFacts
    <3> QED
      BY <2>1, <2>3, <2>5, <3>1 DEF AttachedInv
  <2> QED
    BY <1>t, <2>1, <2>4, <2>5, NextSlaveFact
<1>7. ASSUME CheckAllSlaves PROVE AttachedInv'
  <2>1. pc = "check" /\ pc' = "done" /\ UNCHANGED <<servers, conf, listed>>
    BY <1>7 DEF CheckAllSlaves, Proceed, Goto
  <2> QED
    BY <2>1 DEF AttachedInv, HasInstance, Repointed, servers, threads
<1> QED
  BY <1>1, <1>2, <1>3, <1>4, <1>5, <1>6, <1>7 DEF Next, ServersStep, SwitchoverStep, Hand

----------------------------------------------------------------------------
LEMMA SwitchInvariant == Spec => []SwitchInv
<1>1. SwitchInv /\ [Next]_vars => SwitchInv'
  BY TypeStep, ToolStep, BlockStep, CaughtStep, RolesStep, AttachedStep DEF SwitchInv
<1> QED
  BY <1>1, SwitchInitially, PTL DEF Spec

\* switchover() keeps the types of its own state and of the servers'.
THEOREM SwitchoverTypes == Spec => []TypeOK
BY SwitchInvariant, PTL DEF SwitchInv

\* FTWRL and READ_ONLY on the old master: what the slaves wait for is all
\* there is, whether or not a client would write and a crash breaks the lock.
THEOREM SnapshotStays == Spec => []SnapshotIsFinal
<1>1. SwitchInv => SnapshotIsFinal
  BY DEF SwitchInv, BlockInv, SnapshotIsFinal
<1> QED
  BY <1>1, SwitchInvariant, PTL

\* The waits of switchover(): without --force nothing is stopped and nobody is
\* promoted before the slaves that answer have the master's last transaction.
THEOREM AllCaughtUp == Spec => []SlavesCaughtUp
<1>1. SwitchInv => SlavesCaughtUp
  BY DEF SwitchInv, CaughtInv, SlavesCaughtUp
<1> QED
  BY <1>1, SwitchInvariant, PTL

\* At no time of a switchover, with or without the old master's demotion, do two
\* servers replicate from each other.
THEOREM SwitchesWithoutCycle == Spec => []NoReplicationCycle
<1>1. SwitchInv => NoReplicationCycle
  <2> SUFFICES ASSUME SwitchInv, NEW s \in Servers, NEW r \in Servers,
                      source[s] = r, source[r] = s
               PROVE  FALSE
    BY DEF NoReplicationCycle
  <2>1. s \in {OldMaster, NewMaster} /\ r \in {OldMaster, NewMaster}
    BY NoServerAssumption DEF SwitchInv, RolesInv
  <2>2. source[NewMaster] = NoServer
    BY <2>1 DEF SwitchInv, RolesInv
  <2> QED
    BY <2>1, <2>2, NoServerAssumption, SwitchoverAssumption DEF SwitchInv, RolesInv
<1> QED
  BY <1>1, SwitchInvariant, PTL

\* A switchover that completes leaves every entry that answers attached to the
\* new master and running, the old master too if it is demoted.
THEOREM Switches == Spec => []TopologySwitched
<1>1. SwitchInv => TopologySwitched
  <2> SUFFICES ASSUME SwitchInv, pc = "done" PROVE TopologySwitched
    BY DEF TopologySwitched
  <2>1. /\ source[NewMaster] = NoServer /\ ~io[NewMaster] /\ ~sql[NewMaster]
        /\ ~readOnly[OldMaster] /\ ~ftwrl[OldMaster]
    BY DEF SwitchInv, RolesInv, BlockInv, Handed
  <2>2. ASSUME NEW s \in (listed \cap conf.connected)
                           \cup (IF conf.demote THEN {OldMaster} ELSE {}),
               alive[s]
        PROVE  source[s] = NewMaster /\ io[s] /\ sql[s]
    <3>1. HasInstance(s) /\ s \in Servers
      BY <2>2, SwitchoverAssumption DEF SwitchInv, ToolInv, Handed, HasInstance, TypeOK
    <3> QED
      BY <2>2, <3>1 DEF SwitchInv, AttachedInv, Repointed
  <2> QED
    BY <2>1, <2>2 DEF TopologySwitched
<1> QED
  BY <1>1, SwitchInvariant, PTL
=============================================================================
