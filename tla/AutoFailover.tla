----------------------------- MODULE AutoFailover -----------------------------
(***************************************************************************)
(* Several instances of mysqlfailover: consoles (RplCommands.auto_failover, *)
(* run_auto_failover, FailoverConsole) and detached daemons (FailoverDaemon *)
(* of failover_daemon.py), which register on the master they monitor in the *)
(* table mysql.failover_console so that only one of them fails over.        *)
(*                                                                          *)
(* One action per statement of a registration and per check of the master.  *)
(* Topology.failover is one action here (module Failover has its steps): it *)
(* promotes a live slave of the instance's list and attaches the live rest. *)
(* Reports, scripts, privileges and the errant-transaction check are left   *)
(* out; the table's rows carry who inserted them, which the code cannot     *)
(* tell: every row on a server is the same (host, port) pair.               *)
(***************************************************************************)
EXTENDS Integers, FiniteSets

CONSTANTS
  Instances,      \* processes running mysqlfailover
  Servers,        \* the servers
  Master,         \* the initial master
  NoServer,       \* "not a slave", "no master yet"
  Confs,          \* how the instances are started: [daemons, forced]
  Discovers,      \* whether --discover-slaves-login is given
  StartsApart,    \* whether no instance registers while another one does
  Retries,        \* reconnection attempts before the master is given up
  MaxCrashes,     \* bound on server crashes
  MaxStarts       \* bound on the starts of each instance

ASSUME AutoFailoverAssumption ==
  /\ Confs \subseteq [daemons : SUBSET Instances, forced : SUBSET Instances]
  /\ Master \in Servers /\ NoServer \notin Servers
  /\ {Discovers, StartsApart} \subseteq BOOLEAN
  /\ {Retries, MaxCrashes, MaxStarts} \subseteq Nat

VARIABLES
  alive,          \* [Servers -> BOOLEAN]
  source,         \* [Servers -> Servers \cup {NoServer}]
  table,          \* [Servers -> BOOLEAN] : mysql.failover_console exists
  rows,           \* [Servers -> SUBSET Instances] : who inserted its rows
  pc,             \* [Instances -> Places]
  mode,           \* [Instances -> {"auto", "fail"}] : self.mode
  master,         \* [Instances -> Servers \cup {NoServer}] : topology.master
  listed,         \* [Instances -> SUBSET Servers] : topology.slaves
  found,          \* [Instances -> SUBSET Servers] : those discovered
  joined,         \* [Instances -> BOOLEAN] : registered once, in the main loop
  tries,          \* [Instances -> 0..Retries] : attempts to reconnect left
  crashes, starts,\* bounds
  conf            \* --daemon=start and --force, by instance

topology == <<alive, source>>
registry == <<table, rows>>
process  == <<pc, mode, master, listed, found, joined, tries>>
bounds   == <<crashes, starts, conf>>
vars == <<topology, registry, process, bounds>>

Registering == {"clean", "drop", "select", "insert"}
Monitoring  == {"watch", "retry", "failover"}
Places == {"down", "exit", "exited"} \cup Registering \cup Monitoring

TypeOK ==
  /\ alive  \in [Servers -> BOOLEAN]
  /\ source \in [Servers -> Servers \cup {NoServer}]
  /\ table  \in [Servers -> BOOLEAN]
  /\ rows   \in [Servers -> SUBSET Instances]
  /\ pc     \in [Instances -> Places]
  /\ mode   \in [Instances -> {"auto", "fail"}]
  /\ master \in [Instances -> Servers \cup {NoServer}]
  /\ listed \in [Instances -> SUBSET Servers]
  /\ found  \in [Instances -> SUBSET Servers]
  /\ joined \in [Instances -> BOOLEAN]
  /\ tries  \in [Instances -> 0..Retries]
  /\ crashes \in 0..MaxCrashes
  /\ starts \in [Instances -> 0..MaxStarts]
  /\ conf \in Confs

Init ==
  /\ alive  = [s \in Servers |-> TRUE]
  /\ source = [s \in Servers |-> IF s = Master THEN NoServer ELSE Master]
  /\ table  = [s \in Servers |-> FALSE]
  /\ rows   = [s \in Servers |-> {}]
  /\ pc     = [i \in Instances |-> "down"]
  /\ mode   = [i \in Instances |-> "auto"]
  /\ master = [i \in Instances |-> NoServer]
  /\ listed = [i \in Instances |-> {}]
  /\ found  = [i \in Instances |-> {}]
  /\ joined = [i \in Instances |-> FALSE]
  /\ tries  = [i \in Instances |-> 0]
  /\ conf \in Confs
  /\ crashes = 0 /\ starts = [i \in Instances |-> 0]

----------------------------------------------------------------------------
SlavesOf(s) == {r \in Servers : source[r] = s}

Move(i, from, to) == pc[i] = from /\ pc' = [pc EXCEPT ![i] = to]

\* A statement of the registration raises: the instance leaves, and only
\* from the main loop on is that within the try whose finally deregisters it.
Fails(i) ==
  /\ pc' = [pc EXCEPT ![i] = IF joined[i] THEN "exit" ELSE "down"]
  /\ UNCHANGED <<topology, registry, mode, master, listed, found, joined,
                 tries>>

\* Assumed with StartsApart: a registration or a deregistration is over before
\* the next registration begins.
Apart ==
  StartsApart => \A j \in Instances : pc[j] \notin Registering \cup {"exit"}

\* mysqlfailover is started on a live master with its slaves as --slaves.
Start(i) ==
  /\ starts[i] < MaxStarts
  /\ Apart
  /\ \E s \in Servers :
       /\ alive[s] /\ source[s] = NoServer /\ SlavesOf(s) # {}
       /\ master' = [master EXCEPT ![i] = s]
       /\ listed' = [listed EXCEPT ![i] = SlavesOf(s)]
  /\ Move(i, "down", "clean")
  /\ mode'   = [mode EXCEPT ![i] = "auto"]
  /\ found'  = [found EXCEPT ![i] = {}]
  /\ joined' = [joined EXCEPT ![i] = FALSE]
  /\ starts' = [starts EXCEPT ![i] = @ + 1]
  /\ UNCHANGED <<topology, registry, tries, crashes, conf>>

\* unregister_slaves: DROP TABLE on every slave that answers.  At the start
\* --force then clears the master's table too.
UnregisterSlaves(i) ==
  LET up == {s \in listed[i] : alive[s]} IN
  /\ Move(i, "clean", IF i \in conf.forced /\ ~joined[i] THEN "drop" ELSE "select")
  /\ table' = [s \in Servers |-> table[s] /\ s \notin up]
  /\ rows'  = [s \in Servers |-> IF s \in up THEN {} ELSE rows[s]]
  /\ UNCHANGED <<topology, mode, master, listed, found, joined, tries, bounds>>

ClearMaster(i) ==
  LET m == master[i] IN
  /\ pc[i] = "drop"
  /\ IF ~alive[m] THEN Fails(i)
     ELSE /\ Move(i, "drop", "select")
          /\ table' = [table EXCEPT ![m] = FALSE]
          /\ rows'  = [rows EXCEPT ![m] = {}]
          /\ UNCHANGED <<topology, mode, master, listed, found, joined, tries>>
  /\ UNCHANGED bounds

\* Fault: a row is only looked for, and a blocked instance keeps its mode.
SelectIgnoringRows(i) ==
  LET m == master[i] IN
  /\ pc[i] = "select"
  /\ IF ~alive[m] THEN Fails(i)
     ELSE /\ table' = [table EXCEPT ![m] = TRUE]
          /\ Move(i, "select", "insert")
          /\ UNCHANGED <<topology, rows, mode, master, listed, found, joined,
                         tries>>
  /\ UNCHANGED bounds

\* CREATE TABLE IF NOT EXISTS, then SELECT: another's row blocks the instance.
SelectRow(i) ==
  LET m == master[i] IN
  /\ pc[i] = "select"
  /\ IF ~alive[m] THEN Fails(i)
     ELSE /\ table' = [table EXCEPT ![m] = TRUE]
          /\ IF rows[m] # {}
               THEN /\ Move(i, "select", "watch")
                    /\ mode' = [mode EXCEPT ![i] = "fail"]
                    /\ joined' = [joined EXCEPT ![i] = TRUE]
               ELSE Move(i, "select", "insert") /\ UNCHANGED <<mode, joined>>
          /\ UNCHANGED <<topology, rows, master, listed, found, tries>>
  /\ UNCHANGED bounds

\* INSERT raises if the table was dropped since.
InsertRow(i) ==
  LET m == master[i] IN
  /\ pc[i] = "insert"
  /\ IF ~alive[m] \/ ~table[m] THEN Fails(i)
     ELSE /\ Move(i, "insert", "watch")
          /\ rows' = [rows EXCEPT ![m] = @ \cup {i}]
          /\ joined' = [joined EXCEPT ![i] = TRUE]
          /\ UNCHANGED <<topology, table, mode, master, listed, found, tries>>
  /\ UNCHANGED bounds

----------------------------------------------------------------------------
\* The main loop of run_auto_failover and FailoverDaemon.run.

\* The master answers: discover_slaves, then the next interval.
DiscoverSlaves(i) ==
  LET new == {s \in SlavesOf(master[i]) : alive[s]} \ listed[i] IN
  /\ pc[i] = "watch" /\ alive[master[i]]
  /\ Discovers /\ new # {}
  /\ listed' = [listed EXCEPT ![i] = @ \cup new]
  /\ found'  = [found EXCEPT ![i] = @ \cup new]
  /\ UNCHANGED <<topology, registry, pc, mode, master, joined, tries, bounds>>

\* It does not answer.
Suspect(i) ==
  /\ Move(i, "watch", "retry") /\ ~alive[master[i]]
  /\ tries' = [tries EXCEPT ![i] = Retries]
  /\ UNCHANGED <<topology, registry, mode, master, listed, found, joined,
                 bounds>>

\* Fault: one attempt too many is counted down.
ReconnectBelowZero(i) ==
  /\ \/ Move(i, "retry", "watch") /\ alive[master[i]] /\ UNCHANGED tries
     \/ /\ pc[i] = "retry" /\ ~alive[master[i]] /\ tries[i] >= 0
        /\ tries' = [tries EXCEPT ![i] = @ - 1]
        /\ UNCHANGED pc
     \/ /\ Move(i, "retry", "failover") /\ ~alive[master[i]] /\ tries[i] < 0
        /\ UNCHANGED tries
  /\ UNCHANGED <<topology, registry, mode, master, listed, found, joined,
                 bounds>>

\* Fault: a failed attempt to reconnect is not counted.
ReconnectForever(i) ==
  /\ \/ Move(i, "retry", "watch") /\ alive[master[i]]
     \/ pc[i] = "retry" /\ ~alive[master[i]] /\ UNCHANGED pc
  /\ UNCHANGED <<topology, registry, mode, master, listed, found, joined, tries,
                 bounds>>

\* Waits and attempts to reconnect: --ping, --master-fail-retry, then three.
Reconnect(i) ==
  /\ \/ /\ Move(i, "retry", "watch") /\ alive[master[i]]
        /\ UNCHANGED tries
     \/ /\ pc[i] = "retry" /\ ~alive[master[i]] /\ tries[i] > 0
        /\ tries' = [tries EXCEPT ![i] = @ - 1]
        /\ UNCHANGED pc
     \/ /\ Move(i, "retry", "failover") /\ ~alive[master[i]] /\ tries[i] = 0
        /\ UNCHANGED tries
  /\ UNCHANGED <<topology, registry, mode, master, listed, found, joined,
                 bounds>>

\* topology.failover, then remove_discovered_slaves and discover_slaves; the
\* instance registers again, without --force.
FailOver(i) ==
  /\ mode[i] = "auto" /\ Apart
  /\ \E c \in {s \in listed[i] : alive[s]} :
       LET moved == {s \in listed[i] \ {c} : alive[s]}
           attached == [s \in Servers |-> IF s = c THEN NoServer
                                          ELSE IF s \in moved THEN c ELSE source[s]]
           kept  == listed[i] \ (found[i] \cup {c})
           again == IF Discovers THEN {s \in Servers : alive[s] /\ attached[s] = c} \ kept
                                 ELSE {}
       IN /\ source' = attached
          /\ master' = [master EXCEPT ![i] = c]
          /\ listed' = [listed EXCEPT ![i] = kept \cup again]
          /\ found'  = [found EXCEPT ![i] = again]
  /\ Move(i, "failover", "clean")
  /\ UNCHANGED <<alive, registry, mode, joined, tries, bounds>>

\* Mode fail, or nobody left to promote: the loop raises.
GiveUp(i) ==
  /\ mode[i] = "fail" \/ \A s \in listed[i] : ~alive[s]
  /\ Move(i, "failover", "exit")
  /\ UNCHANGED <<topology, registry, mode, master, listed, found, joined, tries,
                 bounds>>

\* The user quits or the process is terminated in the main loop.
Quit(i) ==
  /\ Move(i, "watch", "exit")
  /\ UNCHANGED <<topology, registry, mode, master, listed, found, joined, tries,
                 bounds>>

\* Fault: a blocked console clears the table too.
UnregisterAlways(i) ==
  LET m == master[i] IN
  /\ Move(i, "exit", IF i \in conf.daemons THEN "exited" ELSE "down")
  /\ IF alive[m]
       THEN table' = [table EXCEPT ![m] = FALSE] /\ rows' = [rows EXCEPT ![m] = {}]
       ELSE UNCHANGED registry
  /\ UNCHANGED <<topology, mode, master, listed, found, joined, tries, bounds>>

\* register_instance(True, False): DROP TABLE, unless the mode is fail.
Unregister(i) ==
  LET m == master[i] IN
  /\ Move(i, "exit", IF i \in conf.daemons THEN "exited" ELSE "down")
  /\ IF mode[i] # "fail" /\ alive[m]
       THEN table' = [table EXCEPT ![m] = FALSE] /\ rows' = [rows EXCEPT ![m] = {}]
       ELSE UNCHANGED registry
  /\ UNCHANGED <<topology, mode, master, listed, found, joined, tries, bounds>>

\* atexit of a detached daemon: cleanup() deletes the rows in any mode.
Cleanup(i) ==
  LET m == master[i] IN
  /\ Move(i, "exited", "down")
  /\ rows' = [rows EXCEPT ![m] = IF alive[m] THEN {} ELSE @]
  /\ UNCHANGED <<topology, table, mode, master, listed, found, joined, tries, bounds>>

----------------------------------------------------------------------------
\* The environment.

\* A process is killed: nothing is deregistered.
Kill(i) ==
  /\ pc[i] # "down" /\ pc' = [pc EXCEPT ![i] = "down"]
  /\ UNCHANGED <<topology, registry, mode, master, listed, found, joined, tries,
                 bounds>>

Crash(s) ==
  /\ alive[s] /\ crashes < MaxCrashes
  /\ alive' = [alive EXCEPT ![s] = FALSE]
  /\ crashes' = crashes + 1
  /\ UNCHANGED <<source, registry, process, starts, conf>>

\* A server comes back; a former master without slaves is attached to a
\* present one by its administrator.
Restart(s) ==
  /\ ~alive[s] /\ alive' = [alive EXCEPT ![s] = TRUE]
  /\ \/ UNCHANGED source
     \/ /\ source[s] = NoServer /\ SlavesOf(s) = {}
        /\ \E m \in Servers \ {s} : /\ source[m] = NoServer
                                    /\ source' = [source EXCEPT ![s] = m]
  /\ UNCHANGED <<registry, process, bounds>>

----------------------------------------------------------------------------
Register(i) ==
  UnregisterSlaves(i) \/ ClearMaster(i) \/ SelectRow(i) \/ InsertRow(i)
Monitor(i) ==
  DiscoverSlaves(i) \/ Suspect(i) \/ Reconnect(i) \/ FailOver(i) \/ GiveUp(i)
Leave(i) == Unregister(i) \/ Cleanup(i)

Step(i) == Register(i) \/ Monitor(i) \/ Leave(i)

Next ==
  \/ \E i \in Instances : Start(i) \/ Step(i) \/ Quit(i) \/ Kill(i)
  \/ \E s \in Servers : Crash(s) \/ Restart(s)

Spec == Init /\ [][Next]_vars
FairSpec == Spec /\ \A i \in Instances : WF_vars(Step(i))

----------------------------------------------------------------------------
\* Properties.

\* In its main loop and able to fail over.
Active(i) == pc[i] \in Monitoring /\ mode[i] # "fail"

\* Nothing but consoles, none of them forced.
OnlyConsoles == conf.daemons = {} /\ conf.forced = {}

\* The premise of one registration per topology: every server that has a
\* source has the master of the active instance.  A slave that a failover left
\* behind because it was down, and that comes back, is not of the topology.
OneTopology ==
  \A i \in Instances, s \in Servers : Active(i) => source[s] \in {master[i], NoServer}

\* At most one instance is ever ready to fail over from the same master.
\* register_instance: "If another console is already registered, this instance
\* becomes blocked".
AtMostOneActive ==
  OnlyConsoles =>
    \A i, j \in Instances :
      Active(i) /\ Active(j) /\ master[i] = master[j] => i = j

\* The row of an active instance is there as long as its master answers, and
\* no other row is: a later instance will be blocked.
ActiveIsRegistered ==
  OnlyConsoles => \A i \in Instances : Active(i) => rows[master[i]] = {i}

\* A failover re-points no slave that another instance has moved already: the
\* slaves it attaches replicated from the master it gave up.
FailsOverOwnSlaves ==
 [][OnlyConsoles => \A i \in Instances, s \in Servers :
       pc[i] = "failover" /\ pc'[i] = "clean" /\ source'[s] # source[s]
         => source[s] = master[i]]_vars

\* The slaves in the list of an instance that answer are never all left
\* without a way to fail over: an active instance whose master stays down
\* promotes another server or leaves.
FailoverHappens ==
  \A i \in Instances, s \in Servers :
    (Active(i) /\ master[i] = s) ~>
       (alive[s] \/ master[i] # s \/ ~Active(i))

\* A blocked instance never changes the registration of the active one:
\* "When a console quits, it deregisters itself" (mysqlfailover.1).
BlockedLeavesOthers ==
  [][\A i \in Instances, s \in Servers :
       mode[i] = "fail" /\ pc'[i] # pc[i] => rows' = rows]_vars
=============================================================================
