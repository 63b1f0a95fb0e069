----------------------------- MODULE TopologyMap -----------------------------
(***************************************************************************)
(* mysqlrplshow: TopologyMap.generate_topology_map of topology_map.py, which *)
(* walks from a master to its slaves and from each slave to its own, while   *)
(* servers go down.  A server is known by the address slaves register; the   *)
(* recursion of _get_slaves is the stack tmStack.                            *)
(***************************************************************************)
EXTENDS Integers, Sequences, SequencesExt

CONSTANTS
  TmHosts,        \* addresses
  NoHost,         \* a slave registered without --report-host
  TmSeed,         \* the address given to --master
  TmListings,     \* SHOW SLAVE HOSTS: functions [TmHosts -> Seq(TmHosts \cup {NoHost})]
  TmConfs         \* the calls: [recurse, maxDepth], maxDepth -1 when not given

ASSUME TmAssumption ==
  /\ NoHost \notin TmHosts /\ TmSeed \in TmHosts
  /\ TmListings \subseteq [TmHosts -> Seq(TmHosts \cup {NoHost})]
  /\ \A c \in TmConfs : c.recurse \in BOOLEAN /\ c.maxDepth \in Nat \cup {-1}

VARIABLES
  tmConf,         \* the call
  listing,        \* what each server's SHOW SLAVE HOSTS gives, sorted
  tmDown,         \* servers that do not answer
  tmPhase,        \* "walking", "done" or "error"
  entering,       \* the address _get_slaves is called with, or NoHost
  tmStack,        \* its calls in progress: [master, left, depth], last first;
                  \* left are the places in the listing still to be visited
  mastersFound,   \* masters_found
  mapped          \* the map: (master, slave) pairs

tmVars == <<tmConf, listing, tmDown, tmPhase, entering, tmStack, mastersFound, mapped>>

TmFrames == [master : TmHosts, left : SUBSET Nat, depth : Nat]

TmTypeOK ==
  /\ tmConf \in TmConfs /\ listing \in TmListings /\ tmDown \subseteq TmHosts
  /\ tmPhase \in {"walking", "done", "error"}
  /\ entering \in TmHosts \cup {NoHost}
  /\ tmStack \in Seq(TmFrames) /\ mastersFound \in Seq(TmHosts)
  /\ mapped \subseteq TmHosts \X TmHosts

TmInit ==
  /\ tmConf \in TmConfs /\ listing \in TmListings /\ tmDown \in SUBSET TmHosts
  /\ tmPhase = "walking" /\ entering = TmSeed
  /\ tmStack = <<>> /\ mastersFound = <<>> /\ mapped = {}

\* Master.get_slaves: the loop ends at the first slave without a host; a slave
\* that cannot be reached is left out with a warning.
GetSlaves(m) ==
  {i \in DOMAIN listing[m] :
     listing[m][i] \notin tmDown /\ \A j \in 1..i : listing[m][j] # NoHost}

\* _connect and the head of _get_slaves.  An error ends the whole walk.
ConnectMaster ==
  /\ tmPhase = "walking" /\ entering # NoHost
  /\ IF entering \in tmDown
     THEN tmPhase' = "error" /\ UNCHANGED <<tmStack, mastersFound>>
     ELSE /\ mastersFound' = Append(mastersFound, entering)
          /\ tmStack' = <<[master |-> entering, left |-> GetSlaves(entering), depth |-> 0]>>
                          \o tmStack
          /\ UNCHANGED tmPhase
  /\ entering' = NoHost
  /\ UNCHANGED <<tmConf, listing, tmDown, mapped>>

\* Fault: only the masters on the way to this one are looked up.
RecursesOffPath(frame, slave) ==
  /\ tmConf.recurse /\ \A i \in DOMAIN tmStack : tmStack[i].master # slave
  /\ tmConf.maxDepth = -1 \/ frame.depth < tmConf.maxDepth

\* "depth" counts the slaves of this master that were recursed into.
Recurses(frame, slave) ==
  /\ tmConf.recurse /\ ~Contains(mastersFound, slave)
  /\ tmConf.maxDepth = -1 \/ frame.depth < tmConf.maxDepth

\* The loop over the slaves of the master on top.
VisitSlave ==
  LET frame == Head(tmStack) IN
  /\ tmPhase = "walking" /\ entering = NoHost /\ tmStack # <<>>
  /\ \E i \in frame.left :
       LET slave == listing[frame.master][i]
           deeper == Recurses(frame, slave)
       IN  /\ \A j \in frame.left : i <= j
           /\ mapped' = mapped \cup {<<frame.master, slave>>}
           /\ entering' = IF deeper THEN slave ELSE NoHost
           /\ tmStack' = <<[frame EXCEPT !.left = @ \ {i},
                                        !.depth = IF deeper THEN @ + 1 ELSE @]>>
                           \o Tail(tmStack)
  /\ UNCHANGED <<tmConf, listing, tmDown, tmPhase, mastersFound>>

ReturnTopology ==
  /\ tmPhase = "walking" /\ entering = NoHost /\ tmStack # <<>>
  /\ Head(tmStack).left = {}
  /\ tmStack' = Tail(tmStack)
  /\ tmPhase' = IF tmStack' = <<>> THEN "done" ELSE tmPhase
  /\ UNCHANGED <<tmConf, listing, tmDown, entering, mastersFound, mapped>>

ServerLost(h) ==
  /\ tmPhase = "walking" /\ h \notin tmDown
  /\ tmDown' = tmDown \cup {h}
  /\ UNCHANGED <<tmConf, listing, tmPhase, entering, tmStack, mastersFound, mapped>>

TmNext ==
  \/ ConnectMaster \/ VisitSlave \/ ReturnTopology
  \/ \E h \in TmHosts : ServerLost(h)

TmSpec == TmInit /\ [][TmNext]_tmVars

----------------------------------------------------------------------------
\* Properties.

\* The slaves a walk that ended could have been told of by m.
Told(m) == {s \in ToSet(listing[m]) : s # NoHost}
TmReach == {h \in TmHosts : \A S \in SUBSET TmHosts :
              TmSeed \in S /\ (\A m \in S : Told(m) \subseteq S) => h \in S}

\* A recursive walk without --max-depth expands every master once, whatever
\* circles and joins the topology has, and, when it ends and no server was lost,
\* the map is the whole topology that can be reached from the seed.
TopologyMapped ==
  /\ IsInjective(mastersFound)
  /\ tmPhase = "done" /\ tmConf.recurse /\ tmConf.maxDepth = -1 /\ tmDown = {}
     /\ (\A m \in TmReach : ~Contains(listing[m], NoHost)) =>
       mapped = {link \in TmReach \X TmHosts : link[2] \in Told(link[1])}
=============================================================================
