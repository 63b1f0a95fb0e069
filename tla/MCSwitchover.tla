----------------------------- MODULE MCSwitchover -----------------------------
(* Switchover of a master and its slaves to the second of them. *)
EXTENDS Switchover

CONSTANTS m, s1, s2

MCSlaveList == <<s1, s2>>

Plain == [force |-> FALSE, demote |-> FALSE, connected |-> Servers,
          strayed |-> {}, gtid |-> Servers, viable |-> TRUE,
          rplUser |-> TRUE, sameUser |-> TRUE, newUser |-> FALSE]
Demote == [Plain EXCEPT !.demote = TRUE]

PlainConfs  == {Plain, Demote}
DemoteConfs == {Demote}

\* Every branch on the options and the servers' configuration.
AllConfs ==
  PlainConfs \cup
  {[Plain  EXCEPT !.viable = FALSE],
   [Demote EXCEPT !.viable = FALSE, !.force = TRUE],
   [Plain  EXCEPT !.rplUser = FALSE, !.newUser = TRUE, !.force = TRUE],
   [Demote EXCEPT !.newUser = TRUE],
   [Plain  EXCEPT !.sameUser = FALSE],
   [Plain  EXCEPT !.gtid = Servers \ {s1}],
   [Plain  EXCEPT !.strayed = {s1}],
   [Demote EXCEPT !.strayed = {s1}, !.force = TRUE],
   [Demote EXCEPT !.connected = Servers \ {s1}],
   [Demote EXCEPT !.connected = Servers \ {s2}]}
=============================================================================
