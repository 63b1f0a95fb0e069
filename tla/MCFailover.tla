------------------------------ MODULE MCFailover ------------------------------
(* Failover on three slaves and two transactions. *)
EXTENDS Failover

CONSTANTS m, s1, s2, s3

MCSlaveList  == <<s1, s2, s3>>
MCTwoSlaves  == <<s1, s2>>
MCCandidates == <<s2>>
NoCandidates == <<>>

Plain == [force |-> FALSE, pedantic |-> FALSE, stopOnError |-> FALSE,
          strict |-> FALSE, gtid |-> Servers, binlog |-> Servers,
          rplUser |-> Servers, sqlStopped |-> {}, readOnly |-> {}]

PlainConfs == {Plain}

\* Every branch on the options and the servers' configuration.
AllConfs ==
  {Plain,
   [Plain EXCEPT !.stopOnError = TRUE],
   [Plain EXCEPT !.stopOnError = TRUE, !.force = TRUE, !.rplUser = {}],
   [Plain EXCEPT !.pedantic = TRUE, !.sqlStopped = {s1}],
   [Plain EXCEPT !.sqlStopped = {s1}, !.readOnly = {s2}],
   [Plain EXCEPT !.gtid = Servers \ {s1}],
   [Plain EXCEPT !.strict = TRUE, !.rplUser = Servers \ {s2}],
   [Plain EXCEPT !.rplUser = Servers \ {s2}]}

ReadOnlyConfs == {[Plain EXCEPT !.readOnly = {s1}]}
=============================================================================
