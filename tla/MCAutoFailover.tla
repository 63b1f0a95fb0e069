----------------------------- MODULE MCAutoFailover -----------------------------
(* Two instances of mysqlfailover over a master and two slaves. *)
EXTENDS AutoFailover

CONSTANTS c1, c2, m1, s1, s2

Consoles == [daemons |-> {}, forced |-> {}]
AllConfs == {Consoles, [daemons |-> {c2}, forced |-> {c1}]}
ADaemon  == {[daemons |-> {c2}, forced |-> {}]}
=============================================================================
