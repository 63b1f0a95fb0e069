------------------------------ MODULE Promotion ------------------------------
(***************************************************************************)
(* What a failover promises, without the steps that achieve it: servers     *)
(* fail and receive transactions, at most one server is ever promoted, it   *)
(* then has everything the members still up have, and from then on they     *)
(* receive nothing it does not have.                                        *)
(***************************************************************************)
CONSTANTS Servers, Trx, NoServer

VARIABLES
  up,        \* the members that still answer
  has,       \* [Servers -> SUBSET Trx] : the transactions each server executed
  primary    \* the promoted server, or NoServer

vars == <<up, has, primary>>

Init ==
  /\ up \in SUBSET Servers
  /\ has \in [Servers -> SUBSET Trx]
  /\ primary = NoServer

Fail(s) ==
  /\ s \in up
  /\ up' = up \ {s}
  /\ UNCHANGED <<has, primary>>

Receive(s, t) ==
  /\ primary # NoServer /\ s \in up \ {primary} => t \in has[primary]
  /\ has' = [has EXCEPT ![s] = @ \cup {t}]
  /\ UNCHANGED <<up, primary>>

Promote(p) ==
  /\ primary = NoServer
  /\ \A s \in up : has[s] \subseteq has[p]
  /\ primary' = p
  /\ UNCHANGED <<up, has>>

Next == \E s \in Servers : Fail(s) \/ Promote(s) \/ \E t \in Trx : Receive(s, t)

Spec == Init /\ [][Next]_vars
=============================================================================
