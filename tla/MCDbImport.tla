------------------------------ MODULE MCDbImport ------------------------------
(* A file of one format that is not SQL, imported with --bulk-insert.         *)
EXTENDS DbImport

ImRow(n) == [kind |-> "row", tbl |-> "t", size |-> n]
MCImFiles ==
  {<<[kind |-> "begin", tbl |-> "t", size |-> 0]>> \o [i \in 1..n |-> ImRow(s)] :
     n \in 1..5, s \in {1, 2}}
MCImConfs ==
  {[sql |-> FALSE, bulk |-> TRUE, import |-> i, engine |-> FALSE, autocommit |-> a] :
     i \in {"data", "both"}, a \in BOOLEAN}
=============================================================================
