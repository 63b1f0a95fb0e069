----------------------------- MODULE MCDataTools -----------------------------
(* The tools that read, move or compare data, one of them at a time, over     *)
(* small servers, tables and files.                                           *)
EXTENDS ServerCopy, BinlogAdmin, TopologyMap, ViewOrder, IndexCheck, DbImport, DbCompare

CONSTANTS tA, tB, s1, s2, h1, h2, h3, h4, v1, v2, v3, key1, key2, key3, valA, valB, valC

VARIABLE tool   \* the tool that runs
dtVars == <<tool, cpVars, blVars, tmVars, voVars, ixVars, imVars, dcVars>>

----------------------------------------------------------------------------
Call(kind, locking, rpl, workers, ansi) ==
  [kind |-> kind, locking |-> locking, rpl |-> rpl, workers |-> workers, ansi |-> ansi]
Lockings == {"snapshot", "lock-all", "no-locks"}
Rpls == {"none", "master", "slave"}
MCCpConfs ==
  {Call("copy", l, r, w, a) : l \in Lockings, r \in Rpls, w \in BOOLEAN, a \in BOOLEAN}
    \cup {Call("export", l, r, w, FALSE) : l \in Lockings, r \in Rpls, w \in BOOLEAN}
    \cup {Call("clone", l, "none", w, FALSE) : l \in Lockings, w \in BOOLEAN}

MCBlConfs == {[tool |-> t, target |-> 0] : t \in {"move", "purge", "standalone", "rotate"}}

\* A join, two circles, a slave without --report-host.
MCTmListings ==
  {[h \in TmHosts |-> CASE h = h1 -> a [] h = h2 -> b [] h = h3 -> c [] OTHER -> d] :
     a \in {<<h2, h3>>, <<h2, NoHost, h3>>}, b \in {<<>>, <<h1, h3>>, <<h4>>},
     c \in {<<>>, <<h4>>}, d \in {<<>>, <<h2>>}}
MCTmConfs == {[recurse |-> r, maxDepth |-> d] : r \in BOOLEAN, d \in {-1, 1}}

MCVoViews == <<v1, v2, v3>>
MCVoDefinitions ==
  [VoSet -> {<<{}, S>> : S \in SUBSET VoSet} \cup {<<{v3}, {v1}>>, <<{v3}>>}]

Column(c, s) == [col |-> c, sub |-> s]
Shapes == {<<Column("a", 0)>>, <<Column("b", 0)>>, <<Column("a", 0), Column("b", 0)>>,
           <<Column("b", 0), Column("a", 0)>>, <<Column("a", 10)>>}
Longer == <<Column("b", 0), Column("a", 0), Column("c", 0)>>
IxTab(t, e, p, is) ==
  [type |-> t, innodb |-> e, hasPrimary |-> p, indexes |-> is,
   pri |-> IF p THEN [i \in DOMAIN is[1] |-> is[1][i].col] ELSE <<>>]
Kinds == {<<"BTREE", e, p>> : e, p \in BOOLEAN} \cup {<<t, FALSE, FALSE>> : t \in {"HASH", "FULLTEXT"}}
IxTabs ==
  {IxTab(k[1], k[2], k[3], <<a, b, c>>) :
     k \in Kinds, a \in Shapes \ {<<Column("a", 10)>>}, b \in Shapes, c \in Shapes \cup {Longer}}
MCIxTables == IxTabs   \* TLC evaluates IxTabs once, a definition named in the .cfg each time
MCIxText == <<10, 9>>

\* Two tables and, between the data, SET FOREIGN_KEY_CHECKS or another table.
Line(k, t, n) == [kind |-> k, tbl |-> t, size |-> n]
Lines(t, ns) == <<Line("begin", t, 0)>> \o [i \in DOMAIN ns |-> Line("row", t, ns[i])]
ImFile(h, k, m, n) ==
  h \o <<Line("gtid", "", 0), Line("def", "t", 0), Line("def", "u", 0)>>
    \o Lines("t", m) \o k \o Lines("u", n) \o <<Line("gtid", "", 0)>> \o h
MCImFiles ==
  {ImFile(h, k, m, n) :
     h \in {<<>>, <<Line("rpl", "", 0)>>}, k \in {<<Line("basic", "", 0)>>, <<Line("def", "v", 0)>>},
     m \in {<<1, 1, 1, 1>>, <<1>>}, n \in {<<2, 2, 1>>, <<1, 1>>}}
ImCall(s, b, i, e) == [sql |-> s, bulk |-> b, import |-> i, engine |-> e, autocommit |-> b]
MCImConfs ==
  {ImCall(s, b, i, e) :
     s \in BOOLEAN, b \in BOOLEAN, i \in {"definitions", "data", "both"}, e \in BOOLEAN}
ImIdleConf == ImCall(FALSE, FALSE, "both", FALSE)

MCDcKeys == <<key1, key2, key3>>
MCSpanOf == [k \in {key1, key2, key3} |-> IF k = key3 THEN "span2" ELSE "span1"]
MCSpans == <<"span1", "span2">>
\* Columns (NULL, 'x') and ('x', NULL), say, are digested alike.
MCSign == [v \in {valA, valB, valC} |-> IF v = valC THEN valA ELSE v]
Rows(x, y, z) == [k \in DcKeySet |-> CASE k = key1 -> x [] k = key2 -> y [] OTHER -> z]
MCDcStarts ==
  {<<Rows(valA, valA, valA), Rows(valA, valA, valA)>>,
   <<Rows(valA, valA, valA), Rows(valB, valB, valC)>>,
   <<Rows(NoRow, valA, valA), Rows(valB, valC, NoRow)>>}
MCDcConfs ==
  {[checksum |-> TRUE, changesFor |-> 2, reverse |-> FALSE],
   [checksum |-> FALSE, changesFor |-> 1, reverse |-> TRUE]}

----------------------------------------------------------------------------
\* A tool that does not run is in one of its initial states.
CpIdle == cpConf = Call("copy", "snapshot", "none", FALSE, FALSE) /\ CpInit
BlIdle ==
  /\ blConf = [tool |-> "rotate", target |-> 0] /\ active = 1 /\ dumping = {}
  /\ reading = [s \in PurgeSlaves |-> 1] /\ BlInit
TmIdle ==
  /\ listing = [h \in TmHosts |-> IF h = h1 THEN <<h2, h3>> ELSE <<>>]
  /\ tmConf = [recurse |-> FALSE, maxDepth |-> -1] /\ tmDown = {} /\ TmInit
VoIdle == definition = [v \in VoSet |-> <<{}, {}>>] /\ VoInit
IxIdle == ixTable = IxTab("HASH", FALSE, FALSE, [i \in 1..3 |-> <<Column("a", 0)>>]) /\ IxInit
ImIdle == imFile = ImFile(<<>>, <<Line("def", "v", 0)>>, <<1>>, <<1, 1>>) /\ imConf = ImIdleConf /\ ImInit
DcIdle ==
  /\ dcConf = [checksum |-> TRUE, changesFor |-> 2, reverse |-> FALSE]
  /\ tables = [side \in Sides |-> Rows(valA, valA, valA)] /\ DcInit

DtInit ==
  \/ tool = "copy" /\ CpInit /\ BlIdle /\ TmIdle /\ VoIdle /\ IxIdle /\ ImIdle /\ DcIdle
  \/ tool = "binlog" /\ BlInit /\ CpIdle /\ TmIdle /\ VoIdle /\ IxIdle /\ ImIdle /\ DcIdle
  \/ tool = "map" /\ TmInit /\ CpIdle /\ BlIdle /\ VoIdle /\ IxIdle /\ ImIdle /\ DcIdle
  \/ tool = "views" /\ VoInit /\ CpIdle /\ BlIdle /\ TmIdle /\ IxIdle /\ ImIdle /\ DcIdle
  \/ tool = "indexes" /\ IxInit /\ CpIdle /\ BlIdle /\ TmIdle /\ VoIdle /\ ImIdle /\ DcIdle
  \/ tool = "import" /\ ImInit /\ CpIdle /\ BlIdle /\ TmIdle /\ VoIdle /\ IxIdle /\ DcIdle
  \/ tool = "compare" /\ DcInit /\ CpIdle /\ BlIdle /\ TmIdle /\ VoIdle /\ IxIdle /\ ImIdle

DtNext ==
  \/ /\ tool = "copy" /\ CpNext
     /\ UNCHANGED <<tool, blVars, tmVars, voVars, ixVars, imVars, dcVars>>
  \/ /\ tool = "binlog" /\ BlNext
     /\ UNCHANGED <<tool, cpVars, tmVars, voVars, ixVars, imVars, dcVars>>
  \/ /\ tool = "map" /\ TmNext
     /\ UNCHANGED <<tool, cpVars, blVars, voVars, ixVars, imVars, dcVars>>
  \/ /\ tool = "views" /\ VoNext
     /\ UNCHANGED <<tool, cpVars, blVars, tmVars, ixVars, imVars, dcVars>>
  \/ /\ tool = "indexes" /\ CheckPair
     /\ UNCHANGED <<tool, cpVars, blVars, tmVars, voVars, imVars, dcVars>>
  \/ /\ tool = "import" /\ ImNext
     /\ UNCHANGED <<tool, cpVars, blVars, tmVars, voVars, ixVars, dcVars>>
  \/ /\ tool = "compare" /\ DcNext
     /\ UNCHANGED <<tool, cpVars, blVars, tmVars, voVars, ixVars, imVars>>

DtSpec == DtInit /\ [][DtNext]_dtVars

\* Every variable of every tool keeps to its type.
TypeOK ==
  /\ tool \in {"copy", "binlog", "map", "views", "indexes", "import", "compare"}
  /\ CpTypeOK /\ BlTypeOK /\ TmTypeOK /\ VoTypeOK /\ IxTypeOK /\ ImTypeOK /\ DcTypeOK
=============================================================================
