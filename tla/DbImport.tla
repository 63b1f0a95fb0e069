------------------------------- MODULE DbImport ------------------------------
(***************************************************************************)
(* mysqldbimport: import_file of dbimport.py turns the rows of a file into   *)
(* statements and _exec_statements executes them, merging INSERTs under      *)
(* --bulk-insert; Table.make_bulk_insert of table.py groups the rows of the  *)
(* formats that are not SQL.                                                 *)
(*                                                                          *)
(* A row of the file is known by its position, and so are the statements     *)
(* made of it: a statement is the sequence of the rows it stands for.        *)
(***************************************************************************)
EXTENDS Integers, Sequences, SequencesExt

CONSTANTS
  ImFiles,        \* the files: sequences of [kind, tbl, size] (RowKinds)
  ImConfs,        \* the calls: [sql, bulk, import, engine, autocommit]
  MaxBulkInsert,  \* --max-bulk-insert
  MaxBulkValues,  \* _MAXBULK_VALUES
  PacketRoom      \* max_allowed_packet, in sizes of rows

RowKinds == {"rpl", "gtid", "basic", "def", "begin", "row"}

ASSUME ImAssumption ==
  /\ \A f \in ImFiles : f \in Seq(ToSet(f)) /\ \A p \in DOMAIN f : f[p].kind \in RowKinds
  /\ \A c \in ImConfs : c.sql \in BOOLEAN /\ c.bulk \in BOOLEAN
  /\ MaxBulkInsert \in Nat /\ MaxBulkValues \in Nat \ {0} /\ PacketRoom \in Nat

VARIABLES
  imFile, imConf, \* the file and the call
  imPhase,        \* "read", "exec", "done" or "error"
  imPos,          \* next row, or next statement
  definitions,    \* definition rows not yet made into statements
  tableRows,      \* table_rows: data rows not yet made into statements
  statements,     \* the statements
  bulkValues,     \* rows of the INSERT that is being merged
  bulkCount,      \* "count"
  executed,       \* statements executed
  kept            \* length of its prefix that is committed

imReader == <<definitions, tableRows, statements>>
imExec == <<bulkValues, bulkCount, executed, kept>>
imVars == <<imFile, imConf, imPhase, imPos, imReader, imExec>>

Positions == DOMAIN imFile
Kind(st) == imFile[st[1]].kind
Insert(st) == Kind(st) = "row"

ImTypeOK ==
  /\ imFile \in ImFiles /\ imConf \in ImConfs
  /\ imPhase \in {"read", "exec", "done", "error"} /\ imPos \in Nat \ {0}
  /\ {definitions, tableRows, bulkValues} \subseteq Seq(Positions)
  /\ {statements, executed} \subseteq Seq(Seq(Positions))
  /\ bulkCount \in 0..(MaxBulkInsert + 1) /\ kept \in 0..Len(executed)

ImInit ==
  /\ imFile \in ImFiles /\ imConf \in ImConfs
  /\ imConf.sql => \A p \in Positions : Kind(<<p>>) # "basic"  \* SET is a "sql" row
  /\ imPhase = "read" /\ imPos = 1
  /\ definitions = <<>> /\ tableRows = <<>> /\ statements = <<>>
  /\ bulkValues = <<>> /\ bulkCount = 0 /\ executed = <<>> /\ kept = 0

----------------------------------------------------------------------------
\* Table.make_bulk_insert: acc is its local state.  A row that does not fit ends
\* the INSERT and waits in val_str for the next row to begin another.
Acc(cur, count, size, val, out) ==
  [cur |-> cur, count |-> count, size |-> size, val |-> val, out |-> out]
Begun(acc) ==
  IF acc.count > 0 THEN acc
  ELSE Acc(acc.val, Len(acc.val), IF acc.val = <<>> THEN 0 ELSE imFile[acc.val[1]].size,
           acc.val, acc.out)
BulkStep(acc, row) ==
  LET a == Begun(acc)
      next == a.size + imFile[row].size
  IN  IF a.count >= MaxBulkValues \/ next > PacketRoom
      THEN Acc(a.cur, 0, a.size, <<row>>, Append(a.out, a.cur))
      ELSE Acc(Append(a.cur, row), a.count + 1, next, <<row>>, a.out)
BulkStart == Acc(<<>>, 0, 0, <<>>, <<>>)
MakeBulkInsert(rows) ==
  LET run[i \in 0..Len(rows)] == IF i = 0 THEN BulkStart ELSE BulkStep(run[i - 1], rows[i])
      end == run[Len(rows)]
  IN  IF end.count > 0 THEN Append(end.out, end.cur) ELSE end.out

Single(rows) == [i \in DOMAIN rows |-> <<rows[i]>>]

----------------------------------------------------------------------------
\* import_file, one row of the file at a time.
Row == imFile[imPos]
Reads(kinds) ==
  /\ imPhase = "read" /\ imPos <= Len(imFile) /\ Row.kind \in kinds
  /\ imPos' = imPos + 1
  /\ UNCHANGED <<imFile, imConf, imPhase, imExec>>
Wants(part) == imConf.import \in {part, "both"}

\* Replication and GTID commands go straight to the statements.
ReadReplicationCommand ==
  /\ Reads({"rpl", "gtid"})
  /\ statements' = Append(statements, <<imPos>>)
  /\ UNCHANGED <<definitions, tableRows>>

\* SET FOREIGN_KEY_CHECKS: the data rows before it are processed first.
ReadBasicCommand ==
  /\ Reads({"basic"})
  /\ statements' = Append(statements \o MakeBulkInsert(tableRows), <<imPos>>)
  /\ tableRows' = <<>>
  /\ UNCHANGED definitions

ReadDefinition ==
  /\ Reads({"def"})
  /\ IF ~Wants("definitions") THEN UNCHANGED <<definitions, statements>>
     ELSE IF imConf.sql
     THEN statements' = Append(statements, <<imPos>>) /\ UNCHANGED definitions
     ELSE definitions' = Append(definitions, imPos) /\ UNCHANGED statements
  /\ UNCHANGED tableRows

\* The first row after definitions makes them into statements.
ReadData ==
  LET flushed == statements \o Single(definitions)
      grouped == Wants("data") /\ ~imConf.sql /\ imConf.bulk
  IN  /\ Reads({"begin", "row"})
      /\ definitions' = <<>>
      /\ \/ /\ Row.kind = "begin" /\ grouped
            /\ statements' = flushed \o MakeBulkInsert(tableRows) /\ tableRows' = <<>>
         \/ /\ Row.kind = "row" /\ grouped
            /\ statements' = flushed /\ tableRows' = Append(tableRows, imPos)
         \/ /\ Row.kind = "row" /\ Wants("data") /\ ~grouped
            /\ statements' = Append(flushed, <<imPos>>) /\ UNCHANGED tableRows
         \/ /\ ~Wants("data") \/ (Row.kind = "begin" /\ ~grouped)
            /\ statements' = flushed /\ UNCHANGED tableRows

\* The end of the file.
ReadEnd ==
  /\ imPhase = "read" /\ imPos > Len(imFile)
  /\ imPhase' = "exec" /\ imPos' = 1
  /\ statements' = statements \o Single(definitions) \o MakeBulkInsert(tableRows)
  /\ definitions' = <<>> /\ tableRows' = <<>>
  /\ UNCHANGED <<imFile, imConf, imExec>>

----------------------------------------------------------------------------
\* _exec_statements: what one statement makes it execute now, and the values it
\* keeps back.  _parse_insert_statement takes an INSERT of one row apart.
Pending == IF bulkValues = <<>> THEN <<>> ELSE <<bulkValues>>
Does(list, values, count) == [list |-> list, values |-> values, count |-> count]
SameInsert(st) == imFile[st[1]].tbl = imFile[bulkValues[1]].tbl

\* Fault: --max-bulk-insert is not looked at.
MergeWithoutLimit(st) ==
  IF bulkValues = <<>> THEN Does(<<>>, st, bulkCount + 1)
  ELSE IF ~SameInsert(st) THEN Does(Pending, st, 1)
  ELSE Does(<<>>, bulkValues \o st, bulkCount + 1)

\* A full INSERT is executed and the next one starts with a count of 0.
Merge(st) ==
  IF bulkValues = <<>> THEN Does(<<>>, st, bulkCount + 1)
  ELSE IF ~SameInsert(st) THEN Does(Pending, st, 1)
  ELSE IF bulkCount >= MaxBulkInsert THEN Does(Pending, st, 0)
  ELSE Does(<<>>, bulkValues \o st, bulkCount + 1)

\* Fault: a statement that is no INSERT leaves the pending values behind.
TakeUnflushed(st) ==
  IF imConf.bulk /\ Insert(st) /\ Len(st) = 1 THEN Merge(st)
  ELSE Does(<<st>>, bulkValues, bulkCount)

\* CREATE TABLE with another engine is handled before --bulk-insert is looked at.
Take(st) ==
  IF imConf.engine /\ Kind(st) = "def" THEN Does(<<st>>, bulkValues, bulkCount)
  ELSE IF ~imConf.bulk THEN Does(<<st>>, <<>>, 0)
  ELSE IF Insert(st) /\ Len(st) = 1 THEN Merge(st)
  ELSE Does(Append(Pending, st), <<>>, 0)

\* Data definition commits what came before; SET SQL_LOG_BIN is committed.
Commits(list) ==
  imConf.autocommit \/ \E i \in DOMAIN list : Kind(list[i]) \in {"def", "gtid"}

ExecStatement ==
  LET does == Take(statements[imPos])
  IN  /\ imPhase = "exec" /\ imPos <= Len(statements)
      /\ imPos' = imPos + 1
      /\ executed' = executed \o does.list
      /\ bulkValues' = does.values /\ bulkCount' = does.count
      /\ kept' = IF Commits(does.list) THEN Len(executed') ELSE kept
      /\ UNCHANGED <<imFile, imConf, imPhase, imReader>>

\* The last bulk INSERT and the commit.
ExecEnd ==
  /\ imPhase = "exec" /\ imPos > Len(statements)
  /\ imPhase' = "done"
  /\ executed' = executed \o Pending /\ bulkValues' = <<>>
  /\ kept' = Len(executed')
  /\ UNCHANGED <<imFile, imConf, imPos, imReader, bulkCount>>

\* A statement fails: the import ends, the connection rolls back.
ExecFails ==
  /\ imPhase = "exec" /\ imPhase' = "error"
  /\ executed' = SubSeq(executed, 1, kept)
  /\ UNCHANGED <<imFile, imConf, imPos, imReader, bulkValues, bulkCount, kept>>

ImNext ==
  \/ ReadReplicationCommand \/ ReadBasicCommand \/ ReadDefinition \/ ReadData
  \/ ReadEnd \/ ExecStatement \/ ExecEnd \/ ExecFails
ImSpec == ImInit /\ [][ImNext]_imVars

----------------------------------------------------------------------------
\* Properties.

RowsOf(list) == UNION {ToSet(list[i]) : i \in DOMAIN list}
Wanted(p) ==
  CASE imFile[p].kind = "def" -> Wants("definitions")
    [] imFile[p].kind = "row" -> Wants("data")
    [] imFile[p].kind = "begin" -> FALSE
    [] OTHER -> TRUE
\* Pairs of rows, p before q in the file, that must not be executed the other way
\* round.  With another engine CREATE TABLE may overtake INSERTs; in the other
\* formats definitions may overtake, and be overtaken by, what is not of their table.
Keeps(p, q) ==
  LET kinds == {imFile[p].kind, imFile[q].kind}
      own == kinds \subseteq {"def", "row"} /\ imFile[p].kind = "def" /\ imFile[p].tbl = imFile[q].tbl
  IN  IF imConf.sql THEN imConf.engine => own \/ "def" \notin kinds
      ELSE own \/ kinds \subseteq {"row", "basic"}

\* p may be executed before q; a statement, and a list of them, in order.
Fits(p, q) == p # q /\ (Keeps(q, p) => p < q)
AllFit(S, T) == \A p \in S, q \in T : Fits(p, q)
InOrder(st) == \A i, j \in DOMAIN st : i < j => Fits(st[i], st[j])
Ordered(list) ==
  /\ \A i \in DOMAIN list : InOrder(list[i])
  /\ \A i, j \in DOMAIN list : i < j => AllFit(ToSet(list[i]), ToSet(list[j]))

\* An import executes what the file says in the order of the file, no row twice,
\* however the INSERTs are merged.  When it ends well it has executed all of it, if
\* the file holds SQL or rows are not grouped: a group of rows of another format may
\* lose its last one (RowsAllImported).
ImportedInOrder ==
  /\ Ordered(executed)
  /\ imPhase = "done" /\ (imConf.sql \/ ~imConf.bulk) =>
       RowsOf(executed) = {p \in Positions : Wanted(p)}

\* "Reads data from a table (rows) and builds group INSERT statements for bulk
\* inserts" (make_bulk_insert): every row of an import that ended well is inserted.
RowsAllImported ==
  imPhase = "done" /\ Wants("data") =>
    {p \in Positions : imFile[p].kind = "row"} \subseteq RowsOf(executed)

\* "Process existing data rows to keep execution order": START SLAVE, at the end
\* of the file, is executed last.
ReplicationLast ==
  imPhase = "done" /\ executed # <<>> /\ imFile[Len(imFile)].kind = "rpl" =>
    Last(executed) = <<Len(imFile)>>
=============================================================================
