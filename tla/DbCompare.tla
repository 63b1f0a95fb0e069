------------------------------ MODULE DbCompare ------------------------------
(***************************************************************************)
(* The data check of mysqldbcompare for one table: check_consistency of      *)
(* common/dbcompare.py with _setup_compare, _make_sum_rows,                  *)
(* _get_changed_rows_span, _get_rows_span and transform_data, while clients  *)
(* write to the tables.  A table is a function from keys to values.           *)
(* Rows are told apart by compare_sign, the MD5 of CONCAT_WS('/', columns),  *)
(* which skips NULLs and escapes no '/': rows of different values may have    *)
(* the same Sign.  MD5 and the sums of a span's signs are taken not to        *)
(* collide, and pk_hash to identify the key: one column, the table's first,   *)
(* without a '/' (a number, say), so that signs of different keys differ.     *)
(* The index is the first, PRIMARY, that of an UPDATE's WHERE: --use-indexes  *)
(* is left out.                                                               *)
(***************************************************************************)
EXTENDS Integers, Sequences, FiniteSets, SequencesExt

CONSTANTS
  DcKeys,         \* the keys, a sequence in the order of pk_hash
  DcValues,       \* values of the other columns
  NoRow,          \* the table has no row with the key
  Sign,           \* [values -> the strings that are digested as compare_sign]
  SpanOf,         \* [keys -> spans]: the first digits of their pk_hash
  Spans,          \* the spans, a sequence in their order
  DcConfs,        \* the calls: [checksum, changesFor, reverse]
  DcStarts,       \* what the tables may hold at first, a subset of [Sides -> DcTable]
  MaxWrites       \* bound on the rows clients write meanwhile

DcKeySet == ToSet(DcKeys)
Sides == {1, 2}
Other(side) == 3 - side
DcTable == [DcKeySet -> DcValues \cup {NoRow}]

ASSUME DcAssumption ==
  /\ DcKeys \in Seq(DcKeySet) /\ IsInjective(DcKeys)
  /\ Spans \in Seq(ToSet(Spans)) /\ IsInjective(Spans)
  /\ SpanOf \in [DcKeySet -> ToSet(Spans)]
  /\ NoRow \notin DcValues /\ DcValues \subseteq DOMAIN Sign
  /\ DcStarts \subseteq [Sides -> DcTable]
  /\ \A c \in DcConfs : c.checksum \in BOOLEAN /\ c.changesFor \in Sides /\ c.reverse \in BOOLEAN

VARIABLES
  dcConf,         \* the call
  dcPhase,        \* where check_consistency stands
  tables,         \* [Sides -> DcTable]
  touched,        \* keys clients wrote to since the start
  checksum1,      \* CHECKSUM TABLE of the first table: its rows
  compareTable,   \* [Sides -> DcTable]: the rows that were digested
  directions,     \* sides whose changes are still to be generated
  reads,          \* the rows still to be read (DcReads)
  changedRows,    \* [Sides -> Seq([key, value])]: rows to UPDATE, in the order read
  extraRows,      \* [Sides -> Seq([key, value])]: rows to DELETE and INSERT
  output          \* [Sides -> statements generated for that side]

dcReading == <<directions, reads, changedRows, extraRows>>
dcVars == <<dcConf, dcPhase, tables, touched, checksum1, compareTable, dcReading, output>>

DcRows == [key : DcKeySet, value : DcValues]
Ops == [op : {"update", "delete", "insert"}, old : DcRows, new : DcRows]
DcReads == [side : Sides, key : DcKeySet, span : BOOLEAN, extra : BOOLEAN]
NoRows == [s \in Sides |-> <<>>]

DcTypeOK ==
  /\ dcConf \in DcConfs
  /\ dcPhase \in {"start", "checksum", "sum1", "sum2", "spans", "read", "done", "raised"}
  /\ tables \in [Sides -> DcTable] /\ touched \subseteq DcKeySet
  /\ checksum1 \in DcTable /\ compareTable \in [Sides -> DcTable]
  /\ directions \subseteq Sides /\ reads \subseteq DcReads
  /\ changedRows \in [Sides -> Seq(DcRows)] /\ extraRows \in [Sides -> Seq(DcRows)]
  /\ output \in [Sides -> Seq(Ops)]

DcInit ==
  /\ dcConf \in DcConfs /\ tables \in DcStarts
  /\ dcPhase = (IF dcConf.checksum THEN "start" ELSE "sum1")
  /\ touched = {} /\ checksum1 = tables[1] /\ compareTable = tables
  /\ directions = {} /\ reads = {}
  /\ changedRows = NoRows /\ extraRows = NoRows /\ output = NoRows

DcGo(from, to) == dcPhase = from /\ dcPhase' = to /\ UNCHANGED <<dcConf, tables, touched>>

\* CHECKSUM TABLE on one server, then on the other.
Checksum1 ==
  /\ DcGo("start", "checksum")
  /\ checksum1' = tables[1]
  /\ UNCHANGED <<compareTable, dcReading, output>>

Checksum2 ==
  /\ DcGo("checksum", IF tables[2] = checksum1 THEN "done" ELSE "sum1")
  /\ UNCHANGED <<checksum1, compareTable, dcReading, output>>

\* _setup_compare and _make_sum_rows: INSERT ... SELECT into the temporary table.
MakeSumRows(side) ==
  /\ DcGo(<<"sum1", "sum2">>[side], <<"sum2", "spans">>[side])
  /\ compareTable' = [compareTable EXCEPT ![side] = tables[side]]
  /\ UNCHANGED <<checksum1, dcReading, output>>

----------------------------------------------------------------------------
\* Rows, or their absence, that compare_sign does not tell apart.
SameSign(u, v) == u = v \/ (u # NoRow /\ v # NoRow /\ Sign[u] = Sign[v])

\* What the temporary tables say of a span, and of its rows.
InSpan(side, p) == {k \in DcKeySet : SpanOf[k] = p /\ compareTable[side][k] # NoRow}
Sums(side, p) == {<<k, Sign[compareTable[side][k]]>> : k \in InSpan(side, p)}
HasSpan(side, p) == InSpan(side, p) # {}
Differs(p) == Sums(1, p) # Sums(2, p)

\* Spans of both tables; each table's own.
ChangedSpans == {p \in ToSet(Spans) : Differs(p) /\ HasSpan(1, p) /\ HasSpan(2, p)}
ExtraSpans(side) == {p \in ToSet(Spans) : HasSpan(side, p) /\ ~HasSpan(Other(side), p)}

\* The rows of the changed spans whose compare_sign the other table lacks, with
\* whether the other table lacks their key, too.
SpanReads(side) ==
  LET other == compareTable[Other(side)] IN
  {[side |-> side, key |-> k, span |-> TRUE, extra |-> other[k] = NoRow] :
     k \in {k \in DcKeySet : /\ SpanOf[k] \in ChangedSpans /\ k \in InSpan(side, SpanOf[k])
                            /\ ~SameSign(compareTable[side][k], other[k])}}

ExtraReads(side) ==
  {[side |-> side, key |-> k, span |-> FALSE, extra |-> TRUE] :
     k \in {k \in DcKeySet : SpanOf[k] \in ExtraSpans(side) /\ k \in InSpan(side, SpanOf[k])}}

\* Fault: spans that only the other table has are forgotten.
RowsToReadHere(d) == SpanReads(d) \cup SpanReads(Other(d)) \cup ExtraReads(d)

\* The rows _generate_data_diff_output reads for the changes to side d,
RowsToRead(d) ==
  SpanReads(d) \cup SpanReads(Other(d)) \cup ExtraReads(d) \cup ExtraReads(Other(d))

\* and when: the changed spans one after the other, in each the rows of d first,
\* then the spans of d alone, then those of the other side.
PlaceIn(seq, x) == CHOOSE i \in DOMAIN seq : seq[i] = x
TurnOf(d, r) ==
  <<IF r.span THEN 0 ELSE IF r.side = d THEN 1 ELSE 2,
    PlaceIn(Spans, SpanOf[r.key]), IF r.side = d THEN 0 ELSE 1, PlaceIn(DcKeys, r.key)>>
Precedes(t, u) == \E i \in 1..4 : t[i] < u[i] /\ \A j \in 1..(i - 1) : t[j] = u[j]

WantedSides == IF dcConf.reverse THEN Sides ELSE {dcConf.changesFor}
NextSide(ds) == IF 1 \in ds THEN 1 ELSE 2

CompareSpans ==
  LET differ == \E i \in DOMAIN Spans : Differs(Spans[i])
  IN  /\ DcGo("spans", IF differ THEN "read" ELSE "done")
      /\ directions' = IF differ THEN WantedSides ELSE {}
      /\ reads' = IF differ THEN RowsToRead(NextSide(WantedSides)) ELSE {}
      /\ UNCHANGED <<checksum1, compareTable, changedRows, extraRows, output>>

\* One SELECT of a row by its key, in the view the connection has or opens: the
\* row may be older than the table.  A row of a changed span must be there.
ReadRow ==
  LET d == NextSide(directions) IN
  /\ dcPhase = "read"
  /\ \E r \in reads :
       /\ \A q \in reads \ {r} : Precedes(TurnOf(d, r), TurnOf(d, q))
       /\ reads' = reads \ {r}
       /\ \E v \in {compareTable[r.side][r.key], tables[r.side][r.key]} :
            LET row == [key |-> r.key, value |-> v]
                added(rows) == [rows EXCEPT ![r.side] = Append(@, row)]
            IN  \/ /\ v = NoRow /\ r.span
                   /\ dcPhase' = "raised" /\ UNCHANGED <<changedRows, extraRows>>
                \/ /\ v = NoRow /\ ~r.span
                   /\ UNCHANGED <<dcPhase, changedRows, extraRows>>
                \/ /\ v # NoRow /\ UNCHANGED dcPhase
                   /\ changedRows' = IF r.extra THEN changedRows ELSE added(changedRows)
                   /\ extraRows' = IF r.extra THEN added(extraRows) ELSE extraRows
  /\ UNCHANGED <<dcConf, tables, touched, checksum1, compareTable, directions, output>>

\* transform_data.  UPDATE pairs the i-th rows of the two sides.
TransformData(d) ==
  LET o == Other(d)
      Op(op, old, new) == [op |-> op, old |-> old, new |-> new]
  IN  [i \in DOMAIN changedRows[d] |-> Op("update", changedRows[d][i], changedRows[o][i])]
        \o [i \in DOMAIN extraRows[d] |-> Op("delete", extraRows[d][i], extraRows[d][i])]
        \o [i \in DOMAIN extraRows[o] |-> Op("insert", extraRows[o][i], extraRows[o][i])]

GenerateOutput ==
  LET d == NextSide(directions)
      rest == directions \ {d}
  IN  /\ reads = {} /\ DcGo("read", IF rest = {} THEN "done" ELSE "read")
      /\ output' = [output EXCEPT ![d] = TransformData(d)]
      /\ directions' = rest
      /\ reads' = IF rest = {} THEN {} ELSE RowsToRead(NextSide(rest))
      /\ changedRows' = NoRows /\ extraRows' = NoRows
      /\ UNCHANGED <<checksum1, compareTable>>

ClientWrites(side, k, v) ==
  /\ dcPhase \notin {"done", "raised"}
  /\ Cardinality(touched \cup {k}) <= MaxWrites
  /\ tables' = [tables EXCEPT ![side][k] = v]
  /\ touched' = touched \cup {k}
  /\ UNCHANGED <<dcConf, dcPhase, checksum1, compareTable, dcReading, output>>

DcTool ==
  \/ Checksum1 \/ Checksum2 \/ (\E s \in Sides : MakeSumRows(s))
  \/ CompareSpans \/ ReadRow \/ GenerateOutput
DcNext ==
  \/ DcTool
  \/ \E s \in Sides, k \in DcKeySet, v \in DcValues \cup {NoRow} : ClientWrites(s, k, v)
DcSpec == DcInit /\ [][DcNext]_dcVars

----------------------------------------------------------------------------
\* Properties.

\* The key of a statement: UPDATE sets what differs WHERE the key is the new row's.
Target(st) == IF st.op = "delete" THEN st.old.key ELSE st.new.key

\* An UPDATE with nothing to set is no SQL; an INSERT needs a key that is not there.
Fails(t, st) ==
  \/ st.op = "update" /\ st.old.value = st.new.value
  \/ st.op = "insert" /\ t[st.new.key] # NoRow

\* A statement as a server executes it,
Executed(t, st) ==
  IF Fails(t, st) \/ (st.op = "update" /\ t[st.new.key] = NoRow) THEN t
  ELSE [t EXCEPT ![Target(st)] = IF st.op = "delete" THEN NoRow ELSE st.new.value]

\* and the tables a list of them makes, one after the other, as mysql --force runs it.
TablesOf(t, statements) ==
  LET run[i \in 0..Len(statements)] ==
        IF i = 0 THEN t ELSE Executed(run[i - 1], statements[i])
  IN  run
After(t, statements) == TablesOf(t, statements)[Len(statements)]

\* The statements of --difftype=sql turn the table of --changes-for into the other
\* one, rows that share a span or are missing included: in every row no client
\* wrote to meanwhile, whatever clients did to the others.  They leave alone the
\* rows whose sign does not tell them apart.  None of them fails on a row no client
\* wrote to: if clients rest, the whole script runs, with --force or without.
DiffMakesEqual ==
  dcPhase = "done" => \A d \in WantedSides :
    /\ \A k \in DcKeySet \ touched :
         After(tables[d], output[d])[k] =
           IF SameSign(tables[1][k], tables[2][k]) THEN tables[d][k] ELSE tables[Other(d)][k]
    /\ \A i \in DOMAIN output[d] :
         Target(output[d][i]) \notin touched =>
           ~Fails(TablesOf(tables[d], output[d])[i - 1], output[d][i])

\* What the report promises: the other table in every such row.
DiffMakesAllEqual ==
  dcPhase = "done" => \A d \in WantedSides, k \in DcKeySet \ touched :
    After(tables[d], output[d])[k] = tables[Other(d)][k]

\* A comparison ends with a report even if rows go meanwhile: res[0] raises.
NeverRaises == dcPhase # "raised"
=============================================================================
