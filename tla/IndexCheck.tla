----------------------------- MODULE IndexCheck ------------------------------
(***************************************************************************)
(* mysqlindexcheck: Table.check_indexes of table.py and the Index class,     *)
(* which pair off the indexes of one type of a table and mark those that are *)
(* duplicate or redundant; then check_indexes lists, of an InnoDB table, those *)
(* that contain the columns of the clustered index.  With --show-drops each   *)
(* of the first gets a DROP and each of the second a DROP/ADD without those   *)
(* columns.  An index is the sequence of its columns, each with the length of *)
(* its prefix, 0 for the whole column.                                       *)
(***************************************************************************)
EXTENDS Integers, Sequences

CONSTANTS
  IxTables,       \* the tables: [type, innodb, hasPrimary, pri : Seq(names),
                  \* indexes : Seq(Seq([col, sub]))], PRIMARY first (Table.__append)
  IxText          \* prefix lengths, in the order of their texts

\* A list of one index is not checked.
ASSUME IxAssumption ==
  \A t \in IxTables :
    /\ t.type \in {"BTREE", "HASH", "RTREE", "FULLTEXT"}
    /\ t.innodb \in BOOLEAN /\ t.hasPrimary \in BOOLEAN
    /\ Len(t.indexes) \in Nat \ {0, 1} /\ DOMAIN t.indexes = 1..Len(t.indexes)
    /\ \A x \in DOMAIN t.indexes :
         Len(t.indexes[x]) \in Nat /\ DOMAIN t.indexes[x] = 1..Len(t.indexes[x])
    /\ t.hasPrimary => t.pri = [i \in DOMAIN t.indexes[1] |-> t.indexes[1][i].col]

VARIABLES
  ixTable,        \* the table
  ixOuter, ixInner,  \* positions of "index" and "idx"
  compared,       \* indexes marked as compared
  duplicateOf,    \* [indexes -> duplicate_of, 0 none]
  foundNow,       \* duplicates of the current "index"
  masterList      \* duplicates of those before it

ixVars == <<ixTable, ixOuter, ixInner, compared, duplicateOf, foundNow, masterList>>

Ixs == DOMAIN ixTable.indexes
Cols(x) == ixTable.indexes[x]
Primary(x) == ixTable.hasPrimary /\ x = 1

IxTypeOK ==
  /\ ixTable \in IxTables
  /\ ixOuter \in 1..(Len(ixTable.indexes) + 1) /\ ixInner \in Ixs
  /\ compared \subseteq Ixs /\ duplicateOf \in [Ixs -> Ixs \cup {0}]
  /\ foundNow \subseteq Ixs /\ masterList \subseteq Ixs

IxInit ==
  /\ ixTable \in IxTables /\ ixOuter = 1 /\ ixInner = 1
  /\ compared = {} /\ duplicateOf = [x \in Ixs |-> 0]
  /\ foundNow = {} /\ masterList = {}

\* Index.__cmp_columns: the lengths are compared as the texts the server sent.
TextLeq(m, n) ==
  \E i, j \in DOMAIN IxText : i <= j /\ IxText[i] = m /\ IxText[j] = n
CmpColumns(a, b) ==
  a.col = b.col /\ (b.sub = 0 \/ TextLeq(a.sub, b.sub))

\* Index.__check_column_list: a is a subset of b.
CheckColumnList(a, b) ==
  LET pairwise == \A i \in (DOMAIN a) \cap (DOMAIN b) : CmpColumns(a[i], b[i])
  IN  CASE ixTable.type = "BTREE" -> pairwise /\ Len(a) <= Len(b)
        [] ixTable.type = "FULLTEXT" ->
             \A i \in DOMAIN a : \E j \in DOMAIN b : CmpColumns(a[i], b[j])
        [] OTHER -> pairwise /\ Len(a) = Len(b)

IsDuplicate(idx, index) == CheckColumnList(Cols(idx), Cols(index))
ColumnSubparts(x) == \E i \in DOMAIN Cols(x) : Cols(x)[i].sub # 0

\* Fault: the marks are not kept.
MarkNothing(idx) == compared

\* Pairs with a prefix have to be looked at both ways.
MarkCompared(idx) == IF ColumnSubparts(idx) THEN compared ELSE compared \cup {idx}

\* One pair of Table.__check_index.  PRIMARY is never the one reported.
CheckPair ==
  LET index == ixOuter
      idx == ixInner
      hit == index # idx /\ index \notin compared /\ IsDuplicate(idx, index)
      loser == IF Primary(idx) THEN index ELSE idx
      new == hit /\ idx \notin masterList
  IN  /\ ixOuter \in Ixs
      /\ compared' = IF hit THEN MarkCompared(idx) ELSE compared
      /\ duplicateOf' = IF new THEN [duplicateOf EXCEPT ![loser] = IF loser = idx THEN index ELSE idx]
                        ELSE duplicateOf
      /\ LET found == foundNow \cup {x \in {loser} : new}
         IN  IF idx = Len(ixTable.indexes)
             THEN /\ ixOuter' = ixOuter + 1 /\ ixInner' = 1
                  /\ masterList' = masterList \cup found /\ foundNow' = {}
             ELSE /\ ixInner' = ixInner + 1 /\ foundNow' = found
                  /\ UNCHANGED <<ixOuter, masterList>>
      /\ UNCHANGED ixTable

\* __check_clustered_index_list: without a primary key every index is listed.
Clustered(x) ==
  /\ ixTable.innodb /\ ~Primary(x)
  /\ \A p \in DOMAIN ixTable.pri : \E i \in DOMAIN Cols(x) : Cols(x)[i].col = ixTable.pri[p]

\* get_remove_columns_statement adds an index on the other columns, without
\* their prefixes; InnoDB ends every secondary index with the primary key.
Rebuilt(x) ==
  LET whole(c) == [col |-> c, sub |-> 0]
      inPri(c) == \E p \in DOMAIN ixTable.pri : ixTable.pri[p] = c.col
      left == SelectSeq(Cols(x), LAMBDA c : ~inPri(c))
  IN  [i \in DOMAIN left |-> whole(left[i].col)]
        \o [p \in DOMAIN ixTable.pri |-> whole(ixTable.pri[p])]

\* What an index is after the statements of --show-drops; for one that is in
\* both lists the second fails.
LeftOf(x) == IF x \in masterList THEN <<>> ELSE IF Clustered(x) THEN Rebuilt(x) ELSE Cols(x)

IxSpec == IxInit /\ [][CheckPair]_ixVars

----------------------------------------------------------------------------
\* Properties.

ForPrimary(x) == ixTable.hasPrimary /\ duplicateOf[x] = 1

\* Indexes on whole columns that the DROP/ADD, if they get one, leaves as they
\* are: it adds an ordinary index, and moves the primary key to its end.
Unharmed(y) ==
  ~ColumnSubparts(y) /\ (Clustered(y) => ixTable.type = "BTREE" /\ Rebuilt(y) = Cols(y))

\* When every statement of --show-drops is executed on a table whose indexes the
\* DROP/ADD does not change, each index dropped leaves behind one that serves
\* the same lookups: no two stand in for each other.  Longer ones reported in
\* the place of PRIMARY, with what depends on them, are not promised one.
CoverKept ==
  (ixOuter \notin Ixs /\ \A y \in Ixs : Unharmed(y)) =>
    \A x \in masterList : \E y \in Ixs \ {x} :
      IF ForPrimary(x) THEN y = 1 ELSE
        \/ CheckColumnList(Cols(x), LeftOf(y))
        \/ IsDuplicate(x, y) /\ ForPrimary(y)

\* No exception: two equal prefix indexes are each reported as the other's; and
\* beside PRIMARY (a, b), an index (b) is dropped for (b, a, c), which becomes (c).
CoverAlwaysKept ==
  ixOuter \notin Ixs =>
    \A x \in masterList : \E y \in Ixs : CheckColumnList(Cols(x), LeftOf(y))
=============================================================================
