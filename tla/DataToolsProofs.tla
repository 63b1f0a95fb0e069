---------------------------- MODULE DataToolsProofs ----------------------------
(***************************************************************************)
(* mysqldbcompare, for every set of keys, values and spans, every call and   *)
(* every number of writes of clients meanwhile: the statements it generates  *)
(* make the two tables equal in the rows that were not written to, but for   *)
(* those whose signs do not tell them apart, and none fails on such a row.    *)
(*                                                                          *)
(* The rows of the two sides are paired by their numbers, so the argument    *)
(* is about their order: both sides are read in the order of spans and       *)
(* keys, and what is read of the one has the keys of what is read of the     *)
(* other.                                                                    *)
(*                                                                          *)
(* The second part is about the seven tools together, as DtSpec runs them:   *)
(* what is proved of each tool alone holds there, too.                        *)
(***************************************************************************)
EXTENDS MCDataTools, ServerCopyProofs, ServerToolsProofs, DbImportProofs

----------------------------------------------------------------------------
\* What statements do to a table.


\* A list of statements as the sequence of the tables it makes.
LEMMA RunExists ==
  ASSUME NEW t, NEW sts \in Seq(Ops)
  PROVE  \E run :
    /\ run = [i \in 0..Len(sts) |-> IF i = 0 THEN t ELSE Executed(run[i - 1], sts[i])]
    /\ TablesOf(t, sts) = run
<1>. DEFINE IsRun(f, n) == f = [i \in 0..n |-> IF i = 0 THEN t ELSE Executed(f[i - 1], sts[i])]
            T == {n \in 0..Len(sts) : ~\E f : IsRun(f, n)}
<1>1. T = {}
  <2>. SUFFICES ASSUME T # {} PROVE FALSE
    OBVIOUS
  <2>1. PICK n \in T : \A m \in T : n <= m
    <3>. T \subseteq Nat
      OBVIOUS
    <3>. HIDE DEF T
    <3>. QED BY Least
  <2>2. n # 0
    <3>. IsRun([i \in 0..0 |-> t], 0)
      OBVIOUS
    <3>. QED BY DEF T
  <2>3. PICK f : IsRun(f, n - 1)
    <3>1. n - 1 \in 0..Len(sts) /\ ~(n <= n - 1)
      BY <2>2
    <3>2. n - 1 \notin T
      BY <2>1, <3>1
    <3>. QED BY <3>1, <3>2
  <2>. DEFINE g == [i \in 0..n |-> IF i = n THEN Executed(f[n - 1], sts[n]) ELSE f[i]]
  <2>4. \A i \in 0..n : g[i] = IF i = 0 THEN t ELSE Executed(g[i - 1], sts[i])
    <3>. SUFFICES ASSUME NEW i \in 0..n
                  PROVE  g[i] = IF i = 0 THEN t ELSE Executed(g[i - 1], sts[i])
      OBVIOUS
    <3>1. CASE i = n
      BY <2>2, <3>1
    <3>2. CASE i # n
      <4>1. i \in 0..(n - 1) /\ (i # 0 => i - 1 \in 0..(n - 1))
        BY <3>2
      <4>2. f[i] = IF i = 0 THEN t ELSE Executed(f[i - 1], sts[i])
        BY <2>3, <4>1
      <4>3. g[i] = f[i] /\ (i # 0 => g[i - 1] = f[i - 1])
        BY <3>2, <4>1
      <4>. QED BY <4>2, <4>3
    <3>. QED BY <3>1, <3>2
  <2>5. IsRun(g, n)
    BY <2>4
  <2>. QED
    BY <2>5
<1>2. PICK f : IsRun(f, Len(sts))
  BY <1>1
<1>. DEFINE r == CHOOSE f2 : IsRun(f2, Len(sts))
<1>3. IsRun(r, Len(sts))
  BY <1>2
<1>4. TablesOf(t, sts) = r
  BY DEF TablesOf
<1>. QED
  BY <1>3, <1>4

\* What a statement leaves for its key: c is what was there, v what is wanted.
Gives(st, c, v) ==
  \/ st.op = "delete" /\ v = NoRow
  \/ st.op = "insert" /\ st.new.value = v /\ c = NoRow /\ v # NoRow
  \/ st.op = "update" /\ st.new.value = v /\ st.old.value # v /\ c # NoRow /\ v # NoRow

\* A statement makes a table of a table.
LEMMA ExecutedType ==
  ASSUME NEW t \in DcTable, NEW st \in Ops
  PROVE  Executed(t, st) \in DcTable
<1>1. Target(st) \in DcKeySet /\ st.new.value \in DcValues
  BY DEF Target, Ops, DcRows
<1>2. PICK x \in DcValues \cup {NoRow} : x = IF st.op = "delete" THEN NoRow ELSE st.new.value
  BY <1>1
<1>3. [t EXCEPT ![Target(st)] = x] \in DcTable
  BY <1>1 DEF DcTable
<1>. QED
  BY <1>2, <1>3 DEF Executed

\* It changes its own key only.
LEMMA ExecutedValue ==
  ASSUME NEW t \in DcTable, NEW st \in Ops, NEW k \in DcKeySet, NEW c, NEW v,
         t[k] = c \/ t[k] = v,
         Target(st) = k => Gives(st, c, v)
  PROVE  Executed(t, st)[k] = IF Target(st) = k THEN v ELSE t[k]
<1>1. Target(st) \in DcKeySet /\ DOMAIN t = DcKeySet
  BY DEF Target, Ops, DcRows, DcTable
<1>2. CASE Target(st) # k
  BY <1>1, <1>2 DEF Executed
<1>3. CASE Target(st) = k
  <2>1. Gives(st, c, v)
    BY <1>3
  <2>2. CASE st.op = "delete"
    <3>1. ~Fails(t, st)
      BY <2>2 DEF Fails
    <3>. QED BY <1>1, <1>3, <2>1, <2>2, <3>1 DEF Executed, Gives
  <2>3. CASE st.op = "insert"
    <3>1. st.new.key = k /\ st.new.value = v /\ c = NoRow /\ v # NoRow
      BY <1>3, <2>1, <2>3 DEF Gives, Target
    <3>2. CASE t[k] = v
      BY <1>3, <2>3, <3>1, <3>2 DEF Executed, Fails
    <3>3. CASE t[k] # v
      <4>1. ~Fails(t, st)
        BY <2>3, <3>1, <3>3 DEF Fails
      <4>. QED BY <1>1, <1>3, <2>3, <3>1, <4>1 DEF Executed
    <3>. QED BY <3>2, <3>3
  <2>4. CASE st.op = "update"
    <3>1. /\ st.new.key = k /\ st.new.value = v /\ st.old.value # v
          /\ c # NoRow /\ v # NoRow
      BY <1>3, <2>1, <2>4 DEF Gives, Target
    <3>2. ~Fails(t, st) /\ t[st.new.key] # NoRow
      BY <2>4, <3>1 DEF Fails
    <3>. QED BY <1>1, <1>3, <2>4, <3>1, <3>2 DEF Executed
  <2>. QED BY <2>1, <2>2, <2>3, <2>4 DEF Gives
<1>. QED
  BY <1>2, <1>3

\* Every statement for key k fits where it holds c and v is wanted.
AllGive(sts, k, c, v) ==
  \A i \in DOMAIN sts : Target(sts[i]) = k => Gives(sts[i], c, v)

\* What the first of the statements leave for a key.
LEMMA RunValue ==
  ASSUME NEW t \in DcTable, NEW sts \in Seq(Ops), NEW k \in DcKeySet, NEW v,
         AllGive(sts, k, t[k], v)
  PROVE  \A i \in 0..Len(sts) :
           TablesOf(t, sts)[i][k] = IF \E j \in 1..i : Target(sts[j]) = k THEN v ELSE t[k]
<1>1. PICK run :
    /\ run = [i \in 0..Len(sts) |-> IF i = 0 THEN t ELSE Executed(run[i - 1], sts[i])]
    /\ TablesOf(t, sts) = run
  BY RunExists
<1>2. run[0] = t
  BY <1>1
<1>3. \A i \in 1..Len(sts) : run[i] = Executed(run[i - 1], sts[i]) /\ sts[i] \in Ops
  BY <1>1
<1>. DEFINE Hit(i) == \E j \in 1..i : Target(sts[j]) = k
            Good(i) == run[i] \in DcTable /\ run[i][k] = IF Hit(i) THEN v ELSE t[k]
            T == {i \in 0..Len(sts) : ~Good(i)}
<1>4. Good(0)
  BY <1>2
<1>5. ASSUME NEW i \in 1..Len(sts), Good(i - 1) PROVE Good(i)
  <2>1. run[i] = Executed(run[i - 1], sts[i]) /\ sts[i] \in Ops
    BY <1>3
  <2>2. run[i] \in DcTable
    BY <1>5, <2>1, ExecutedType
  <2>3. run[i - 1][k] = t[k] \/ run[i - 1][k] = v
    BY <1>5
  <2>4. run[i][k] = IF Target(sts[i]) = k THEN v ELSE run[i - 1][k]
    <3>. DEFINE u == run[i - 1]
                st == sts[i]
    <3>1. Target(st) = k => Gives(st, t[k], v)
      BY DEF AllGive
    <3>2. u \in DcTable /\ st \in Ops /\ (u[k] = t[k] \/ u[k] = v)
      BY <1>5, <2>1, <2>3
    <3>. HIDE DEF Good, Hit, u, st
    <3>3. Executed(u, st)[k] = IF Target(st) = k THEN v ELSE u[k]
      BY <3>1, <3>2, ExecutedValue
    <3>. QED BY <2>1, <3>3 DEF u, st
  <2>5. Hit(i) <=> Hit(i - 1) \/ Target(sts[i]) = k
    <3>1. \A j : j \in 1..i <=> j \in 1..(i - 1) \/ j = i
      OBVIOUS
    <3>. QED BY <3>1
  <2>. HIDE DEF Hit
  <2>. QED BY <1>5, <2>2, <2>4, <2>5
<1>6. T = {}
  <2>. SUFFICES ASSUME T # {} PROVE FALSE
    OBVIOUS
  <2>1. PICK i \in T : \A m \in T : i <= m
    <3>. T \subseteq Nat
      OBVIOUS
    <3>. HIDE DEF T
    <3>. QED BY Least
  <2>2. i \in 1..Len(sts) /\ i - 1 \in 0..Len(sts) /\ i - 1 \notin T /\ ~Good(i)
    <3>. HIDE DEF Good
    <3>. QED BY <1>4, <2>1
  <2>3. Good(i - 1)
    <3>. HIDE DEF Good
    <3>. QED BY <2>2
  <2>. HIDE DEF Good
  <2>. QED BY <1>5, <2>2, <2>3
<1>7. \A i \in 0..Len(sts) : Good(i)
  <2>. HIDE DEF Good
  <2>. QED BY <1>6
<1>. QED BY <1>1, <1>7

\* What all of them leave.
LEMMA AfterValue ==
  ASSUME NEW t \in DcTable, NEW sts \in Seq(Ops), NEW k \in DcKeySet, NEW v,
         AllGive(sts, k, t[k], v),
         t[k] = v \/ \E i \in DOMAIN sts : Target(sts[i]) = k
  PROVE  After(t, sts)[k] = v
<1>1. Len(sts) \in 0..Len(sts) /\ DOMAIN sts = 1..Len(sts)
  OBVIOUS
<1>2. \A i \in 0..Len(sts) :
        TablesOf(t, sts)[i][k] = IF \E j \in 1..i : Target(sts[j]) = k THEN v ELSE t[k]
  BY RunValue
<1>3. After(t, sts)[k] = IF \E j \in 1..Len(sts) : Target(sts[j]) = k THEN v ELSE t[k]
  BY <1>1, <1>2 DEF After
<1>. QED
  BY <1>1, <1>3

\* No key is inserted twice.
InsertsOnce(sts) ==
  \A i, j \in DOMAIN sts :
    sts[i].op = "insert" /\ sts[j].op = "insert" /\ Target(sts[i]) = Target(sts[j]) => i = j

\* Statements that fit do not fail.
LEMMA NoneFails ==
  ASSUME NEW t \in DcTable, NEW sts \in Seq(Ops), NEW k \in DcKeySet, NEW v,
         AllGive(sts, k, t[k], v),
         InsertsOnce(sts), NEW i \in DOMAIN sts, Target(sts[i]) = k
  PROVE  ~Fails(TablesOf(t, sts)[i - 1], sts[i])
<1>1. Gives(sts[i], t[k], v)
  BY DEF AllGive
<1>2. CASE sts[i].op = "update"
  BY <1>1, <1>2 DEF Gives, Fails
<1>3. CASE sts[i].op = "delete"
  BY <1>3 DEF Fails
<1>4. CASE sts[i].op = "insert"
  <2>1. t[k] = NoRow /\ v # NoRow /\ sts[i].new.key = k
    BY <1>1, <1>4 DEF Gives, Target
  <2>2. ASSUME NEW j \in 1..(i - 1), Target(sts[j]) = k PROVE FALSE
    <3>1. j \in DOMAIN sts /\ j # i
      OBVIOUS
    <3>2. Gives(sts[j], t[k], v)
      BY <2>2, <3>1 DEF AllGive
    <3>3. sts[j].op = "insert"
      BY <2>1, <3>2 DEF Gives
    <3>. QED BY <1>4, <2>2, <3>1, <3>3 DEF InsertsOnce
  <2>3. i - 1 \in 0..Len(sts)
    OBVIOUS
  <2>4. TablesOf(t, sts)[i - 1][k] = t[k]
    <3>1. \A m \in 0..Len(sts) :
            TablesOf(t, sts)[m][k] = IF \E j \in 1..m : Target(sts[j]) = k THEN v ELSE t[k]
      BY RunValue
    <3>. QED BY <2>2, <2>3, <3>1
  <2>. QED BY <1>4, <2>1, <2>4 DEF Fails
<1>. QED
  BY <1>1, <1>2, <1>3, <1>4 DEF Gives

----------------------------------------------------------------------------
\* The order of the reads.
Earlier(k, l) ==
  \/ PlaceIn(Spans, SpanOf[k]) < PlaceIn(Spans, SpanOf[l])
  \/ /\ PlaceIn(Spans, SpanOf[k]) = PlaceIn(Spans, SpanOf[l])
     /\ PlaceIn(DcKeys, k) < PlaceIn(DcKeys, l)

\* Spans and keys have places.
LEMMA PlaceFacts ==
  ASSUME NEW k \in DcKeySet
  PROVE  PlaceIn(Spans, SpanOf[k]) \in Nat /\ PlaceIn(DcKeys, k) \in Nat
<1>. USE DcAssumption
<1>1. SpanOf[k] \in ToSet(Spans)
  OBVIOUS
<1>2. \E i \in DOMAIN Spans : Spans[i] = SpanOf[k]
  BY <1>1 DEF ToSet
<1>3. \E i \in DOMAIN DcKeys : DcKeys[i] = k
  BY DEF DcKeySet, ToSet
<1>4. DOMAIN Spans \subseteq Nat /\ DOMAIN DcKeys \subseteq Nat
  OBVIOUS
<1>. QED BY <1>2, <1>3, <1>4 DEF PlaceIn

\* Rows are read one after the other.
LEMMA EarlierOnce ==
  ASSUME NEW k \in DcKeySet, NEW l \in DcKeySet
  PROVE  Earlier(k, l) => ~Earlier(l, k) /\ k # l
BY PlaceFacts DEF Earlier

Sorted(f) == \A i, j \in DOMAIN f : i < j => Earlier(f[i], f[j])
SameKeys(f, g) ==
  /\ \A i \in DOMAIN f : \E j \in DOMAIN g : g[j] = f[i]
  /\ \A i \in DOMAIN g : \E j \in DOMAIN f : f[j] = g[i]

\* Of two sorted lists with the same keys the one does not fall behind the other.
LEMMA NotAhead ==
  ASSUME NEW m \in Nat, NEW n \in Nat, NEW f \in [1..m -> DcKeySet], NEW g \in [1..n -> DcKeySet],
         Sorted(f), Sorted(g), SameKeys(f, g),
         NEW i \in 1..m, NEW j \in 1..n,
         f[i] = g[j],
         \A k \in 1..m \cap 1..n : k < i => f[k] = g[k]
  PROVE  i <= j
<1>. SUFFICES ASSUME j < i PROVE FALSE
  OBVIOUS
<1>1. j \in 1..m /\ f[j] = g[j]
  OBVIOUS
<1>2. Earlier(f[j], f[i])
  BY <1>1 DEF Sorted
<1>. QED
  BY <1>1, <1>2, EarlierOnce

\* Two sides whose rows have the same keys have them in the same order.
LEMMA SameOrder ==
  ASSUME NEW m \in Nat, NEW n \in Nat, NEW f \in [1..m -> DcKeySet], NEW g \in [1..n -> DcKeySet],
         Sorted(f), Sorted(g), SameKeys(f, g)
  PROVE  \A k \in 1..m \cap 1..n : f[k] = g[k]
<1>. DEFINE T == {k \in 1..m \cap 1..n : f[k] # g[k]}
<1>. SUFFICES ASSUME T # {} PROVE FALSE
  OBVIOUS
<1>1. PICK i \in T : \A k \in T : i <= k
  <2>. T \subseteq Nat
    OBVIOUS
  <2>. HIDE DEF T
  <2>. QED BY Least
<1>2. i \in 1..m /\ i \in 1..n /\ f[i] # g[i]
  OBVIOUS
<1>3. \A k \in 1..m \cap 1..n : k < i => f[k] = g[k]
  BY <1>1
<1>4. PICK j \in 1..n : g[j] = f[i]
  BY <1>2 DEF SameKeys
<1>5. PICK l \in 1..m : f[l] = g[i]
  BY <1>2 DEF SameKeys
<1>. HIDE DEF T
<1>6. i <= j
  BY <1>2, <1>3, <1>4, NotAhead
<1>7. i <= l
  <2>1. SameKeys(g, f)
    BY DEF SameKeys
  <2>2. \A k \in 1..n \cap 1..m : k < i => g[k] = f[k]
    BY <1>3
  <2>. QED BY <1>2, <1>5, <2>1, <2>2, NotAhead
<1>8. i < j /\ i < l
  BY <1>2, <1>4, <1>5, <1>6, <1>7
<1>9. Earlier(g[i], g[j]) /\ Earlier(f[i], f[l])
  BY <1>2, <1>8 DEF Sorted
<1>. QED
  BY <1>2, <1>4, <1>5, <1>9, EarlierOnce

\* So they have as many.
LEMMA SameLength ==
  ASSUME NEW m \in Nat, NEW n \in Nat, NEW f \in [1..m -> DcKeySet], NEW g \in [1..n -> DcKeySet],
         Sorted(f), Sorted(g), SameKeys(f, g)
  PROVE  m <= n
<1>. SUFFICES ASSUME n < m PROVE FALSE
  OBVIOUS
<1>1. n + 1 \in 1..m
  OBVIOUS
<1>2. PICK j \in 1..n : g[j] = f[n + 1]
  BY <1>1 DEF SameKeys
<1>3. j \in 1..m /\ f[j] = g[j] /\ j < n + 1
  BY SameOrder
<1>4. Earlier(f[j], f[n + 1])
  BY <1>1, <1>3 DEF Sorted
<1>. QED
  BY <1>1, <1>2, <1>3, <1>4, EarlierOnce

KeysOf(rows) == [i \in DOMAIN rows |-> rows[i].key]

\* The i-th rows of the two sides are of the same key: UPDATE pairs them.
LEMMA Pairing ==
  ASSUME NEW A \in Seq(DcRows), NEW B \in Seq(DcRows),
         Sorted(KeysOf(A)), Sorted(KeysOf(B)), SameKeys(KeysOf(A), KeysOf(B))
  PROVE  /\ DOMAIN A = DOMAIN B
         /\ \A i \in DOMAIN A : A[i].key = B[i].key
<1>. DEFINE m == Len(A)
            n == Len(B)
            f == KeysOf(A)
            g == KeysOf(B)
<1>1. /\ m \in Nat /\ n \in Nat /\ DOMAIN A = 1..m /\ DOMAIN B = 1..n
      /\ \A i \in 1..m : A[i] \in DcRows
      /\ \A i \in 1..n : B[i] \in DcRows
  OBVIOUS
<1>2. f \in [1..m -> DcKeySet] /\ g \in [1..n -> DcKeySet]
  BY <1>1 DEF KeysOf, DcRows
<1>3. Sorted(f) /\ Sorted(g) /\ SameKeys(f, g) /\ SameKeys(g, f)
  BY DEF SameKeys
<1>4. \A i \in 1..m : m = n => f[i] = A[i].key /\ g[i] = B[i].key
  BY <1>1 DEF KeysOf
<1>. HIDE DEF m, n, f, g
<1>5. m <= n /\ n <= m
  BY <1>1, <1>2, <1>3, SameLength
<1>6. m = n
  BY <1>1, <1>5
<1>7. \A i \in 1..m : f[i] = g[i]
  BY <1>1, <1>2, <1>3, <1>6, SameOrder
<1>. QED
  BY <1>1, <1>4, <1>6, <1>7

----------------------------------------------------------------------------
\* What is wanted of a row that is x in one table and y in the other.
WantedRow(x, y) == IF SameSign(x, y) THEN x ELSE y
OutputFits(d) ==
  /\ InsertsOnce(output[d])
  /\ \A k \in DcKeySet \ touched :
       LET c == compareTable[d][k]
           v == WantedRow(c, compareTable[Other(d)][k])
       IN  /\ \A i \in DOMAIN output[d] : Target(output[d][i]) = k => Gives(output[d][i], c, v)
           /\ c # v => \E i \in DOMAIN output[d] : Target(output[d][i]) = k

UntouchedInv ==
  \A k \in DcKeySet \ touched :
    /\ checksum1[k] = tables[1][k]
    /\ \A s \in Sides : compareTable[s][k] = tables[s][k]

EarlyInv ==
  dcPhase \in {"start", "checksum", "sum1", "sum2", "spans"} =>
    /\ directions = {} /\ reads = {}
    /\ changedRows = NoRows /\ extraRows = NoRows /\ output = NoRows

DoneReads == RowsToRead(NextSide(directions)) \ reads
ReadsInv ==
  dcPhase = "read" =>
    LET d == NextSide(directions) IN
    /\ directions # {} /\ directions \subseteq WantedSides
    /\ reads \subseteq RowsToRead(d)
    /\ \A q \in DoneReads, r \in reads : Precedes(TurnOf(d, q), TurnOf(d, r))

FromRead(row, s, extra) ==
  /\ \E q \in DoneReads : q.side = s /\ q.extra = extra /\ q.key = row.key
  /\ row.key \notin touched => row.value = compareTable[s][row.key]
Gathered(rows, s, extra) ==
  /\ \A i \in DOMAIN rows : FromRead(rows[i], s, extra)
  /\ \A q \in DoneReads : q.side = s /\ q.extra = extra /\ (extra => q.key \notin touched) =>
       \E i \in DOMAIN rows : rows[i].key = q.key
KeysOnce(rows) == \A i, j \in DOMAIN rows : rows[i].key = rows[j].key => i = j
RowsInv ==
  dcPhase = "read" => \A s \in Sides :
    /\ Sorted(KeysOf(changedRows[s])) /\ KeysOnce(extraRows[s])
    /\ Gathered(changedRows[s], s, FALSE) /\ Gathered(extraRows[s], s, TRUE)

OutputInv ==
  /\ dcPhase \in {"read", "done"} => \A d \in WantedSides \ directions : OutputFits(d)
  /\ dcPhase = "done" => directions = {}

DcInv == DcTypeOK /\ UntouchedInv /\ EarlyInv /\ ReadsInv /\ RowsInv /\ OutputInv

----------------------------------------------------------------------------
\* The two sides.
LEMMA OtherSide ==
  /\ \A s \in Sides : Other(s) \in Sides /\ Other(s) # s /\ Other(Other(s)) = s
  /\ Sides = {1, 2} /\ Other(1) = 2 /\ Other(2) = 1
BY DEF Sides, Other

\* Signs tell a row from none, and only different rows apart.
LEMMA SignFacts ==
  /\ \A u, v : SameSign(u, v) <=> SameSign(v, u)
  /\ \A u : SameSign(u, u)
  /\ \A u, v : SameSign(u, v) => (u = NoRow <=> v = NoRow)
BY DEF SameSign

\* A span in which a row differs differs.
LEMMA DiffersAt ==
  ASSUME NEW k \in DcKeySet, ~SameSign(compareTable[1][k], compareTable[2][k])
  PROVE  Differs(SpanOf[k])
<1>1. ASSUME NEW s \in Sides, NEW x, <<k, x>> \in Sums(s, SpanOf[k])
      PROVE  x = Sign[compareTable[s][k]] /\ compareTable[s][k] # NoRow
  BY <1>1 DEF Sums, InSpan
<1>2. ASSUME NEW s \in Sides, compareTable[s][k] # NoRow
      PROVE  <<k, Sign[compareTable[s][k]]>> \in Sums(s, SpanOf[k])
  BY <1>2 DEF Sums, InSpan
<1>. QED
  BY <1>1, <1>2, OtherSide DEF Differs, SameSign

\* The rows that are read are those in which the tables differ.
LEMMA WhatIsRead ==
  ASSUME NEW d \in Sides, compareTable \in [Sides -> DcTable]
  PROVE  /\ RowsToRead(d) \subseteq DcReads
         /\ \A r \in RowsToRead(d) :
              /\ compareTable[r.side][r.key] # NoRow
              /\ ~SameSign(compareTable[r.side][r.key], compareTable[Other(r.side)][r.key])
              /\ r.extra <=> compareTable[Other(r.side)][r.key] = NoRow
              /\ r.span \/ r.extra
         /\ \A s \in Sides, k \in DcKeySet :
              compareTable[s][k] # NoRow /\ ~SameSign(compareTable[s][k], compareTable[Other(s)][k]) =>
                \E r \in RowsToRead(d) : r.side = s /\ r.key = k
         /\ \A q, r \in RowsToRead(d) : q.side = r.side /\ q.key = r.key => q = r
<1>0. ASSUME NEW s \in Sides
      PROVE  SpanReads(s) \cup ExtraReads(s) \subseteq RowsToRead(d)
  BY OtherSide DEF RowsToRead
<1>1. ASSUME NEW r \in RowsToRead(d)
      PROVE  \E s \in Sides : r \in SpanReads(s) \cup ExtraReads(s)
  BY OtherSide DEF RowsToRead
<1>2. ASSUME NEW s \in Sides, NEW r \in SpanReads(s)
      PROVE  /\ r \in DcReads /\ r.side = s /\ r.span
             /\ compareTable[s][r.key] # NoRow
             /\ ~SameSign(compareTable[s][r.key], compareTable[Other(s)][r.key])
             /\ r.extra <=> compareTable[Other(s)][r.key] = NoRow
  <2>1. PICK k \in DcKeySet :
          /\ k \in InSpan(s, SpanOf[k])
          /\ ~SameSign(compareTable[s][k], compareTable[Other(s)][k])
          /\ r = [side |-> s, key |-> k, span |-> TRUE, extra |-> compareTable[Other(s)][k] = NoRow]
    BY <1>2 DEF SpanReads
  <2>2. compareTable[s][k] # NoRow
    BY <2>1 DEF InSpan
  <2>3. r.side = s /\ r.key = k /\ r.span = TRUE /\ r.extra = (compareTable[Other(s)][k] = NoRow)
    BY <2>1
  <2>4. (compareTable[Other(s)][k] = NoRow) \in BOOLEAN
    OBVIOUS
  <2>5. r \in DcReads
    BY <2>1, <2>4 DEF DcReads
  <2>. QED BY <2>1, <2>2, <2>3, <2>5
<1>3. ASSUME NEW s \in Sides, NEW r \in ExtraReads(s)
      PROVE  /\ r \in DcReads /\ r.side = s /\ r.extra
             /\ compareTable[s][r.key] # NoRow
             /\ compareTable[Other(s)][r.key] = NoRow
  <2>0. PICK k \in DcKeySet :
          /\ SpanOf[k] \in ExtraSpans(s) /\ k \in InSpan(s, SpanOf[k])
          /\ r = [side |-> s, key |-> k, span |-> FALSE, extra |-> TRUE]
    BY <1>3 DEF ExtraReads
  <2>1. /\ r \in DcReads /\ r.side = s /\ r.extra = TRUE
        /\ SpanOf[r.key] \in ExtraSpans(s) /\ r.key \in InSpan(s, SpanOf[r.key])
        /\ r.key \in DcKeySet
    BY <2>0 DEF DcReads
  <2>2. r.key \notin InSpan(Other(s), SpanOf[r.key])
    BY <2>1 DEF ExtraSpans, HasSpan
  <2>. QED BY <2>1, <2>2 DEF InSpan
<1>4. ASSUME NEW s \in Sides, NEW k \in DcKeySet, compareTable[s][k] # NoRow,
             ~SameSign(compareTable[s][k], compareTable[Other(s)][k])
      PROVE  \E r \in SpanReads(s) \cup ExtraReads(s) : r.side = s /\ r.key = k
  <2>1. k \in InSpan(s, SpanOf[k]) /\ HasSpan(s, SpanOf[k])
    BY <1>4 DEF InSpan, HasSpan
  <2>2. SpanOf[k] \in ToSet(Spans)
    BY DcAssumption
  <2>3. Differs(SpanOf[k])
    BY <1>4, DiffersAt, OtherSide, SignFacts
  <2>4. CASE HasSpan(Other(s), SpanOf[k])
    <3>1. SpanOf[k] \in ChangedSpans
      BY <2>1, <2>2, <2>3, <2>4, OtherSide DEF ChangedSpans
    <3>2. [side |-> s, key |-> k, span |-> TRUE, extra |-> compareTable[Other(s)][k] = NoRow] \in SpanReads(s)
      BY <1>4, <2>1, <3>1 DEF SpanReads
    <3>. QED BY <3>2
  <2>5. CASE ~HasSpan(Other(s), SpanOf[k])
    <3>1. SpanOf[k] \in ExtraSpans(s)
      BY <2>1, <2>2, <2>5 DEF ExtraSpans
    <3>2. [side |-> s, key |-> k, span |-> FALSE, extra |-> TRUE] \in ExtraReads(s)
      BY <2>1, <3>1 DEF ExtraReads
    <3>. QED BY <3>2
  <2>. QED BY <2>4, <2>5
<1>5. RowsToRead(d) \subseteq DcReads
  BY <1>1, <1>2, <1>3
<1>6. ASSUME NEW r \in RowsToRead(d)
      PROVE  /\ compareTable[r.side][r.key] # NoRow
             /\ ~SameSign(compareTable[r.side][r.key], compareTable[Other(r.side)][r.key])
             /\ r.extra <=> compareTable[Other(r.side)][r.key] = NoRow
             /\ r.span \/ r.extra
  <2>1. PICK s \in Sides : r \in SpanReads(s) \cup ExtraReads(s)
    BY <1>1
  <2>2. CASE r \in SpanReads(s)
    BY <1>2, <2>2
  <2>3. CASE r \in ExtraReads(s)
    BY <1>3, <2>3, SignFacts
  <2>. QED BY <2>1, <2>2, <2>3
<1>7. ASSUME NEW q \in RowsToRead(d), NEW r \in RowsToRead(d), q.side = r.side, q.key = r.key
      PROVE  q = r
  <2>1. PICK s \in Sides : q \in SpanReads(s) \cup ExtraReads(s)
    BY <1>1
  <2>2. PICK z \in Sides : r \in SpanReads(z) \cup ExtraReads(z)
    BY <1>1
  <2>3. q.side = s /\ r.side = z
    BY <1>2, <1>3, <2>1, <2>2
  <2>4. z = s
    BY <1>7, <2>3
  <2>5. ASSUME NEW p \in SpanReads(s)
        PROVE  /\ p = [side |-> s, key |-> p.key, span |-> TRUE,
                        extra |-> compareTable[Other(s)][p.key] = NoRow]
               /\ HasSpan(Other(s), SpanOf[p.key])
    BY <2>5, OtherSide DEF SpanReads, ChangedSpans
  <2>6. ASSUME NEW p \in ExtraReads(s)
        PROVE  /\ p = [side |-> s, key |-> p.key, span |-> FALSE, extra |-> TRUE]
               /\ ~HasSpan(Other(s), SpanOf[p.key])
    BY <2>6 DEF ExtraReads, ExtraSpans
  <2>7. CASE q \in SpanReads(s)
    BY <1>7, <2>2, <2>4, <2>5, <2>6, <2>7
  <2>8. CASE q \in ExtraReads(s)
    BY <1>7, <2>2, <2>4, <2>5, <2>6, <2>8
  <2>. QED BY <2>1, <2>7, <2>8
<1>. QED
  BY <1>0, <1>4, <1>5, <1>6, <1>7

\* Rows of one side are read in the order of their keys.
LEMMA ReadsInOrder ==
  ASSUME NEW d \in Sides, NEW q \in DcReads, NEW r \in DcReads,
         q.side = r.side, q.span = r.span,
         Precedes(TurnOf(d, q), TurnOf(d, r))
  PROVE  Earlier(q.key, r.key)
<1>1. q.key \in DcKeySet /\ r.key \in DcKeySet
  BY DEF DcReads
<1>. DEFINE t == TurnOf(d, q)
            u == TurnOf(d, r)
<1>2. /\ t[1] = u[1] /\ t[3] = u[3] /\ t[1] \in Nat /\ t[3] \in Nat
      /\ t[2] = PlaceIn(Spans, SpanOf[q.key]) /\ u[2] = PlaceIn(Spans, SpanOf[r.key])
      /\ t[4] = PlaceIn(DcKeys, q.key) /\ u[4] = PlaceIn(DcKeys, r.key)
  BY DEF TurnOf
<1>3. PICK i \in 1..4 : t[i] < u[i] /\ \A j \in 1..(i - 1) : t[j] = u[j]
  BY DEF Precedes
<1>. HIDE DEF t, u
<1>4. i \in {2, 4}
  BY <1>2, <1>3
<1>5. i = 4 => t[2] = u[2]
  BY <1>3
<1>. QED
  BY <1>1, <1>2, <1>3, <1>4, <1>5, PlaceFacts DEF Earlier

\* The side that is next.
LEMMA NextSideIn ==
  ASSUME NEW ds \in SUBSET Sides, ds # {}
  PROVE  NextSide(ds) \in ds
BY DEF NextSide, Sides

----------------------------------------------------------------------------
\* Actions that leave the reads alone.
LEMMA ReadsUnchanged ==
  ASSUME UNCHANGED <<compareTable>>
  PROVE  \A d : RowsToRead(d)' = RowsToRead(d)
BY DEF RowsToRead, SpanReads, ExtraReads, ChangedSpans, ExtraSpans, Differs, HasSpan, Sums, InSpan

\* Statements once generated fit as long as the temporary tables stay.
LEMMA OutputKept ==
  ASSUME NEW d, OutputFits(d), touched \subseteq touched',
         UNCHANGED <<compareTable>>, output'[d] = output[d]
  PROVE  OutputFits(d)'
BY DEF OutputFits, InsertsOnce, WantedRow

\* At first nothing is read.
LEMMA DcInitInv == DcInit => DcInv
<1>. SUFFICES ASSUME DcInit PROVE DcInv
  OBVIOUS
<1>. USE DEF DcInit
<1>1. tables \in [Sides -> DcTable]
  BY DcAssumption
<1>2. NoRows \in [Sides -> Seq(DcRows)] /\ NoRows \in [Sides -> Seq(Ops)]
  BY DEF NoRows
<1>3. DcTypeOK
  BY <1>1, <1>2, OtherSide DEF DcTypeOK
<1>4. UntouchedInv
  BY DEF UntouchedInv
<1>5. dcPhase \in {"start", "sum1"}
  OBVIOUS
<1>. QED
  BY <1>3, <1>4, <1>5 DEF DcInv, EarlyInv, ReadsInv, RowsInv, OutputInv

\* CHECKSUM TABLE and the digests: rows no client wrote to are as they were.
LEMMA TablesStep ==
  ASSUME DcInv,
         Checksum1 \/ Checksum2 \/ (\E s \in Sides : MakeSumRows(s))
  PROVE  DcInv'
<1>. USE DEF DcInv
<1>0. Sides = {1, 2}
  BY OtherSide
<1>1. /\ dcPhase \in {"start", "checksum", "sum1", "sum2"}
      /\ dcPhase' \in {"checksum", "sum1", "sum2", "spans", "done"}
      /\ UNCHANGED <<dcConf, tables, touched, dcReading, output>>
      /\ checksum1' \in {checksum1, tables[1]}
      /\ \/ UNCHANGED compareTable
         \/ \E s \in Sides : compareTable' = [compareTable EXCEPT ![s] = tables[s]]
  <2>1. CASE Checksum1
    BY <2>1 DEF DcGo, Checksum1
  <2>2. CASE Checksum2
    BY <2>2 DEF DcGo, Checksum2
  <2>3. ASSUME NEW s \in Sides, MakeSumRows(s)
        PROVE  /\ dcPhase \in {"sum1", "sum2"} /\ dcPhase' \in {"sum2", "spans"}
               /\ UNCHANGED <<dcConf, tables, touched, dcReading, output, checksum1>>
               /\ compareTable' = [compareTable EXCEPT ![s] = tables[s]]
    BY <1>0, <2>3 DEF DcGo, MakeSumRows
  <2>. QED BY <2>1, <2>2, <2>3
<1>2. UNCHANGED <<directions, reads, changedRows, extraRows>>
  BY <1>1 DEF dcReading
<1>3. DcTypeOK'
  <2>1. tables \in [Sides -> DcTable] /\ compareTable \in [Sides -> DcTable] /\ checksum1 \in DcTable
    BY DEF DcTypeOK
  <2>2. checksum1' \in DcTable
    BY <1>0, <1>1, <2>1
  <2>3. compareTable' \in [Sides -> DcTable]
    BY <1>1, <2>1
  <2>4. /\ dcPhase' \in {"start", "checksum", "sum1", "sum2", "spans", "read", "done", "raised"}
        /\ UNCHANGED <<dcConf, tables, touched, output>>
    BY <1>1
  <2>. QED BY <1>2, <2>2, <2>3, <2>4 DEF DcTypeOK
<1>4. UntouchedInv'
  <2>1. UNCHANGED <<tables, touched>>
    BY <1>1
  <2>2. \A k \in DcKeySet \ touched : checksum1'[k] = tables[1][k]
    BY <1>1 DEF UntouchedInv
  <2>3. \A k \in DcKeySet \ touched, s \in Sides : compareTable'[s][k] = tables[s][k]
    <3>1. compareTable \in [Sides -> DcTable]
      BY DEF DcTypeOK
    <3>2. CASE UNCHANGED compareTable
      BY <3>2 DEF UntouchedInv
    <3>3. ASSUME NEW s \in Sides, compareTable' = [compareTable EXCEPT ![s] = tables[s]]
          PROVE  \A k \in DcKeySet \ touched, r \in Sides : compareTable'[r][k] = tables[r][k]
      BY <3>1, <3>3 DEF UntouchedInv
    <3>. QED BY <1>1, <3>2, <3>3
  <2>. QED BY <2>1, <2>2, <2>3 DEF UntouchedInv
<1>5. EarlyInv' /\ ReadsInv' /\ RowsInv'
  BY <1>1, <1>2 DEF EarlyInv, ReadsInv, RowsInv
<1>6. OutputInv'
  <2>1. SUFFICES ASSUME dcPhase' = "done"
                 PROVE  directions' = {} /\ \A d \in Sides : OutputFits(d)'
    BY <1>1, DcAssumption DEF OutputInv, WantedSides, Sides, DcTypeOK
  <2>2. Checksum2 /\ tables[2] = checksum1
    BY <1>1, <2>1 DEF DcGo, Checksum1, Checksum2, MakeSumRows, Sides
  <2>3. UNCHANGED compareTable /\ output = NoRows
    BY <1>1, <2>2 DEF Checksum2, EarlyInv
  <2>4. \A k \in DcKeySet \ touched, d \in Sides : compareTable[d][k] = compareTable[Other(d)][k]
    BY <2>2, OtherSide DEF UntouchedInv
  <2>5. \A d \in Sides : DOMAIN output[d] = {}
    BY <2>3 DEF NoRows
  <2>6. \A d \in Sides : OutputFits(d)
    BY <2>4, <2>5, OtherSide DEF OutputFits, InsertsOnce, WantedRow
  <2>7. \A d \in Sides : OutputFits(d)'
    BY <1>1, <2>3, <2>6, OutputKept
  <2>. QED BY <1>1, <1>2, <2>7 DEF EarlyInv
<1>. QED
  BY <1>3, <1>4, <1>5, <1>6

\* The spans are compared; the rows to read are those that differ.
LEMMA SpansStep ==
  ASSUME DcInv, CompareSpans
  PROVE  DcInv'
<1>. USE DEF DcInv
<1>. DEFINE differ == \E i \in DOMAIN Spans : Differs(Spans[i])
<1>1. /\ dcPhase = "spans" /\ dcPhase' = (IF differ THEN "read" ELSE "done")
      /\ UNCHANGED <<dcConf, tables, touched, checksum1, compareTable, changedRows, extraRows, output>>
      /\ directions' = (IF differ THEN WantedSides ELSE {})
      /\ reads' = (IF differ THEN RowsToRead(NextSide(WantedSides)) ELSE {})
  BY DEF CompareSpans, DcGo
<1>2. changedRows = NoRows /\ extraRows = NoRows /\ output = NoRows
  BY <1>1 DEF EarlyInv
<1>3. WantedSides \subseteq Sides /\ WantedSides # {} /\ WantedSides' = WantedSides
  BY <1>1, DcAssumption DEF WantedSides, Sides, DcTypeOK
<1>4. NextSide(WantedSides) \in Sides
  BY <1>3, NextSideIn
<1>5. RowsToRead(NextSide(WantedSides)) \subseteq DcReads
  BY <1>4, WhatIsRead DEF DcTypeOK
<1>. HIDE DEF differ
<1>6. DcTypeOK'
  BY <1>1, <1>3, <1>5 DEF DcTypeOK
<1>7. UntouchedInv'
  BY <1>1 DEF UntouchedInv
<1>8. EarlyInv'
  BY <1>1 DEF EarlyInv
<1>9. \A d : RowsToRead(d)' = RowsToRead(d)
  BY <1>1, ReadsUnchanged
<1>10. dcPhase' = "read" => DoneReads' = {} /\ reads' = RowsToRead(NextSide(directions))'
  BY <1>1, <1>9 DEF DoneReads
<1>11. ReadsInv'
  BY <1>1, <1>3, <1>10 DEF ReadsInv
<1>12. RowsInv'
  <2>1. \A s \in Sides : DOMAIN changedRows'[s] = {} /\ DOMAIN extraRows'[s] = {}
    BY <1>1, <1>2 DEF NoRows
  <2>2. \A s \in Sides : Sorted(KeysOf(changedRows[s]))' /\ KeysOnce(extraRows[s])'
    BY <2>1 DEF Sorted, KeysOf, KeysOnce
  <2>. QED BY <1>1, <1>10, <2>1, <2>2 DEF RowsInv, Gathered
<1>13. OutputInv'
  <2>1. CASE differ
    BY <1>1, <1>3, <2>1 DEF OutputInv
  <2>2. CASE ~differ
    <3>1. \A k \in DcKeySet : ~Differs(SpanOf[k])
      BY <2>2, DcAssumption DEF differ, ToSet
    <3>2. \A k \in DcKeySet, d \in Sides : SameSign(compareTable[d][k], compareTable[Other(d)][k])
      BY <3>1, DiffersAt, OtherSide, SignFacts
    <3>3. \A d \in Sides : DOMAIN output[d] = {}
      BY <1>2 DEF NoRows
    <3>4. \A d \in Sides : OutputFits(d)
      BY <3>2, <3>3 DEF OutputFits, InsertsOnce, WantedRow
    <3>5. \A d \in Sides : OutputFits(d)'
      BY <1>1, <3>4, OutputKept
    <3>. QED BY <1>1, <1>3, <2>2, <3>5 DEF OutputInv
  <2>. QED BY <2>1, <2>2
<1>. QED
  BY <1>6, <1>7, <1>8, <1>11, <1>12, <1>13

\* A row that is read later keeps the list sorted.
LEMMA SortedAppend ==
  ASSUME NEW rows \in Seq(DcRows), NEW row \in DcRows, Sorted(KeysOf(rows)),
         \A i \in DOMAIN rows : Earlier(rows[i].key, row.key)
  PROVE  Sorted(KeysOf(Append(rows, row)))
<1>. DEFINE n == Len(rows)
            more == Append(rows, row)
<1>1. /\ n \in Nat /\ DOMAIN rows = 1..n /\ DOMAIN more = 1..(n + 1)
      /\ \A i \in 1..n : more[i] = rows[i]
      /\ more[n + 1] = row
  BY Appended
<1>. HIDE DEF n, more
<1>. SUFFICES ASSUME NEW i \in 1..(n + 1), NEW j \in 1..(n + 1), i < j
              PROVE  Earlier(more[i].key, more[j].key)
  BY <1>1 DEF Sorted, KeysOf, more
<1>2. i \in 1..n /\ (j \in 1..n \/ j = n + 1)
  BY <1>1
<1>3. CASE j \in 1..n
  BY <1>1, <1>2, <1>3 DEF Sorted, KeysOf
<1>4. CASE j = n + 1
  BY <1>1, <1>2, <1>4
<1>. QED
  BY <1>2, <1>3, <1>4

\* A row of another key keeps the keys apart.
LEMMA KeysOnceAppend ==
  ASSUME NEW rows \in Seq(DcRows), NEW row \in DcRows, KeysOnce(rows),
         \A i \in DOMAIN rows : rows[i].key # row.key
  PROVE  KeysOnce(Append(rows, row))
<1>. DEFINE n == Len(rows)
            more == Append(rows, row)
<1>1. /\ n \in Nat /\ DOMAIN rows = 1..n /\ DOMAIN more = 1..(n + 1)
      /\ \A i \in 1..n : more[i] = rows[i]
      /\ more[n + 1] = row
  BY Appended
<1>. HIDE DEF n, more
<1>2. \A i \in 1..(n + 1) : i \in 1..n \/ i = n + 1
  BY <1>1
<1>3. KeysOnce(more)
  BY <1>1, <1>2 DEF KeysOnce
<1>. QED
  BY <1>3 DEF more

\* Rows that were read stay read.
LEMMA FromReadKept ==
  ASSUME NEW row, NEW s, NEW extra, FromRead(row, s, extra),
         UNCHANGED <<compareTable>>, touched \subseteq touched', DoneReads \subseteq DoneReads'
  PROVE  FromRead(row, s, extra)'
BY DEF FromRead

LEMMA GatheredKept ==
  ASSUME NEW rows, NEW s, NEW extra \in BOOLEAN, Gathered(rows, s, extra),
         UNCHANGED <<compareTable>>, touched \subseteq touched',
         DoneReads \subseteq DoneReads',
         \A q \in DoneReads' \ DoneReads :
           ~(q.side = s /\ q.extra = extra /\ (extra => q.key \notin touched))
  PROVE  Gathered(rows, s, extra)'
<1>1. \A i \in DOMAIN rows : FromRead(rows[i], s, extra)'
  BY FromReadKept DEF Gathered
<1>2. ASSUME NEW q \in DoneReads', q.side = s /\ q.extra = extra /\ (extra => q.key \notin touched')
      PROVE  \E i \in DOMAIN rows : rows[i].key = q.key
  BY <1>2 DEF Gathered
<1>. QED
  BY <1>1, <1>2 DEF Gathered

LEMMA GatheredAppend ==
  ASSUME NEW rows \in Seq(DcRows), NEW row \in DcRows, NEW s, NEW extra \in BOOLEAN,
         Gathered(rows, s, extra), UNCHANGED <<compareTable, touched>>,
         NEW r, DoneReads' = DoneReads \cup {r}, r.side = s, r.extra = extra, r.key = row.key,
         row.key \notin touched => row.value = compareTable[s][row.key]
  PROVE  Gathered(Append(rows, row), s, extra)'
<1>. DEFINE n == Len(rows)
            more == Append(rows, row)
<1>1. /\ n \in Nat /\ DOMAIN rows = 1..n /\ DOMAIN more = 1..(n + 1)
      /\ \A i \in 1..n : more[i] = rows[i]
      /\ more[n + 1] = row
  BY Appended
<1>. HIDE DEF n, more
<1>2. \A i \in 1..n : FromRead(rows[i], s, extra)'
  BY <1>1, FromReadKept DEF Gathered
<1>3. FromRead(row, s, extra)'
  BY DEF FromRead
<1>4. \A i \in 1..(n + 1) : i \in 1..n \/ i = n + 1
  BY <1>1
<1>5. \A i \in DOMAIN more : FromRead(more[i], s, extra)'
  BY <1>1, <1>2, <1>3, <1>4
<1>6. ASSUME NEW q \in DoneReads', q.side = s /\ q.extra = extra /\ (extra => q.key \notin touched)
      PROVE  \E i \in DOMAIN more : more[i].key = q.key
  <2>1. CASE q = r
    <3>1. n + 1 \in DOMAIN more /\ more[n + 1].key = q.key
      BY <1>1, <2>1
    <3>. QED BY <3>1
  <2>2. CASE q # r
    <3>1. PICK i \in DOMAIN rows : rows[i].key = q.key
      BY <1>6, <2>2 DEF Gathered
    <3>2. i \in DOMAIN more /\ more[i].key = q.key
      BY <1>1, <3>1
    <3>. QED BY <3>2
  <2>. QED BY <2>1, <2>2
<1>. QED
  BY <1>5, <1>6 DEF Gathered, more

\* One row is read.
LEMMA ReadRowStep ==
  ASSUME DcInv, ReadRow
  PROVE  DcInv'
<1>. USE DEF DcInv
<1>1. /\ dcPhase = "read"
      /\ UNCHANGED <<dcConf, tables, touched, checksum1, compareTable, directions, output>>
  BY DEF ReadRow
<1>2. PICK d : d = NextSide(directions)
  OBVIOUS
<1>3. PICK r \in reads :
       /\ \A q \in reads \ {r} : Precedes(TurnOf(d, r), TurnOf(d, q))
       /\ reads' = reads \ {r}
       /\ \E v \in {compareTable[r.side][r.key], tables[r.side][r.key]} :
            LET row == [key |-> r.key, value |-> v]
                added(rows) == [rows EXCEPT ![r.side] = Append(@, row)]
            IN  \/ /\ v = NoRow /\ r.span
                   /\ dcPhase' = "raised" /\ UNCHANGED <<changedRows, extraRows>>
                \/ /\ v = NoRow /\ ~r.span
                   /\ UNCHANGED <<dcPhase, changedRows, extraRows>>
                \/ /\ v # NoRow /\ UNCHANGED dcPhase
                   /\ changedRows' = IF r.extra THEN changedRows ELSE added(changedRows)
                   /\ extraRows' = IF r.extra THEN added(extraRows) ELSE extraRows
  BY <1>2 DEF ReadRow
<1>. DEFINE RowWith(v) == [key |-> r.key, value |-> v]
            Added(rows, v) == [rows EXCEPT ![r.side] = Append(rows[r.side], RowWith(v))]
<1>4. PICK v \in {compareTable[r.side][r.key], tables[r.side][r.key]} :
        \/ /\ v = NoRow /\ r.span
           /\ dcPhase' = "raised" /\ UNCHANGED <<changedRows, extraRows>>
        \/ /\ v = NoRow /\ ~r.span
           /\ UNCHANGED <<dcPhase, changedRows, extraRows>>
        \/ /\ v # NoRow /\ UNCHANGED dcPhase
           /\ changedRows' = (IF r.extra THEN changedRows ELSE Added(changedRows, v))
           /\ extraRows' = (IF r.extra THEN Added(extraRows, v) ELSE extraRows)
  BY <1>3
<1>. HIDE DEF Added
<1>5. /\ directions # {} /\ directions \subseteq WantedSides /\ reads \subseteq RowsToRead(d)
      /\ DoneReads = RowsToRead(d) \ reads
      /\ \A q \in DoneReads, p \in reads : Precedes(TurnOf(d, q), TurnOf(d, p))
  BY <1>1, <1>2 DEF ReadsInv, DoneReads
<1>6. d \in Sides
  BY <1>2, <1>5, NextSideIn DEF DcTypeOK
<1>7. /\ RowsToRead(d) \subseteq DcReads
      /\ compareTable[r.side][r.key] # NoRow
      /\ r.span \/ r.extra
  BY <1>5, <1>6, WhatIsRead DEF DcTypeOK
<1>8. r.side \in Sides /\ r.key \in DcKeySet /\ r.span \in BOOLEAN /\ r.extra \in BOOLEAN
  BY <1>5, <1>7 DEF DcReads
<1>9. DoneReads' = DoneReads \cup {r} /\ NextSide(directions)' = d /\ RowsToRead(d)' = RowsToRead(d)
  BY <1>1, <1>2, <1>3, <1>5, ReadsUnchanged DEF DoneReads
<1>10. r.key \notin touched => v = compareTable[r.side][r.key]
  BY <1>4, <1>8 DEF UntouchedInv
<1>11. v # NoRow => RowWith(v) \in DcRows
  BY <1>4, <1>8 DEF DcTypeOK, DcTable, DcRows
<1>12. DcTypeOK'
  <2>1. changedRows' \in [Sides -> Seq(DcRows)] /\ extraRows' \in [Sides -> Seq(DcRows)]
    <3>1. ASSUME NEW rows \in [Sides -> Seq(DcRows)], v # NoRow
          PROVE  Added(rows, v) \in [Sides -> Seq(DcRows)]
      <4>. HIDE DEF RowWith
      <4>1. rows[r.side] \in Seq(DcRows)
        BY <1>8
      <4>2. Append(rows[r.side], RowWith(v)) \in Seq(DcRows)
        BY <1>11, <3>1, <4>1
      <4>. HIDE <1>4
      <4>. QED BY <4>2 DEF Added
    <3>2. changedRows \in [Sides -> Seq(DcRows)] /\ extraRows \in [Sides -> Seq(DcRows)]
      BY DEF DcTypeOK
    <3>. QED BY <1>4, <3>1, <3>2
  <2>2. dcPhase' \in {"start", "checksum", "sum1", "sum2", "spans", "read", "done", "raised"}
    BY <1>1, <1>4
  <2>3. reads' \subseteq DcReads
    BY <1>3 DEF DcTypeOK
  <2>. QED BY <1>1, <2>1, <2>2, <2>3 DEF DcTypeOK
<1>13. UntouchedInv'
  BY <1>1 DEF UntouchedInv
<1>14. EarlyInv'
  BY <1>1, <1>4 DEF EarlyInv
<1>15. ReadsInv'
  <2>1. WantedSides' = WantedSides
    BY <1>1 DEF WantedSides
  <2>2. \A q \in DoneReads \cup {r}, p \in reads \ {r} : Precedes(TurnOf(d, q), TurnOf(d, p))
    BY <1>3, <1>5
  <2>3. reads' \subseteq RowsToRead(d)
    BY <1>3, <1>5
  <2>. QED BY <1>1, <1>3, <1>5, <1>9, <2>1, <2>2, <2>3 DEF ReadsInv
<1>16. OutputInv'
  <2>1. \A e \in WantedSides \ directions : OutputFits(e)
    BY <1>1 DEF OutputInv
  <2>2. \A e \in WantedSides \ directions : OutputFits(e)'
    BY <1>1, <2>1, OutputKept
  <2>3. WantedSides' = WantedSides /\ dcPhase' # "done"
    BY <1>1, <1>4 DEF WantedSides
  <2>. QED BY <1>1, <2>2, <2>3 DEF OutputInv
<1>17. RowsInv'
  <2>. SUFFICES ASSUME dcPhase' = "read", NEW s \in Sides
                PROVE
    /\ Sorted(KeysOf(changedRows'[s])) /\ KeysOnce(extraRows'[s])
    /\ Gathered(changedRows[s], s, FALSE)' /\ Gathered(extraRows[s], s, TRUE)'
    BY DEF RowsInv, KeysOnce
  <2>1. /\ Sorted(KeysOf(changedRows[s])) /\ KeysOnce(extraRows[s])
        /\ Gathered(changedRows[s], s, FALSE) /\ Gathered(extraRows[s], s, TRUE)
    BY <1>1 DEF RowsInv
  <2>2. PICK cr \in Seq(DcRows), er \in Seq(DcRows) : cr = changedRows[s] /\ er = extraRows[s]
    BY DEF DcTypeOK
  <2>3. ASSUME NEW extra \in BOOLEAN, NEW rows \in Seq(DcRows), Gathered(rows, s, extra),
               ~(r.side = s /\ r.extra = extra) \/ (extra /\ r.key \in touched)
        PROVE  Gathered(rows, s, extra)'
    BY <1>1, <1>9, <2>3, GatheredKept
  <2>4. ASSUME v # NoRow, r.side = s, NEW extra \in BOOLEAN, r.extra = extra,
               NEW rows \in Seq(DcRows), Gathered(rows, s, extra)
        PROVE  Gathered(Append(rows, RowWith(v)), s, extra)'
    <3>1. PICK row \in DcRows : row = RowWith(v)
      BY <1>11, <2>4
    <3>2. row.key = r.key /\ row.value = v
      BY <3>1
    <3>. HIDE DEF RowWith
    <3>3. Gathered(Append(rows, row), s, extra)'
      BY <1>1, <1>9, <1>10, <2>4, <3>2, GatheredAppend
    <3>. QED BY <3>1, <3>3
  <2>5. CASE v # NoRow /\ r.side = s /\ ~r.extra
    <3>1. changedRows'[s] = Append(cr, RowWith(v)) /\ extraRows'[s] = er
      BY <1>4, <2>2, <2>5 DEF Added, DcTypeOK
    <3>2. Gathered(Append(cr, RowWith(v)), s, FALSE)' /\ Gathered(er, s, TRUE)'
      BY <1>8, <2>1, <2>2, <2>3, <2>4, <2>5
    <3>3. \A i \in DOMAIN cr : Earlier(cr[i].key, r.key)
      <4>. SUFFICES ASSUME NEW i \in DOMAIN cr PROVE Earlier(cr[i].key, r.key)
        OBVIOUS
      <4>1. PICK q \in DoneReads : q.side = s /\ q.extra = FALSE /\ q.key = cr[i].key
        BY <2>1, <2>2 DEF Gathered, FromRead
      <4>2. q \in DcReads /\ r \in DcReads /\ q.span \in BOOLEAN /\ (q.span \/ q.extra)
        <5>1. q \in RowsToRead(d) /\ r \in RowsToRead(d)
          BY <1>5
        <5>2. compareTable \in [Sides -> DcTable]
          BY DEF DcTypeOK
        <5>3. q.span \/ q.extra
          BY <1>6, <5>1, <5>2, WhatIsRead
        <5>4. q \in DcReads /\ r \in DcReads
          BY <1>7, <5>1
        <5>. QED BY <5>3, <5>4 DEF DcReads
      <4>3. q.side = r.side /\ q.span = r.span
        BY <1>7, <1>8, <2>5, <4>1, <4>2
      <4>. QED BY <1>5, <1>6, <4>1, <4>2, <4>3, ReadsInOrder
    <3>4. Sorted(KeysOf(Append(cr, RowWith(v))))
      <4>1. RowWith(v) \in DcRows /\ RowWith(v).key = r.key
        BY <1>11, <2>5
      <4>. HIDE DEF RowWith
      <4>. QED BY <2>1, <2>2, <3>3, <4>1, SortedAppend
    <3>. QED BY <2>1, <2>2, <3>1, <3>2, <3>4
  <2>6. CASE v # NoRow /\ r.side = s /\ r.extra
    <3>1. changedRows'[s] = cr /\ extraRows'[s] = Append(er, RowWith(v))
      BY <1>4, <2>2, <2>6 DEF Added, DcTypeOK
    <3>2. Gathered(cr, s, FALSE)' /\ Gathered(Append(er, RowWith(v)), s, TRUE)'
      BY <1>8, <2>1, <2>2, <2>3, <2>4, <2>6
    <3>3. ASSUME NEW i \in DOMAIN er, er[i].key = r.key PROVE FALSE
      <4>1. PICK q \in DoneReads : q.side = s /\ q.key = er[i].key
        BY <2>1, <2>2 DEF Gathered, FromRead
      <4>2. q \in RowsToRead(d) /\ r \in RowsToRead(d) /\ q # r
        BY <1>5, <4>1
      <4>3. compareTable \in [Sides -> DcTable]
        BY DEF DcTypeOK
      <4>4. \A a, b \in RowsToRead(d) : a.side = b.side /\ a.key = b.key => a = b
        BY <1>6, <4>3, WhatIsRead
      <4>. QED BY <2>6, <3>3, <4>1, <4>2, <4>4
    <3>4. KeysOnce(Append(er, RowWith(v)))
      <4>1. PICK row \in DcRows : row = RowWith(v) /\ row.key = r.key
        BY <1>11, <2>6
      <4>2. KeysOnce(er)
        BY <2>1, <2>2
      <4>. QED BY <2>2, <3>3, <4>1, <4>2, KeysOnceAppend
    <3>. QED BY <2>1, <2>2, <3>1, <3>2, <3>4
  <2>7. CASE v = NoRow \/ r.side # s
    <3>1. changedRows'[s] = cr /\ extraRows'[s] = er
      BY <1>4, <1>8, <2>2, <2>7 DEF Added, DcTypeOK
    <3>2. r.side = s => r.extra /\ r.key \in touched
      <4>. SUFFICES ASSUME r.side = s PROVE r.extra /\ r.key \in touched
        OBVIOUS
      <4>1. v = NoRow /\ ~r.span
        BY <1>1, <1>4, <2>7
      <4>. QED BY <1>7, <1>10, <4>1
    <3>3. Gathered(cr, s, FALSE)' /\ Gathered(er, s, TRUE)'
      BY <1>8, <2>1, <2>2, <2>3, <3>2
    <3>. QED BY <2>1, <2>2, <3>1, <3>3
  <2>. QED BY <1>8, <2>5, <2>6, <2>7
<1>. QED
  BY <1>12, <1>13, <1>14, <1>15, <1>16, <1>17

\* What a concatenation is made of.
Within(p, q) == \A i \in DOMAIN p : \E j \in DOMAIN q : q[j] = p[i]
MadeOf(all, p, q) ==
  \A j \in DOMAIN all : (\E i \in DOMAIN p : all[j] = p[i]) \/ (\E i \in DOMAIN q : all[j] = q[i])

\* Each row of a joined list is a row of one of the two.
LEMMA Joined ==
  ASSUME NEW S, NEW p \in Seq(S), NEW q \in Seq(S)
  PROVE  p \o q \in Seq(S) /\ Within(p, p \o q) /\ Within(q, p \o q) /\ MadeOf(p \o q, p, q)
<1>. DEFINE all == p \o q
            m == Len(p)
            n == Len(q)
<1>1. /\ all \in Seq(S) /\ m \in Nat /\ n \in Nat
      /\ DOMAIN p = 1..m /\ DOMAIN q = 1..n /\ DOMAIN all = 1..(m + n)
      /\ \A i \in 1..m : all[i] = p[i]
      /\ \A i \in 1..n : all[m + i] = q[i]
  BY Concat
<1>. HIDE DEF all, m, n
<1>2. \A i \in 1..m : i \in DOMAIN all /\ all[i] = p[i]
  BY <1>1
<1>3. \A i \in 1..n : m + i \in DOMAIN all /\ all[m + i] = q[i]
  BY <1>1
<1>4. ASSUME NEW j \in DOMAIN all
      PROVE  (\E i \in DOMAIN p : all[j] = p[i]) \/ (\E i \in DOMAIN q : all[j] = q[i])
  <2>1. CASE j <= m
    BY <1>1, <2>1
  <2>2. CASE m < j
    <3>1. j - m \in 1..n /\ m + (j - m) = j
      BY <1>1, <2>2
    <3>. QED BY <1>1, <1>3, <3>1
  <2>. QED BY <1>1, <2>1, <2>2
<1>5. Within(p, all) /\ Within(q, all)
  BY <1>1, <1>2, <1>3 DEF Within
<1>6. MadeOf(all, p, q)
  BY <1>4 DEF MadeOf
<1>. QED
  BY <1>1, <1>5, <1>6 DEF all

\* Inserts that follow other statements are as many as they were.
LEMMA OnlyInsertsLast ==
  ASSUME NEW p \in Seq(Ops), NEW q \in Seq(Ops), NEW r \in Seq(Ops),
         \A i \in DOMAIN p : p[i].op = "update", \A i \in DOMAIN q : q[i].op = "delete",
         \A i, j \in DOMAIN r : Target(r[i]) = Target(r[j]) => i = j
  PROVE  InsertsOnce(p \o q \o r)
<1>. DEFINE both == p \o q
            all == both \o r
            m == Len(both)
            n == Len(r)
<1>1. both \in Seq(Ops) /\ MadeOf(both, p, q)
  BY Joined
<1>2. \A i \in DOMAIN both : both[i].op # "insert"
  BY <1>1 DEF MadeOf
<1>. HIDE DEF both
<1>3. /\ m \in Nat /\ n \in Nat
      /\ DOMAIN both = 1..m /\ DOMAIN r = 1..n /\ DOMAIN all = 1..(m + n)
      /\ \A i \in 1..m : all[i] = both[i]
      /\ \A i \in 1..n : all[m + i] = r[i]
  BY <1>1, Concat
<1>. HIDE DEF all, m, n
<1>4. ASSUME NEW j \in DOMAIN all, all[j].op = "insert"
      PROVE  j - m \in 1..n /\ all[j] = r[j - m]
  <2>1. j \in Int /\ ~(j <= m)
    BY <1>2, <1>3, <1>4
  <2>2. j - m \in 1..n /\ m + (j - m) = j
    BY <1>3, <2>1
  <2>. QED BY <1>3, <2>2
<1>5. ASSUME NEW i \in DOMAIN all, NEW j \in DOMAIN all, all[i].op = "insert", all[j].op = "insert",
             Target(all[i]) = Target(all[j])
      PROVE  i = j
  <2>1. i - m = j - m
    BY <1>3, <1>4, <1>5
  <2>. QED BY <1>3, <2>1
<1>6. InsertsOnce(all)
  BY <1>5 DEF InsertsOnce
<1>. QED
  BY <1>6 DEF all, both

\* When all is read, the two sides have rows of the same keys, in the same order.
LEMMA RowsPair ==
  ASSUME DcInv, dcPhase = "read", reads = {}, NEW d \in Sides
  PROVE  /\ DOMAIN changedRows[d] = DOMAIN changedRows[Other(d)]
         /\ \A i \in DOMAIN changedRows[d] : changedRows[d][i].key = changedRows[Other(d)][i].key
<1>. USE DEF DcInv
<1>1. PICK e \in Sides : DoneReads = RowsToRead(e)
  BY NextSideIn DEF ReadsInv, DoneReads, DcTypeOK
<1>0. /\ RowsToRead(e) \subseteq DcReads
      /\ \A r \in RowsToRead(e) :
           /\ compareTable[r.side][r.key] # NoRow
           /\ ~SameSign(compareTable[r.side][r.key], compareTable[Other(r.side)][r.key])
           /\ r.extra <=> compareTable[Other(r.side)][r.key] = NoRow
      /\ \A s \in Sides, k \in DcKeySet :
           compareTable[s][k] # NoRow /\ ~SameSign(compareTable[s][k], compareTable[Other(s)][k]) =>
             \E r \in RowsToRead(e) : r.side = s /\ r.key = k
  BY WhatIsRead DEF DcTypeOK
<1>2. ASSUME NEW s \in Sides
      PROVE  /\ changedRows[s] \in Seq(DcRows) /\ Sorted(KeysOf(changedRows[s]))
             /\ \A i \in DOMAIN changedRows[s] : FromRead(changedRows[s][i], s, FALSE)
             /\ \A q \in DoneReads : q.side = s /\ q.extra = FALSE =>
                  \E i \in DOMAIN changedRows[s] : changedRows[s][i].key = q.key
  BY DEF RowsInv, Gathered, DcTypeOK
<1>3. ASSUME NEW s \in Sides, NEW i \in DOMAIN changedRows[s]
      PROVE  \E j \in DOMAIN changedRows[Other(s)] : changedRows[Other(s)][j].key = changedRows[s][i].key
  <2>1. PICK q \in DoneReads : q.side = s /\ q.extra = FALSE /\ q.key = changedRows[s][i].key
    <3>1. FromRead(changedRows[s][i], s, FALSE)
      BY <1>2
    <3>. QED BY <3>1 DEF FromRead
  <2>2. /\ q.key \in DcKeySet /\ compareTable[s][q.key] # NoRow
        /\ ~SameSign(compareTable[s][q.key], compareTable[Other(s)][q.key])
        /\ compareTable[Other(s)][q.key] # NoRow
    BY <1>0, <1>1, <2>1 DEF DcReads
  <2>3. Other(s) \in Sides /\ Other(Other(s)) = s
    BY OtherSide
  <2>4. PICK p \in RowsToRead(e) : p.side = Other(s) /\ p.key = q.key
    BY <1>0, <2>2, <2>3, SignFacts
  <2>5. p \in DcReads /\ (p.extra <=> compareTable[s][p.key] = NoRow)
    BY <1>0, <2>3, <2>4
  <2>6. p.extra = FALSE
    BY <2>2, <2>4, <2>5 DEF DcReads
  <2>7. \E j \in DOMAIN changedRows[Other(s)] : changedRows[Other(s)][j].key = p.key
    BY <1>1, <1>2, <2>3, <2>4, <2>6
  <2>. QED BY <2>1, <2>4, <2>7
<1>4. Other(d) \in Sides /\ Other(Other(d)) = d
  BY OtherSide
<1>5. SameKeys(KeysOf(changedRows[d]), KeysOf(changedRows[Other(d)]))
  <2>1. /\ \A i \in DOMAIN changedRows[d] : \E j \in DOMAIN changedRows[Other(d)] :
             changedRows[Other(d)][j].key = changedRows[d][i].key
        /\ \A i \in DOMAIN changedRows[Other(d)] : \E j \in DOMAIN changedRows[d] :
             changedRows[d][j].key = changedRows[Other(d)][i].key
    BY <1>3, <1>4
  <2>. QED BY <2>1 DEF SameKeys, KeysOf
<1>. QED
  BY <1>2, <1>4, <1>5, Pairing

\* transform_data makes statements that leave, in each untouched row, the other value.
LEMMA GenerateOutputStep ==
  ASSUME DcInv, GenerateOutput
  PROVE  DcInv'
<1>. USE DEF DcInv
<1>1. PICK d : d = NextSide(directions)
  OBVIOUS
<1>2. PICK rest : rest = directions \ {d}
  OBVIOUS
<1>3. /\ dcPhase = "read" /\ reads = {}
      /\ dcPhase' = (IF rest = {} THEN "done" ELSE "read")
      /\ UNCHANGED <<dcConf, tables, touched, checksum1, compareTable>>
      /\ output' = [output EXCEPT ![d] = TransformData(d)]
      /\ directions' = rest
      /\ reads' = IF rest = {} THEN {} ELSE RowsToRead(NextSide(rest))
      /\ changedRows' = NoRows /\ extraRows' = NoRows
  BY <1>1, <1>2 DEF GenerateOutput, DcGo
<1>4. directions # {} /\ directions \subseteq WantedSides /\ directions \subseteq Sides
  BY <1>3 DEF ReadsInv, DcTypeOK
<1>5. d \in directions /\ d \in Sides
  BY <1>1, <1>4, NextSideIn
<1>6. PICK o \in Sides : o = Other(d)
  BY <1>5, OtherSide
<1>7. DoneReads = RowsToRead(d) /\ WantedSides' = WantedSides /\ \A e : RowsToRead(e)' = RowsToRead(e)
  BY <1>1, <1>3, ReadsUnchanged DEF DoneReads, WantedSides
<1>0. /\ RowsToRead(d) \subseteq DcReads
      /\ \A r \in RowsToRead(d) :
           /\ compareTable[r.side][r.key] # NoRow
           /\ ~SameSign(compareTable[r.side][r.key], compareTable[Other(r.side)][r.key])
           /\ r.extra <=> compareTable[Other(r.side)][r.key] = NoRow
      /\ \A s \in Sides, k \in DcKeySet :
           compareTable[s][k] # NoRow /\ ~SameSign(compareTable[s][k], compareTable[Other(s)][k]) =>
             \E r \in RowsToRead(d) : r.side = s /\ r.key = k
  BY <1>5, WhatIsRead DEF DcTypeOK
<1>8. PICK cd, co, ed, eo : cd = changedRows[d] /\ co = changedRows[o] /\ ed = extraRows[d] /\ eo = extraRows[o]
  OBVIOUS
<1>9. {cd, co, ed, eo} \subseteq Seq(DcRows)
  BY <1>5, <1>8 DEF DcTypeOK
<1>10. DOMAIN cd = DOMAIN co /\ \A i \in DOMAIN cd : cd[i].key = co[i].key
  BY <1>3, <1>5, <1>6, <1>8, RowsPair
<1>. DEFINE Op(op, old, new) == [op |-> op, old |-> old, new |-> new]
            updates == [i \in DOMAIN cd |-> Op("update", cd[i], co[i])]
            deletes == [i \in DOMAIN ed |-> Op("delete", ed[i], ed[i])]
            inserts == [i \in DOMAIN eo |-> Op("insert", eo[i], eo[i])]
            all == updates \o deletes \o inserts
<1>11. TransformData(d) = all
  BY <1>6, <1>8 DEF TransformData
<1>22. KeysOnce(eo)
  BY <1>3, <1>8 DEF RowsInv
<1>12. updates \in Seq(Ops) /\ deletes \in Seq(Ops) /\ inserts \in Seq(Ops)
  <2>1. \A r \in {cd, co, ed, eo} : \A i \in DOMAIN r : r[i] \in DcRows
    BY <1>9
  <2>2. \A r \in {cd, co, ed, eo} : Len(r) \in Nat /\ DOMAIN r = 1..Len(r)
    BY <1>9
  <2>3. /\ \A i \in DOMAIN cd : Op("update", cd[i], co[i]) \in Ops
        /\ \A i \in DOMAIN ed : Op("delete", ed[i], ed[i]) \in Ops
        /\ \A i \in DOMAIN eo : Op("insert", eo[i], eo[i]) \in Ops
    BY <1>10, <2>1 DEF Ops
  <2>. HIDE DEF Op
  <2>. QED BY <2>2, <2>3
<1>23. InsertsOnce(all)
  <2>1. /\ \A i \in DOMAIN updates : updates[i].op = "update"
        /\ \A i \in DOMAIN deletes : deletes[i].op = "delete"
        /\ \A i \in DOMAIN inserts : i \in DOMAIN eo /\ Target(inserts[i]) = eo[i].key
    BY DEF Target
  <2>. HIDE DEF updates, deletes, inserts
  <2>2. \A i, j \in DOMAIN inserts : Target(inserts[i]) = Target(inserts[j]) => i = j
    BY <1>22, <2>1 DEF KeysOnce
  <2>. QED BY <1>12, <2>1, <2>2, OnlyInsertsLast DEF all
<1>. HIDE DEF updates, deletes, inserts, all
<1>13. /\ all \in Seq(Ops)
       /\ \A i \in DOMAIN updates : \E j \in DOMAIN all : all[j] = updates[i]
       /\ \A i \in DOMAIN deletes : \E j \in DOMAIN all : all[j] = deletes[i]
       /\ \A i \in DOMAIN inserts : \E j \in DOMAIN all : all[j] = inserts[i]
       /\ \A j \in DOMAIN all :
            \/ \E i \in DOMAIN updates : all[j] = updates[i]
            \/ \E i \in DOMAIN deletes : all[j] = deletes[i]
            \/ \E i \in DOMAIN inserts : all[j] = inserts[i]
  <2>. DEFINE both == updates \o deletes
  <2>1. both \in Seq(Ops) /\ Within(updates, both) /\ Within(deletes, both) /\ MadeOf(both, updates, deletes)
    BY <1>12, Joined
  <2>2. all = both \o inserts
    BY DEF all
  <2>. HIDE DEF both
  <2>3. all \in Seq(Ops) /\ Within(both, all) /\ Within(inserts, all) /\ MadeOf(all, both, inserts)
    BY <1>12, <2>1, <2>2, Joined
  <2>4. Within(updates, all) /\ Within(deletes, all)
    BY <2>1, <2>3 DEF Within
  <2>5. ASSUME NEW j \in DOMAIN all
        PROVE  \/ \E i \in DOMAIN updates : all[j] = updates[i]
               \/ \E i \in DOMAIN deletes : all[j] = deletes[i]
               \/ \E i \in DOMAIN inserts : all[j] = inserts[i]
    BY <2>1, <2>3 DEF MadeOf
  <2>. QED BY <2>3, <2>4, <2>5 DEF Within
<1>14. output' \in [Sides -> Seq(Ops)] /\ output'[d] = all /\ \A e \in Sides \ {d} : output'[e] = output[e]
  <2>1. output' = [output EXCEPT ![d] = all] /\ output \in [Sides -> Seq(Ops)]
    BY <1>3, <1>11 DEF DcTypeOK
  <2>. QED BY <1>5, <1>13, <2>1
<1>15. DcTypeOK'
  <2>1. reads' \subseteq DcReads
    <3>1. rest # {} => NextSide(rest) \in Sides
      BY <1>2, <1>4, NextSideIn
    <3>2. rest # {} => RowsToRead(NextSide(rest)) \subseteq DcReads
      BY <3>1, WhatIsRead DEF DcTypeOK
    <3>. QED BY <1>3, <3>2
  <2>2. NoRows \in [Sides -> Seq(DcRows)]
    BY DEF NoRows
  <2>. QED BY <1>2, <1>3, <1>14, <2>1, <2>2 DEF DcTypeOK
<1>16. UntouchedInv' /\ EarlyInv'
  BY <1>3 DEF UntouchedInv, EarlyInv
<1>17. dcPhase' = "read" => DoneReads' = {} /\ reads' = RowsToRead(NextSide(directions))'
  BY <1>3, <1>7 DEF DoneReads
<1>18. ReadsInv'
  BY <1>2, <1>3, <1>4, <1>7, <1>17 DEF ReadsInv
<1>19. RowsInv'
  <2>1. \A s \in Sides : DOMAIN changedRows'[s] = {} /\ DOMAIN extraRows'[s] = {}
    BY <1>3 DEF NoRows
  <2>2. \A s \in Sides : Sorted(KeysOf(changedRows[s]))' /\ KeysOnce(extraRows[s])'
    BY <2>1 DEF Sorted, KeysOf, KeysOnce
  <2>. QED BY <1>3, <1>17, <2>1, <2>2 DEF RowsInv, Gathered
<1>20. OutputFits(d)'
  <2>. SUFFICES ASSUME NEW k \in DcKeySet \ touched
                PROVE  LET x == compareTable[d][k]
                           y == WantedRow(x, compareTable[o][k])
                       IN  /\ \A j \in DOMAIN all : Target(all[j]) = k => Gives(all[j], x, y)
                           /\ x # y => \E j \in DOMAIN all : Target(all[j]) = k
    BY <1>3, <1>6, <1>14, <1>23 DEF OutputFits, WantedRow
  <2>. DEFINE x == compareTable[d][k]
              z == compareTable[o][k]
              y == WantedRow(x, z)
  <2>0. Other(o) = d /\ o # d /\ Sides = {d, o}
    BY <1>5, <1>6, OtherSide
  <2>1. /\ Gathered(cd, d, FALSE) /\ Gathered(co, o, FALSE)
        /\ Gathered(ed, d, TRUE) /\ Gathered(eo, o, TRUE)
    BY <1>3, <1>5, <1>8 DEF RowsInv
  <2>2. ASSUME NEW i \in DOMAIN cd, cd[i].key = k
        PROVE  cd[i].value = x /\ co[i].value = y /\ x # y /\ x # NoRow /\ y # NoRow
    <3>1. cd[i].value = x /\ co[i].value = z /\ i \in DOMAIN co
      BY <1>10, <2>1, <2>2 DEF Gathered, FromRead
    <3>2. PICK q \in RowsToRead(d) : q.side = d /\ q.extra = FALSE /\ q.key = k
      BY <1>7, <2>1, <2>2 DEF Gathered, FromRead
    <3>3. q.extra <=> z = NoRow
      BY <1>5, <1>6, <3>2, <1>0
    <3>4. ~SameSign(x, z) /\ x # NoRow /\ z # NoRow
      BY <1>5, <1>6, <3>2, <3>3, <1>0
    <3>5. y = z
      BY <3>4 DEF WantedRow
    <3>6. x # z
      BY <3>4, SignFacts
    <3>. QED BY <3>1, <3>4, <3>5, <3>6
  <2>3. ASSUME NEW i \in DOMAIN ed, ed[i].key = k
        PROVE  y = NoRow
    <3>1. PICK q \in RowsToRead(d) : q.side = d /\ q.extra = TRUE /\ q.key = k
      BY <1>7, <2>1, <2>3 DEF Gathered, FromRead
    <3>2. ~SameSign(x, z) /\ z = NoRow
      BY <1>5, <1>6, <3>1, <1>0
    <3>. QED BY <3>2 DEF WantedRow
  <2>4. ASSUME NEW i \in DOMAIN eo, eo[i].key = k
        PROVE  eo[i].value = y /\ x = NoRow /\ y # NoRow
    <3>1. PICK q \in RowsToRead(d) : q.side = o /\ q.extra = TRUE /\ q.key = k
      BY <1>7, <2>1, <2>4 DEF Gathered, FromRead
    <3>2. eo[i].value = z
      BY <2>1, <2>4 DEF Gathered, FromRead
    <3>3. x = NoRow /\ z # NoRow
      BY <1>6, <2>0, <3>1, <1>0
    <3>4. ~SameSign(x, z)
      BY <3>3, SignFacts
    <3>. QED BY <3>2, <3>3, <3>4 DEF WantedRow
  <2>5. ASSUME NEW j \in DOMAIN all, Target(all[j]) = k
        PROVE  Gives(all[j], x, y)
    <3>1. CASE \E i \in DOMAIN updates : all[j] = updates[i]
      <4>1. PICK i \in DOMAIN cd : all[j] = Op("update", cd[i], co[i])
        BY <3>1 DEF updates
      <4>2. all[j].op = "update" /\ all[j].old = cd[i] /\ all[j].new = co[i]
        BY <4>1
      <4>3. cd[i].key = k
        BY <1>10, <2>5, <4>2 DEF Target
      <4>. QED BY <2>2, <4>2, <4>3 DEF Gives
    <3>2. CASE \E i \in DOMAIN deletes : all[j] = deletes[i]
      <4>1. PICK i \in DOMAIN ed : all[j] = Op("delete", ed[i], ed[i])
        BY <3>2 DEF deletes
      <4>2. all[j].op = "delete" /\ all[j].old = ed[i]
        BY <4>1
      <4>3. ed[i].key = k
        BY <2>5, <4>2 DEF Target
      <4>. QED BY <2>3, <4>2, <4>3 DEF Gives
    <3>3. CASE \E i \in DOMAIN inserts : all[j] = inserts[i]
      <4>1. PICK i \in DOMAIN eo : all[j] = Op("insert", eo[i], eo[i])
        BY <3>3 DEF inserts
      <4>2. all[j].op = "insert" /\ all[j].new = eo[i]
        BY <4>1
      <4>3. eo[i].key = k
        BY <2>5, <4>2 DEF Target
      <4>. QED BY <2>4, <4>2, <4>3 DEF Gives
    <3>. QED BY <1>13, <3>1, <3>2, <3>3
  <2>6. ASSUME x # y PROVE \E j \in DOMAIN all : Target(all[j]) = k
    <3>0. ~SameSign(x, z) /\ ~SameSign(z, x) /\ y = z
      BY <2>6, SignFacts DEF WantedRow
    <3>. HIDE DEF y
    <3>1. CASE x # NoRow /\ z # NoRow
      <4>1. PICK q \in RowsToRead(d) : q.side = d /\ q.key = k
        BY <1>5, <1>6, <3>0, <3>1, <1>0
      <4>2. q.extra = FALSE
        BY <1>5, <1>6, <3>1, <4>1, <1>0 DEF DcReads
      <4>3. PICK i \in DOMAIN cd : cd[i].key = k
        BY <1>7, <2>1, <4>1, <4>2 DEF Gathered
      <4>4. i \in DOMAIN updates /\ updates[i].op = "update" /\ updates[i].new.key = k
        BY <1>10, <4>3 DEF updates
      <4>. QED BY <1>13, <4>4 DEF Target
    <3>2. CASE x # NoRow /\ z = NoRow
      <4>1. PICK q \in RowsToRead(d) : q.side = d /\ q.key = k
        BY <1>5, <1>6, <3>0, <3>2, <1>0
      <4>2. q.extra = TRUE
        BY <1>5, <1>6, <3>2, <4>1, <1>0 DEF DcReads
      <4>3. PICK i \in DOMAIN ed : ed[i].key = k
        BY <1>7, <2>1, <4>1, <4>2 DEF Gathered
      <4>4. i \in DOMAIN deletes /\ deletes[i].op = "delete" /\ deletes[i].old.key = k
        BY <4>3 DEF deletes
      <4>. QED BY <1>13, <4>4 DEF Target
    <3>4. x = NoRow => z # NoRow
      BY <3>0, SignFacts
    <3>3. CASE x = NoRow
      <4>1. PICK q \in RowsToRead(d) : q.side = o /\ q.key = k
        BY <1>5, <2>0, <3>0, <3>3, <3>4, <1>0
      <4>2. q.extra = TRUE
        BY <1>5, <2>0, <3>3, <4>1, <1>0 DEF DcReads
      <4>3. PICK i \in DOMAIN eo : eo[i].key = k
        BY <1>7, <2>1, <4>1, <4>2 DEF Gathered
      <4>4. i \in DOMAIN inserts /\ inserts[i].op = "insert" /\ inserts[i].new.key = k
        BY <4>3 DEF inserts
      <4>. QED BY <1>13, <4>4 DEF Target
    <3>. QED BY <3>1, <3>2, <3>3
  <2>. QED BY <2>5, <2>6
<1>21. OutputInv'
  <2>1. \A e \in WantedSides \ directions : OutputFits(e)
    BY <1>3 DEF OutputInv
  <2>2. WantedSides \subseteq Sides
    BY DcAssumption DEF WantedSides, DcTypeOK, Sides
  <2>3. \A e \in WantedSides \ directions : OutputFits(e)'
    BY <1>3, <1>5, <1>14, <2>1, <2>2, OutputKept
  <2>4. \A e \in WantedSides \ rest : e = d \/ e \in WantedSides \ directions
    BY <1>2
  <2>. QED BY <1>3, <1>7, <1>20, <2>3, <2>4 DEF OutputInv
<1>. QED
  BY <1>15, <1>16, <1>18, <1>19, <1>21

\* A client writes to a row, which is touched.
LEMMA WriteStep ==
  ASSUME DcInv, NEW s \in Sides, NEW k \in DcKeySet, NEW v \in DcValues \cup {NoRow},
         ClientWrites(s, k, v)
  PROVE  DcInv'
<1>. USE DEF DcInv
<1>1. /\ UNCHANGED <<dcConf, dcPhase, checksum1, compareTable, directions, reads, changedRows, extraRows, output>>
      /\ tables' = [tables EXCEPT ![s][k] = v] /\ touched' = touched \cup {k}
      /\ dcPhase # "done"
  BY DEF ClientWrites, dcReading
<1>2. tables' \in [Sides -> DcTable]
  <2>1. tables[s] \in DcTable
    BY DEF DcTypeOK
  <2>2. [tables[s] EXCEPT ![k] = v] \in DcTable
    BY <2>1 DEF DcTable
  <2>. HIDE DEF DcTable
  <2>. QED BY <1>1, <2>2 DEF DcTypeOK
<1>3. DcTypeOK'
  BY <1>1, <1>2 DEF DcTypeOK
<1>4. UntouchedInv'
  <2>1. \A l \in DcKeySet \ {k}, r \in Sides : tables'[r][l] = tables[r][l]
    BY <1>1 DEF DcTypeOK, DcTable
  <2>. QED BY <1>1, <2>1, OtherSide DEF UntouchedInv
<1>5. DoneReads' = DoneReads /\ WantedSides' = WantedSides /\ \A e : RowsToRead(e)' = RowsToRead(e)
  BY <1>1, ReadsUnchanged DEF DoneReads, WantedSides
<1>6. EarlyInv' /\ ReadsInv'
  BY <1>1, <1>5 DEF EarlyInv, ReadsInv
<1>7. RowsInv'
  <2>1. ASSUME NEW rows, NEW r \in Sides, NEW extra \in BOOLEAN, Gathered(rows, r, extra)
        PROVE  Gathered(rows, r, extra)'
    BY <1>1, <1>5, <2>1, GatheredKept
  <2>. SUFFICES ASSUME dcPhase = "read", NEW r \in Sides
                PROVE  /\ Sorted(KeysOf(changedRows'[r])) /\ KeysOnce(extraRows'[r])
                       /\ Gathered(changedRows[r], r, FALSE)' /\ Gathered(extraRows[r], r, TRUE)'
    BY <1>1 DEF RowsInv, KeysOnce
  <2>2. PICK cr, er : cr = changedRows[r] /\ er = extraRows[r]
    OBVIOUS
  <2>3. cr = changedRows'[r] /\ er = extraRows'[r]
    BY <1>1, <2>2
  <2>4. Sorted(KeysOf(cr)) /\ KeysOnce(er) /\ Gathered(cr, r, FALSE) /\ Gathered(er, r, TRUE)
    BY <2>2 DEF RowsInv
  <2>5. Gathered(cr, r, FALSE)' /\ Gathered(er, r, TRUE)'
    BY <2>1, <2>4
  <2>. QED BY <2>3, <2>4, <2>5
<1>8. OutputInv'
  <2>1. dcPhase = "read" => \A e \in WantedSides \ directions : OutputFits(e)
    BY DEF OutputInv
  <2>2. dcPhase = "read" => \A e \in WantedSides \ directions : OutputFits(e)'
    BY <1>1, <2>1, OutputKept
  <2>. QED BY <1>1, <1>5, <2>2 DEF OutputInv
<1>. QED
  BY <1>3, <1>4, <1>6, <1>7, <1>8

\* Nothing happens.
LEMMA DcStutter ==
  ASSUME DcInv, UNCHANGED dcVars
  PROVE  DcInv'
<1>. USE DEF DcInv
<1>1. UNCHANGED <<dcConf, dcPhase, tables, touched, checksum1, compareTable, directions, reads,
                  changedRows, extraRows, output>>
  BY DEF dcVars, dcReading
<1>2. DoneReads' = DoneReads /\ WantedSides' = WantedSides /\ \A e : RowsToRead(e)' = RowsToRead(e)
  BY <1>1, ReadsUnchanged DEF DoneReads, WantedSides
<1>3. DcTypeOK' /\ UntouchedInv' /\ EarlyInv' /\ ReadsInv'
  BY <1>1, <1>2 DEF DcTypeOK, UntouchedInv, EarlyInv, ReadsInv
<1>4. RowsInv'
  BY <1>1, <1>2 DEF RowsInv, Gathered, FromRead, KeysOnce
<1>5. OutputInv'
  BY <1>1, <1>2 DEF OutputInv, OutputFits, InsertsOnce, WantedRow
<1>. QED
  BY <1>3, <1>4, <1>5

----------------------------------------------------------------------------
\* check_consistency keeps the invariant, whatever clients write.
THEOREM DcInvariance == DcSpec => []DcInv
<1>1. DcInv /\ [DcNext]_dcVars => DcInv'
  <2>. SUFFICES ASSUME DcInv, [DcNext]_dcVars PROVE DcInv'
    OBVIOUS
  <2>1. CASE DcTool
    BY <2>1, TablesStep, SpansStep, ReadRowStep, GenerateOutputStep DEF DcTool
  <2>2. CASE \E s \in Sides, k \in DcKeySet, v \in DcValues \cup {NoRow} : ClientWrites(s, k, v)
    BY <2>2, WriteStep
  <2>3. CASE UNCHANGED dcVars
    BY <2>3, DcStutter
  <2>. QED BY <2>1, <2>2, <2>3 DEF DcNext
<1>. QED
  BY <1>1, DcInitInv, PTL DEF DcSpec

\* The variables of the comparison keep their types.
THEOREM DcTypeCorrect == DcSpec => []DcTypeOK
BY DcInvariance, PTL DEF DcInv

\* Statements that fit run, and make the tables equal.
LEMMA EqualInEnd == DcInv => DiffMakesEqual
<1>. SUFFICES ASSUME DcInv, dcPhase = "done", NEW d \in WantedSides
              PROVE
    /\ \A k \in DcKeySet \ touched :
         After(tables[d], output[d])[k] =
           IF SameSign(tables[1][k], tables[2][k]) THEN tables[d][k] ELSE tables[Other(d)][k]
    /\ \A i \in DOMAIN output[d] :
         Target(output[d][i]) \notin touched =>
           ~Fails(TablesOf(tables[d], output[d])[i - 1], output[d][i])
  BY DEF DiffMakesEqual
<1>1. d \in Sides /\ Other(d) \in Sides
  BY DcAssumption, OtherSide DEF DcInv, DcTypeOK, WantedSides
<1>2. OutputFits(d)
  BY DEF DcInv, OutputInv
<1>3. tables[d] \in DcTable /\ output[d] \in Seq(Ops)
  BY <1>1 DEF DcInv, DcTypeOK
<1>4. PICK t \in DcTable, sts \in Seq(Ops) : t = tables[d] /\ sts = output[d]
  BY <1>3
<1>5. ASSUME NEW k \in DcKeySet \ touched
      PROVE  \E v :
        /\ v = IF SameSign(tables[1][k], tables[2][k]) THEN tables[d][k] ELSE tables[Other(d)][k]
        /\ AllGive(sts, k, t[k], v)
        /\ t[k] = v \/ \E i \in DOMAIN sts : Target(sts[i]) = k
  <2>1. tables[d][k] = compareTable[d][k] /\ tables[Other(d)][k] = compareTable[Other(d)][k]
    BY <1>1 DEF DcInv, UntouchedInv
  <2>2. WantedRow(tables[d][k], tables[Other(d)][k]) =
          IF SameSign(tables[1][k], tables[2][k]) THEN tables[d][k] ELSE tables[Other(d)][k]
    BY <1>1, OtherSide, SignFacts DEF WantedRow
  <2>. QED BY <1>2, <1>4, <2>1, <2>2 DEF OutputFits, AllGive
<1>6. ASSUME NEW k \in DcKeySet \ touched
      PROVE  After(t, sts)[k] =
        IF SameSign(tables[1][k], tables[2][k]) THEN tables[d][k] ELSE tables[Other(d)][k]
  <2>1. PICK v :
        /\ v = IF SameSign(tables[1][k], tables[2][k]) THEN tables[d][k] ELSE tables[Other(d)][k]
        /\ AllGive(sts, k, t[k], v)
        /\ t[k] = v \/ \E i \in DOMAIN sts : Target(sts[i]) = k
    BY <1>5
  <2>2. After(t, sts)[k] = v
    BY <2>1, AfterValue
  <2>. QED BY <2>1, <2>2
<1>7. ASSUME NEW i \in DOMAIN sts, Target(sts[i]) \notin touched
      PROVE  ~Fails(TablesOf(t, sts)[i - 1], sts[i])
  <2>1. PICK k \in DcKeySet \ touched : k = Target(sts[i])
    <3>1. sts[i] \in Ops
      OBVIOUS
    <3>. QED BY <1>7, <3>1 DEF Target, Ops, DcRows
  <2>2. PICK v : AllGive(sts, k, t[k], v)
    BY <1>5
  <2>3. InsertsOnce(sts)
    BY <1>2, <1>4 DEF OutputFits
  <2>. QED BY <2>1, <2>2, <2>3, NoneFails
<1>. QED
  BY <1>4, <1>6, <1>7

\* The statements _generate_data_diff_output generates under --difftype=sql all run, and turn
\* each table into the other one, in every row no client wrote to meanwhile, but for rows of
\* one sign (compare_sign), which they leave as they are.
THEOREM DiffMakesTablesEqual == DcSpec => []DiffMakesEqual
BY DcInvariance, EqualInEnd, PTL

----------------------------------------------------------------------------
\* The tools together.

\* A tool that does not run is in an initial state of its own, and stays there.
LEMMA EachBegins ==
  DtInit => CpInit /\ BlInit /\ TmInit /\ VoInit /\ IxInit /\ ImInit /\ DcInit
BY DEF DtInit, CpIdle, BlIdle, TmIdle, VoIdle, IxIdle, ImIdle, DcIdle

LEMMA EachStep ==
  [DtNext]_dtVars =>
    /\ [CpNext]_cpVars /\ [BlNext]_blVars /\ [TmNext]_tmVars /\ [VoNext]_voVars
    /\ [CheckPair]_ixVars /\ [ImNext]_imVars /\ [DcNext]_dcVars
BY DEF DtNext, dtVars

\* The seven tools run as if each were alone: what is proved of a tool's own
\* specification is true of the composition.
THEOREM ToolsRunAlone ==
  DtSpec => CpSpec /\ BlSpec /\ TmSpec /\ VoSpec /\ IxSpec /\ ImSpec /\ DcSpec
BY EachBegins, EachStep, PTL DEF DtSpec, CpSpec, BlSpec, TmSpec, VoSpec, IxSpec, ImSpec, DcSpec

\* Every variable of every tool keeps to its type, whichever tool runs.
THEOREM DataToolsTypes == DtSpec => []TypeOK
<1>. DEFINE Tools == tool \in {"copy", "binlog", "map", "views", "indexes", "import", "compare"}
<1>1. DtInit => Tools
  BY DEF DtInit
<1>2. Tools /\ [DtNext]_dtVars => Tools'
  BY DEF DtNext, dtVars
<1>3. DtSpec => []Tools
  BY <1>1, <1>2, PTL DEF DtSpec
<1>4. CpSpec => []CpTypeOK
  BY CpInitially, CpStepHolds, PTL DEF CpSpec, CpInv
<1>5. BlSpec => []BlTypeOK
  BY BlInitially, BlStep, PTL DEF BlSpec, BlInv
<1>6. TmSpec => []TmTypeOK
  BY TmInvariance, PTL DEF TmInv
<1>7. VoSpec => []VoTypeOK
  BY VoInvariance, PTL DEF VoInv
<1>8. IxSpec => []IxTypeOK
  BY IxInvariance, PTL DEF IxInv
<1>9. TypeOK <=> /\ Tools /\ CpTypeOK /\ BlTypeOK /\ TmTypeOK /\ VoTypeOK
                 /\ IxTypeOK /\ ImTypeOK /\ DcTypeOK
  BY DEF TypeOK
<1>. HIDE DEF Tools
<1>. QED
  BY <1>3, <1>4, <1>5, <1>6, <1>7, <1>8, <1>9, ToolsRunAlone, ImTypeCorrect, DcTypeCorrect, PTL
=============================================================================
