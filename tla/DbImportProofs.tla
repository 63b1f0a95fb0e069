---------------------------- MODULE DbImportProofs ----------------------------
(***************************************************************************)
(* mysqldbimport, for every file, every call and every bound of the merging *)
(* of INSERTs: what is executed is executed in the order of the file, each  *)
(* row once, and an import that groups no rows itself executes all of it.   *)
(*                                                                          *)
(* The reader keeps what it has read in three places, statements, waiting   *)
(* definitions and waiting rows; ReaderFits says that they hold all of it,  *)
(* in an order that can be executed.  ExecFits says the same of the          *)
(* statements executed and the INSERT that is merged.                        *)
(***************************************************************************)
EXTENDS DbImport, WellFoundedInduction, NaturalsInduction, TLAPS

----------------------------------------------------------------------------
\* Numbers and sequences.

\* A set of numbers has a least one.
LEMMA Least ==
  ASSUME NEW T, T \subseteq Nat, T # {}
  PROVE  \E n \in T : \A m \in T : n <= m
<1>. DEFINE R == OpToRel(<, Nat)
<1>1. \A m, n \in Nat : m < n => <<m, n>> \in R
  BY DEF OpToRel
<1>. HIDE DEF R
<1>2. IsWellFoundedOn(R, Nat)
  BY NatLessThanWellFounded DEF R
<1>3. PICK n \in T : \A m \in T : ~(<<m, n>> \in R)
  BY <1>2, WFMin
<1>4. \A m \in T : m \in Nat /\ n \in Nat /\ ~(m < n)
  BY <1>1, <1>3
<1>. QED
  BY <1>3, <1>4

\* What a sequence is once an element is appended.
LEMMA Appended ==
  ASSUME NEW S, NEW rows \in Seq(S), NEW x \in S
  PROVE  /\ Append(rows, x) \in Seq(S)
         /\ DOMAIN rows = 1..Len(rows) /\ Len(rows) \in Nat
         /\ DOMAIN Append(rows, x) = 1..(Len(rows) + 1)
         /\ \A i \in 1..Len(rows) : Append(rows, x)[i] = rows[i]
         /\ Append(rows, x)[Len(rows) + 1] = x
OBVIOUS

\* What two sequences one after the other are.
LEMMA Concat ==
  ASSUME NEW S, NEW p \in Seq(S), NEW q \in Seq(S)
  PROVE  /\ p \o q \in Seq(S) /\ Len(p \o q) = Len(p) + Len(q)
         /\ Len(p) \in Nat /\ Len(q) \in Nat
         /\ DOMAIN p = 1..Len(p) /\ DOMAIN q = 1..Len(q) /\ DOMAIN (p \o q) = 1..(Len(p) + Len(q))
         /\ \A i \in 1..Len(p) : (p \o q)[i] = p[i]
         /\ \A i \in 1..Len(q) : (p \o q)[Len(p) + i] = q[i]
OBVIOUS

----------------------------------------------------------------------------
\* Sequences of rows and of statements: the rows they hold, and their order.
LEMMA InSet == \A s, x : x \in ToSet(s) <=> \E i \in DOMAIN s : s[i] = x
BY DEF ToSet

LEMMA InRows == \A list, x : x \in RowsOf(list) <=> \E i \in DOMAIN list : x \in ToSet(list[i])
BY DEF RowsOf

\* The rows of a statement that one more is added to.
LEMMA SetAppend ==
  ASSUME NEW S, NEW s \in Seq(S), NEW x \in S
  PROVE  ToSet(Append(s, x)) = ToSet(s) \cup {x}
<1>. DEFINE t == Append(s, x)
            n == Len(s)
<1>1. /\ n \in Nat /\ DOMAIN s = 1..n /\ DOMAIN t = 1..(n + 1)
      /\ \A i \in 1..n : t[i] = s[i]
      /\ t[n + 1] = x
  BY Appended
<1>. HIDE DEF t, n
<1>2. ASSUME NEW y \in ToSet(t) PROVE y \in ToSet(s) \cup {x}
  <2>1. PICK i \in 1..(n + 1) : t[i] = y
    BY <1>1, InSet
  <2>2. i \in 1..n \/ i = n + 1
    BY <1>1
  <2>. QED BY <1>1, <2>1, <2>2, InSet
<1>3. ASSUME NEW y \in ToSet(s) PROVE y \in ToSet(t)
  <2>1. PICK i \in 1..n : s[i] = y
    BY <1>1, InSet
  <2>2. i \in DOMAIN t /\ t[i] = y
    BY <1>1, <2>1
  <2>. QED BY <2>2, InSet
<1>4. x \in ToSet(t)
  <2>1. n + 1 \in DOMAIN t
    BY <1>1
  <2>. QED BY <1>1, <2>1, InSet
<1>. QED
  BY <1>2, <1>3, <1>4 DEF t

\* The rows of two statements joined.
LEMMA SetConcat ==
  ASSUME NEW S, NEW s \in Seq(S), NEW t \in Seq(S)
  PROVE  ToSet(s \o t) = ToSet(s) \cup ToSet(t)
<1>. DEFINE u == s \o t
            m == Len(s)
            n == Len(t)
<1>1. /\ m \in Nat /\ n \in Nat
      /\ DOMAIN s = 1..m /\ DOMAIN t = 1..n /\ DOMAIN u = 1..(m + n)
      /\ \A i \in 1..m : u[i] = s[i]
      /\ \A i \in 1..n : u[m + i] = t[i]
  BY Concat
<1>. HIDE DEF u, m, n
<1>2. ASSUME NEW y \in ToSet(u) PROVE y \in ToSet(s) \cup ToSet(t)
  <2>1. PICK i \in 1..(m + n) : u[i] = y
    BY <1>1, InSet
  <2>2. CASE i <= m
    <3>1. i \in 1..m
      BY <1>1, <2>2
    <3>. QED BY <1>1, <2>1, <3>1, InSet
  <2>3. CASE m < i
    <3>1. i - m \in 1..n /\ m + (i - m) = i
      BY <1>1, <2>3
    <3>. QED BY <1>1, <2>1, <3>1, InSet
  <2>. QED BY <1>1, <2>2, <2>3
<1>3. ASSUME NEW y \in ToSet(s) PROVE y \in ToSet(u)
  <2>1. PICK i \in 1..m : s[i] = y
    BY <1>1, InSet
  <2>2. i \in DOMAIN u /\ u[i] = y
    BY <1>1, <2>1
  <2>. QED BY <2>2, InSet
<1>4. ASSUME NEW y \in ToSet(t) PROVE y \in ToSet(u)
  <2>1. PICK i \in 1..n : t[i] = y
    BY <1>1, InSet
  <2>2. m + i \in DOMAIN u /\ u[m + i] = y
    BY <1>1, <2>1
  <2>. QED BY <2>2, InSet
<1>. QED
  BY <1>2, <1>3, <1>4 DEF u

\* The rows of a list with one more statement.
LEMMA RowsAppend ==
  ASSUME NEW S, NEW list \in Seq(S), NEW st \in S
  PROVE  RowsOf(Append(list, st)) = RowsOf(list) \cup ToSet(st)
<1>. DEFINE more == Append(list, st)
            n == Len(list)
<1>1. /\ n \in Nat /\ DOMAIN list = 1..n /\ DOMAIN more = 1..(n + 1)
      /\ \A i \in 1..n : more[i] = list[i]
      /\ more[n + 1] = st
  BY Appended
<1>. HIDE DEF more, n
<1>2. ASSUME NEW y \in RowsOf(more) PROVE y \in RowsOf(list) \cup ToSet(st)
  <2>1. PICK i \in 1..(n + 1) : y \in ToSet(more[i])
    BY <1>1, InRows
  <2>2. i \in 1..n \/ i = n + 1
    BY <1>1
  <2>. QED BY <1>1, <2>1, <2>2, InRows
<1>3. ASSUME NEW y \in RowsOf(list) PROVE y \in RowsOf(more)
  <2>1. PICK i \in 1..n : y \in ToSet(list[i])
    BY <1>1, InRows
  <2>2. i \in DOMAIN more /\ y \in ToSet(more[i])
    BY <1>1, <2>1
  <2>. QED BY <2>2, InRows
<1>4. ASSUME NEW y \in ToSet(st) PROVE y \in RowsOf(more)
  <2>1. n + 1 \in DOMAIN more
    BY <1>1
  <2>. QED BY <1>1, <2>1, InRows
<1>. QED
  BY <1>2, <1>3, <1>4 DEF more

\* The rows of two lists one after the other.
LEMMA RowsConcat ==
  ASSUME NEW S, NEW p \in Seq(S), NEW q \in Seq(S)
  PROVE  RowsOf(p \o q) = RowsOf(p) \cup RowsOf(q)
<1>. DEFINE u == p \o q
            m == Len(p)
            n == Len(q)
<1>1. /\ m \in Nat /\ n \in Nat
      /\ DOMAIN p = 1..m /\ DOMAIN q = 1..n /\ DOMAIN u = 1..(m + n)
      /\ \A i \in 1..m : u[i] = p[i]
      /\ \A i \in 1..n : u[m + i] = q[i]
  BY Concat
<1>. HIDE DEF u, m, n
<1>2. ASSUME NEW y \in RowsOf(u) PROVE y \in RowsOf(p) \cup RowsOf(q)
  <2>1. PICK i \in 1..(m + n) : y \in ToSet(u[i])
    BY <1>1, InRows
  <2>2. CASE i <= m
    <3>1. i \in 1..m
      BY <1>1, <2>2
    <3>. QED BY <1>1, <2>1, <3>1, InRows
  <2>3. CASE m < i
    <3>1. i - m \in 1..n /\ m + (i - m) = i
      BY <1>1, <2>3
    <3>. QED BY <1>1, <2>1, <3>1, InRows
  <2>. QED BY <1>1, <2>2, <2>3
<1>3. ASSUME NEW y \in RowsOf(p) PROVE y \in RowsOf(u)
  <2>1. PICK i \in 1..m : y \in ToSet(p[i])
    BY <1>1, InRows
  <2>2. i \in DOMAIN u /\ y \in ToSet(u[i])
    BY <1>1, <2>1
  <2>. QED BY <2>2, InRows
<1>4. ASSUME NEW y \in RowsOf(q) PROVE y \in RowsOf(u)
  <2>1. PICK i \in 1..n : y \in ToSet(q[i])
    BY <1>1, InRows
  <2>2. m + i \in DOMAIN u /\ y \in ToSet(u[m + i])
    BY <1>1, <2>1
  <2>. QED BY <2>2, InRows
<1>. QED
  BY <1>2, <1>3, <1>4 DEF u

\* A statement whose rows are in order stays so when rows that may follow are added.
LEMMA InOrderConcat ==
  ASSUME NEW S, NEW s \in Seq(S), NEW t \in Seq(S), InOrder(s), InOrder(t),
         AllFit(ToSet(s), ToSet(t))
  PROVE  InOrder(s \o t)
<1>. DEFINE u == s \o t
            m == Len(s)
            n == Len(t)
<1>1. /\ m \in Nat /\ n \in Nat
      /\ DOMAIN s = 1..m /\ DOMAIN t = 1..n /\ DOMAIN u = 1..(m + n)
      /\ \A i \in 1..m : u[i] = s[i]
      /\ \A i \in 1..n : u[m + i] = t[i]
  BY Concat
<1>. HIDE DEF u, m, n
<1>. SUFFICES ASSUME NEW i \in 1..(m + n), NEW j \in 1..(m + n), i < j
              PROVE  Fits(u[i], u[j])
  BY <1>1 DEF InOrder, u
<1>2. \A k \in 1..(m + n) : m < k => k - m \in 1..n /\ u[k] = t[k - m]
  <2>. SUFFICES ASSUME NEW k \in 1..(m + n), m < k PROVE k - m \in 1..n /\ u[k] = t[k - m]
    OBVIOUS
  <2>1. k - m \in 1..n /\ m + (k - m) = k
    BY <1>1
  <2>. QED BY <1>1, <2>1
<1>3. CASE j <= m
  <2>1. i \in 1..m /\ j \in 1..m
    BY <1>1, <1>3
  <2>. QED BY <1>1, <2>1 DEF InOrder
<1>4. CASE i <= m /\ m < j
  <2>1. i \in 1..m
    BY <1>1, <1>4
  <2>2. u[i] \in ToSet(s)
    BY <1>1, <2>1, InSet
  <2>3. u[j] \in ToSet(t)
    BY <1>1, <1>2, <1>4, InSet
  <2>. QED BY <2>2, <2>3 DEF AllFit
<1>5. CASE m < i
  <2>1. i - m \in 1..n /\ j - m \in 1..n /\ i - m < j - m /\ u[i] = t[i - m] /\ u[j] = t[j - m]
    BY <1>1, <1>2, <1>5
  <2>. QED BY <1>1, <2>1 DEF InOrder
<1>. QED
  BY <1>1, <1>3, <1>4, <1>5

\* So does a list of statements.
LEMMA OrderedConcat ==
  ASSUME NEW S, NEW s \in Seq(S), NEW t \in Seq(S), Ordered(s), Ordered(t),
         AllFit(RowsOf(s), RowsOf(t))
  PROVE  Ordered(s \o t)
<1>. DEFINE u == s \o t
            m == Len(s)
            n == Len(t)
<1>1. /\ m \in Nat /\ n \in Nat
      /\ DOMAIN s = 1..m /\ DOMAIN t = 1..n /\ DOMAIN u = 1..(m + n)
      /\ \A i \in 1..m : u[i] = s[i]
      /\ \A i \in 1..n : u[m + i] = t[i]
  BY Concat
<1>. HIDE DEF u, m, n
<1>0. m \in Nat /\ n \in Nat
  BY <1>1
<1>2. \A k \in 1..(m + n) : m < k => k - m \in 1..n /\ u[k] = t[k - m]
  <2>. SUFFICES ASSUME NEW k \in 1..(m + n), m < k PROVE k - m \in 1..n /\ u[k] = t[k - m]
    OBVIOUS
  <2>1. k - m \in 1..n /\ m + (k - m) = k
    BY <1>0
  <2>. QED BY <1>1, <2>1
<1>3. \A k \in 1..(m + n) : k <= m => k \in 1..m /\ u[k] = s[k]
  BY <1>1
<1>4. ASSUME NEW i \in 1..(m + n) PROVE InOrder(u[i])
  BY <1>1, <1>2, <1>3 DEF Ordered
<1>5. ASSUME NEW i \in 1..(m + n), NEW j \in 1..(m + n), i < j
      PROVE  AllFit(ToSet(u[i]), ToSet(u[j]))
  <2>1. CASE j <= m
    <3>1. i \in 1..m /\ j \in 1..m /\ u[i] = s[i] /\ u[j] = s[j]
      BY <1>1, <1>3, <1>5, <2>1
    <3>. QED BY <1>1, <1>5, <3>1 DEF Ordered
  <2>2. CASE i <= m /\ m < j
    <3>1. ToSet(u[i]) \subseteq RowsOf(s)
      BY <1>1, <1>3, <2>2, InRows
    <3>2. ToSet(u[j]) \subseteq RowsOf(t)
      BY <1>1, <1>2, <2>2, InRows
    <3>. QED BY <3>1, <3>2 DEF AllFit
  <2>3. CASE m < i
    <3>1. m < j /\ i - m < j - m
      BY <1>0, <1>5, <2>3
    <3>2. i - m \in 1..n /\ u[i] = t[i - m]
      BY <1>2, <2>3
    <3>3. j - m \in 1..n /\ u[j] = t[j - m]
      BY <1>2, <3>1
    <3>. QED BY <1>1, <3>1, <3>2, <3>3 DEF Ordered
  <2>. QED BY <1>0, <1>5, <2>1, <2>2, <2>3
<1>. QED
  BY <1>1, <1>4, <1>5 DEF Ordered, u

\* And a list that one statement is added to.
LEMMA OrderedAppend ==
  ASSUME NEW S, NEW list \in Seq(S), NEW st \in S, Ordered(list), InOrder(st),
         AllFit(RowsOf(list), ToSet(st))
  PROVE  Ordered(Append(list, st))
<1>. DEFINE one == <<st>>
<1>1. one \in Seq(S) /\ DOMAIN one = {1} /\ one[1] = st /\ Append(list, st) = list \o one
  OBVIOUS
<1>. HIDE DEF one
<1>2. Ordered(one)
  BY <1>1 DEF Ordered
<1>3. RowsOf(one) = ToSet(st)
  <2>1. \A x : x \in RowsOf(one) <=> x \in ToSet(st)
    BY <1>1, InRows
  <2>. QED BY <2>1
<1>. QED
  BY <1>1, <1>2, <1>3, OrderedConcat

----------------------------------------------------------------------------
\* make_bulk_insert.

\* The INSERT that is open, or the row that begins the next one.
RowsHeld(acc) == IF acc.count > 0 THEN acc.cur ELSE acc.val

\* The loop's state after the rows of S: complete INSERTs and rows held, in order.
GroupsOf(acc, S) ==
  /\ acc.cur \in Seq(Positions) /\ acc.count \in Nat /\ acc.val \in Seq(Positions)
  /\ acc.out \in Seq(Seq(Positions))
  /\ acc = [cur |-> acc.cur, count |-> acc.count, size |-> acc.size, val |-> acc.val, out |-> acc.out]
  /\ Ordered(acc.out) /\ InOrder(RowsHeld(acc)) /\ AllFit(RowsOf(acc.out), ToSet(RowsHeld(acc)))
  /\ RowsOf(acc.out) \cup ToSet(RowsHeld(acc)) \subseteq S

\* The loop as a sequence of its states.
LEMMA BulkRun ==
  ASSUME NEW rows \in Seq(Positions)
  PROVE  \E run :
    /\ run = [i \in 0..Len(rows) |-> IF i = 0 THEN BulkStart ELSE BulkStep(run[i - 1], rows[i])]
    /\ MakeBulkInsert(rows) = LET end == run[Len(rows)] IN
                              IF end.count > 0 THEN Append(end.out, end.cur) ELSE end.out
<1>. DEFINE IsRun(f, n) == f = [i \in 0..n |-> IF i = 0 THEN BulkStart ELSE BulkStep(f[i - 1], rows[i])]
            T == {n \in 0..Len(rows) : ~\E f : IsRun(f, n)}
<1>1. T = {}
  <2>. SUFFICES ASSUME T # {} PROVE FALSE
    OBVIOUS
  <2>1. PICK n \in T : \A m \in T : n <= m
    <3>. T \subseteq Nat
      OBVIOUS
    <3>. HIDE DEF T
    <3>. QED BY Least
  <2>2. n # 0
    <3>. IsRun([i \in 0..0 |-> BulkStart], 0)
      OBVIOUS
    <3>. QED BY DEF T
  <2>3. PICK f : IsRun(f, n - 1)
    <3>1. n - 1 \in 0..Len(rows) /\ ~(n <= n - 1)
      BY <2>2
    <3>2. n - 1 \notin T
      BY <2>1, <3>1
    <3>. QED BY <3>1, <3>2
  <2>. DEFINE g == [i \in 0..n |-> IF i = n THEN BulkStep(f[n - 1], rows[n]) ELSE f[i]]
  <2>4. \A i \in 0..n : g[i] = IF i = 0 THEN BulkStart ELSE BulkStep(g[i - 1], rows[i])
    <3>. SUFFICES ASSUME NEW i \in 0..n
                  PROVE  g[i] = IF i = 0 THEN BulkStart ELSE BulkStep(g[i - 1], rows[i])
      OBVIOUS
    <3>1. CASE i = n
      BY <2>2, <3>1
    <3>2. CASE i # n
      <4>1. i \in 0..(n - 1) /\ (i # 0 => i - 1 \in 0..(n - 1))
        BY <3>2
      <4>2. f[i] = IF i = 0 THEN BulkStart ELSE BulkStep(f[i - 1], rows[i])
        BY <2>3, <4>1
      <4>3. g[i] = f[i] /\ (i # 0 => g[i - 1] = f[i - 1])
        BY <3>2, <4>1
      <4>. QED BY <4>2, <4>3
    <3>. QED BY <3>1, <3>2
  <2>5. IsRun(g, n)
    BY <2>4
  <2>. QED
    BY <2>5
<1>2. PICK f : IsRun(f, Len(rows))
  BY <1>1
<1>. DEFINE r == CHOOSE f2 : IsRun(f2, Len(rows))
<1>3. IsRun(r, Len(rows))
  BY <1>2
<1>4. MakeBulkInsert(rows) = LET end == r[Len(rows)] IN
                             IF end.count > 0 THEN Append(end.out, end.cur) ELSE end.out
  BY DEF MakeBulkInsert
<1>. QED
  BY <1>3, <1>4

\* What waits when an INSERT begins is what was held.
LEMMA BegunHeld ==
  ASSUME NEW acc, NEW S, GroupsOf(acc, S)
  PROVE  /\ Begun(acc).cur = RowsHeld(acc) /\ Begun(acc).count \in Nat
         /\ Begun(acc).out = acc.out /\ Begun(acc).val = acc.val
         /\ \E size : Begun(acc) = [cur |-> RowsHeld(acc), count |-> Begun(acc).count, size |-> size,
                                    val |-> acc.val, out |-> acc.out]
<1>1. PICK c, n, z, v, o : acc = [cur |-> c, count |-> n, size |-> z, val |-> v, out |-> o]
  BY DEF GroupsOf
<1>2. n \in Nat /\ v \in Seq(Positions)
  BY <1>1 DEF GroupsOf
<1>3. CASE n > 0
  BY <1>1, <1>2, <1>3 DEF Begun, RowsHeld, Acc
<1>4. CASE ~(n > 0)
  <2>1. PICK y : y = IF v = <<>> THEN 0 ELSE imFile[v[1]].size
    OBVIOUS
  <2>2. Begun(acc) = [cur |-> v, count |-> Len(v), size |-> y, val |-> v, out |-> o]
    BY <1>1, <1>4, <2>1 DEF Begun, Acc
  <2>3. RowsHeld(acc) = v /\ Len(v) \in Nat
    BY <1>1, <1>2, <1>4 DEF RowsHeld
  <2>4. acc.val = v /\ acc.out = o
    BY <1>1
  <2>5. Begun(acc).cur = v /\ Begun(acc).count = Len(v) /\ Begun(acc).val = v /\ Begun(acc).out = o
    BY <2>2
  <2>6. Begun(acc) = [cur |-> RowsHeld(acc), count |-> Begun(acc).count, size |-> y, val |-> acc.val, out |-> acc.out]
    BY <2>2, <2>3, <2>4, <2>5
  <2>. QED BY <2>3, <2>4, <2>5, <2>6
<1>. QED
  BY <1>3, <1>4

\* One row more.
LEMMA BulkStepGroups ==
  ASSUME NEW acc, NEW S \in SUBSET Positions, GroupsOf(acc, S), NEW row \in Positions,
         \A p \in S : Fits(p, row)
  PROVE  GroupsOf(BulkStep(acc, row), S \cup {row})
<1>1. PICK held, out, n, z, v :
        /\ Begun(acc) = [cur |-> held, count |-> n, size |-> z, val |-> v, out |-> out]
        /\ held = RowsHeld(acc) /\ out = acc.out /\ n \in Nat
  BY BegunHeld
<1>2. /\ held \in Seq(Positions) /\ out \in Seq(Seq(Positions))
      /\ Ordered(out) /\ InOrder(held) /\ AllFit(RowsOf(out), ToSet(held))
      /\ RowsOf(out) \cup ToSet(held) \subseteq S
  BY <1>1 DEF GroupsOf, RowsHeld
<1>3. <<row>> \in Seq(Positions) /\ InOrder(<<row>>) /\ ToSet(<<row>>) = {row}
  BY DEF InOrder, ToSet
<1>. DEFINE next == z + imFile[row].size
<1>4. BulkStep(acc, row) =
        IF n >= MaxBulkValues \/ next > PacketRoom
        THEN [cur |-> held, count |-> 0, size |-> z, val |-> <<row>>, out |-> Append(out, held)]
        ELSE [cur |-> Append(held, row), count |-> n + 1, size |-> next, val |-> <<row>>, out |-> out]
  BY <1>1 DEF BulkStep, Acc
<1>. HIDE DEF next
<1>5. CASE n >= MaxBulkValues \/ next > PacketRoom
  <2>. DEFINE end == [cur |-> held, count |-> 0, size |-> z, val |-> <<row>>, out |-> Append(out, held)]
  <2>1. BulkStep(acc, row) = end /\ RowsHeld(end) = <<row>>
    BY <1>4, <1>5 DEF RowsHeld
  <2>2. Append(out, held) \in Seq(Seq(Positions)) /\ Ordered(Append(out, held))
    BY <1>2, OrderedAppend
  <2>3. RowsOf(Append(out, held)) = RowsOf(out) \cup ToSet(held)
    BY <1>2, RowsAppend
  <2>4. AllFit(RowsOf(Append(out, held)), {row})
    BY <1>2, <2>3 DEF AllFit
  <2>. HIDE DEF end
  <2>5. /\ end.cur = held /\ end.count = 0 /\ end.val = <<row>> /\ end.out = Append(out, held)
        /\ end = [cur |-> end.cur, count |-> end.count, size |-> end.size, val |-> end.val, out |-> end.out]
    BY DEF end
  <2>6. RowsOf(end.out) \cup ToSet(RowsHeld(end)) \subseteq S \cup {row}
    BY <1>2, <1>3, <2>1, <2>3, <2>5
  <2>7. InOrder(RowsHeld(end)) /\ AllFit(RowsOf(end.out), ToSet(RowsHeld(end)))
    BY <1>3, <2>1, <2>4, <2>5
  <2>8. end.cur \in Seq(Positions) /\ end.count \in Nat /\ end.val \in Seq(Positions)
        /\ end.out \in Seq(Seq(Positions)) /\ Ordered(end.out)
    BY <1>2, <1>3, <2>2, <2>5
  <2>. QED BY <2>1, <2>5, <2>6, <2>7, <2>8 DEF GroupsOf
<1>6. CASE ~(n >= MaxBulkValues \/ next > PacketRoom)
  <2>. DEFINE end == [cur |-> Append(held, row), count |-> n + 1, size |-> next, val |-> <<row>>, out |-> out]
  <2>1. BulkStep(acc, row) = end
    BY <1>4, <1>6
  <2>2. RowsHeld(end) = Append(held, row)
    <3>1. n + 1 > 0 /\ end.count = n + 1 /\ end.cur = Append(held, row)
      BY <1>1
    <3>. HIDE DEF end
    <3>. QED BY <3>1 DEF RowsHeld
  <2>3. Append(held, row) = held \o <<row>> /\ Append(held, row) \in Seq(Positions)
    BY <1>2
  <2>4. ToSet(Append(held, row)) = ToSet(held) \cup {row}
    BY <1>2, SetAppend
  <2>5. AllFit(ToSet(held), {row})
    BY <1>2 DEF AllFit
  <2>6. InOrder(Append(held, row))
    BY <1>2, <1>3, <2>3, <2>5, InOrderConcat
  <2>7. AllFit(RowsOf(out), ToSet(Append(held, row)))
    BY <1>2, <2>4 DEF AllFit
  <2>. HIDE DEF end
  <2>8. /\ end.cur = Append(held, row) /\ end.count = n + 1 /\ end.val = <<row>> /\ end.out = out
        /\ end = [cur |-> end.cur, count |-> end.count, size |-> end.size, val |-> end.val, out |-> end.out]
    BY DEF end
  <2>9. RowsOf(end.out) \cup ToSet(RowsHeld(end)) \subseteq S \cup {row}
    BY <1>2, <2>2, <2>4, <2>8
  <2>10. n + 1 \in Nat
    BY <1>1
  <2>. QED BY <1>2, <1>3, <2>1, <2>2, <2>3, <2>6, <2>7, <2>8, <2>9, <2>10 DEF GroupsOf
<1>. QED
  BY <1>5, <1>6

\* The INSERTs hold rows of the table in their order, though not always all of them.
LEMMA BulkGroups ==
  ASSUME NEW rows \in Seq(Positions), InOrder(rows)
  PROVE  /\ MakeBulkInsert(rows) \in Seq(Seq(Positions)) /\ Ordered(MakeBulkInsert(rows))
         /\ RowsOf(MakeBulkInsert(rows)) \subseteq ToSet(rows)
<1>1. PICK run :
    /\ run = [i \in 0..Len(rows) |-> IF i = 0 THEN BulkStart ELSE BulkStep(run[i - 1], rows[i])]
    /\ MakeBulkInsert(rows) = LET end == run[Len(rows)] IN
                              IF end.count > 0 THEN Append(end.out, end.cur) ELSE end.out
  BY BulkRun
<1>2. Len(rows) \in Nat /\ DOMAIN rows = 1..Len(rows) /\ \A i \in 1..Len(rows) : rows[i] \in Positions
  OBVIOUS
<1>. DEFINE First(n) == {rows[i] : i \in 1..n}
            T == {n \in 0..Len(rows) : ~GroupsOf(run[n], First(n))}
<1>3. run[0] = BulkStart /\ \A i \in 1..Len(rows) : run[i] = BulkStep(run[i - 1], rows[i])
  BY <1>1
<1>4. GroupsOf(run[0], First(0))
  <2>1. GroupsOf(BulkStart, {})
    BY DEF GroupsOf, BulkStart, Acc, Ordered, InOrder, AllFit, RowsOf, ToSet, RowsHeld
  <2>2. First(0) = {}
    OBVIOUS
  <2>. QED BY <1>3, <2>1, <2>2
<1>5. ASSUME NEW n \in 1..Len(rows), GroupsOf(run[n - 1], First(n - 1))
      PROVE  GroupsOf(run[n], First(n))
  <2>1. First(n - 1) \in SUBSET Positions /\ rows[n] \in Positions
    BY <1>2
  <2>2. \A p \in First(n - 1) : Fits(p, rows[n])
    BY <1>2 DEF InOrder
  <2>3. First(n) = First(n - 1) \cup {rows[n]}
    BY <1>2
  <2>4. run[n] = BulkStep(run[n - 1], rows[n])
    BY <1>3
  <2>. HIDE DEF First
  <2>. QED BY <1>5, <2>1, <2>2, <2>3, <2>4, BulkStepGroups
<1>6. T = {}
  <2>. SUFFICES ASSUME T # {} PROVE FALSE
    OBVIOUS
  <2>. HIDE DEF First
  <2>1. PICK i \in T : \A m \in T : i <= m
    <3>. T \subseteq Nat
      OBVIOUS
    <3>. HIDE DEF T
    <3>. QED BY Least
  <2>2. i \in 1..Len(rows) /\ i - 1 \in 0..Len(rows) /\ i - 1 \notin T
    BY <1>2, <1>4, <2>1
  <2>. QED BY <1>5, <2>2
<1>7. GroupsOf(run[Len(rows)], ToSet(rows))
  <2>1. First(Len(rows)) = ToSet(rows)
    BY <1>2 DEF ToSet
  <2>2. Len(rows) \in 0..Len(rows)
    BY <1>2
  <2>. HIDE DEF First
  <2>. QED BY <1>6, <2>1, <2>2
<1>8. PICK end : end = run[Len(rows)]
  OBVIOUS
<1>9. CASE end.count > 0
  <2>1. MakeBulkInsert(rows) = Append(end.out, end.cur) /\ RowsHeld(end) = end.cur
    BY <1>1, <1>8, <1>9 DEF RowsHeld
  <2>2. /\ end.out \in Seq(Seq(Positions)) /\ end.cur \in Seq(Positions)
        /\ Ordered(end.out) /\ InOrder(end.cur) /\ AllFit(RowsOf(end.out), ToSet(end.cur))
        /\ RowsOf(end.out) \cup ToSet(end.cur) \subseteq ToSet(rows)
    BY <1>7, <1>8, <2>1 DEF GroupsOf
  <2>3. Ordered(Append(end.out, end.cur)) /\ Append(end.out, end.cur) \in Seq(Seq(Positions))
    BY <2>2, OrderedAppend
  <2>4. RowsOf(Append(end.out, end.cur)) = RowsOf(end.out) \cup ToSet(end.cur)
    BY <2>2, RowsAppend
  <2>. QED BY <2>1, <2>2, <2>3, <2>4
<1>10. CASE ~(end.count > 0)
  <2>1. MakeBulkInsert(rows) = end.out
    BY <1>1, <1>8, <1>10
  <2>. QED BY <1>7, <1>8, <2>1 DEF GroupsOf
<1>. QED
  BY <1>9, <1>10

\* Statements of one line each.
LEMMA SingleRows ==
  ASSUME NEW rows \in Seq(Positions), InOrder(rows)
  PROVE  /\ Single(rows) \in Seq(Seq(Positions)) /\ Ordered(Single(rows))
         /\ RowsOf(Single(rows)) = ToSet(rows)
         /\ \A i \in DOMAIN Single(rows) : Single(rows)[i] = <<rows[i]>>
<1>. DEFINE s == Single(rows)
<1>1. /\ Len(rows) \in Nat /\ DOMAIN rows = 1..Len(rows) /\ DOMAIN s = 1..Len(rows)
      /\ \A i \in 1..Len(rows) : rows[i] \in Positions /\ s[i] = <<rows[i]>>
  BY DEF Single
<1>2. s \in Seq(Seq(Positions))
  <2>1. \A i \in DOMAIN rows : <<rows[i]>> \in Seq(Positions)
    BY <1>1
  <2>. QED BY <1>1, <2>1 DEF Single
<1>. HIDE DEF s
<1>3. \A i \in DOMAIN s : InOrder(s[i]) /\ ToSet(s[i]) = {rows[i]}
  <2>1. \A x : InOrder(<<x>>) /\ ToSet(<<x>>) = {x}
    BY DEF InOrder, ToSet
  <2>. QED BY <1>1, <2>1
<1>4. Ordered(s)
  BY <1>1, <1>3 DEF Ordered, AllFit, InOrder
<1>5. \A x : x \in RowsOf(s) <=> x \in ToSet(rows)
  BY <1>1, <1>3, InRows, InSet
<1>. QED
  BY <1>1, <1>2, <1>4, <1>5 DEF s

----------------------------------------------------------------------------
\* An import that does not group rows itself; a statement of rows only.
Complete == imConf.sql \/ ~imConf.bulk
AllRows(st) == \A i \in DOMAIN st : imFile[st[i]].kind = "row"
\* A statement stands for one line of the file, or for rows only.
Shaped(list) == \A i \in DOMAIN list : Len(list[i]) = 1 \/ AllRows(list[i])

\* ImTypeOK, variable by variable.
ImTypes ==
  /\ imFile \in ImFiles /\ imConf \in ImConfs
  /\ imPhase \in {"read", "exec", "done", "error"} /\ imPos \in Nat \ {0}
  /\ definitions \in Seq(Positions) /\ tableRows \in Seq(Positions) /\ bulkValues \in Seq(Positions)
  /\ statements \in Seq(Seq(Positions)) /\ executed \in Seq(Seq(Positions))
  /\ bulkCount \in 0..(MaxBulkInsert + 1) /\ kept \in 0..Len(executed)

\* What has been read of the lines before n: statements, and what waits.
ReaderFits(list, defs, rows, n) ==
  /\ list \in Seq(Seq(Positions)) /\ defs \in Seq(Positions) /\ rows \in Seq(Positions)
  /\ \A p \in RowsOf(list) \cup ToSet(defs) \cup ToSet(rows) : p < n
  /\ Ordered(list) /\ Shaped(list) /\ InOrder(defs) /\ InOrder(rows)
  /\ AllFit(RowsOf(list), ToSet(defs)) /\ AllFit(RowsOf(list), ToSet(rows))
  /\ \A d \in ToSet(defs) : imFile[d].kind = "def"
  /\ \A r \in ToSet(rows) : imFile[r].kind = "row"
  /\ \A r \in ToSet(rows), d \in ToSet(defs) : r < d
  /\ defs # <<>> => ~imConf.sql
  /\ rows # <<>> => ~Complete
  /\ Complete => RowsOf(list) \cup ToSet(defs) = {p \in Positions : p < n /\ Wanted(p)}

ReaderInv ==
  imPhase = "read" =>
    /\ ReaderFits(statements, definitions, tableRows, imPos)
    /\ executed = <<>> /\ bulkValues = <<>> /\ bulkCount = 0

\* The statements hold the file, in order, when they are executed.
StatementsInv ==
  imPhase \in {"exec", "done"} =>
    /\ Ordered(statements) /\ Shaped(statements)
    /\ Complete => RowsOf(statements) = {p \in Positions : Wanted(p)}

\* What has been executed of the statements before n, and the INSERT that is merged.
RowsBefore(n) == UNION {ToSet(statements[i]) : i \in {j \in DOMAIN statements : j < n}}
ExecFits(list, values, count, n) ==
  /\ list \in Seq(Seq(Positions)) /\ values \in Seq(Positions) /\ count \in 0..(MaxBulkInsert + 1)
  /\ Ordered(list) /\ InOrder(values) /\ AllFit(RowsOf(list), ToSet(values)) /\ AllRows(values)
  /\ RowsOf(list) \cup ToSet(values) = RowsBefore(n)
  /\ values # <<>> => imConf.bulk
  /\ values = <<>> => count = 0
ExecInv == imPhase = "exec" => ExecFits(executed, bulkValues, bulkCount, imPos)

\* Nothing is lost on the way.
DoneInv == imPhase = "done" => RowsOf(executed) = RowsOf(statements)

ImInv == ImTypes /\ Ordered(executed) /\ ReaderInv /\ StatementsInv /\ ExecInv /\ DoneInv

----------------------------------------------------------------------------
\* Lines of the file.
LEMMA ImFileFacts ==
  ASSUME ImTypes
  PROVE  /\ Positions = 1..Len(imFile) /\ Len(imFile) \in Nat
         /\ \A p \in Positions : imFile[p].kind \in RowKinds
         /\ imConf.sql \in BOOLEAN /\ imConf.bulk \in BOOLEAN
<1>1. /\ imFile \in Seq(ToSet(imFile)) /\ \A p \in DOMAIN imFile : imFile[p].kind \in RowKinds
      /\ imConf.sql \in BOOLEAN /\ imConf.bulk \in BOOLEAN
  BY ImAssumption DEF ImTypes
<1>. QED
  BY <1>1 DEF Positions

\* What is empty is in order.
LEMMA EmptySets ==
  /\ ToSet(<<>>) = {} /\ RowsOf(<<>>) = {} /\ InOrder(<<>>) /\ Ordered(<<>>) /\ Shaped(<<>>) /\ AllRows(<<>>)
  /\ \A S : AllFit(S, {}) /\ AllFit({}, S) /\ <<>> \in Seq(S)
BY DEF ToSet, RowsOf, InOrder, Ordered, Shaped, AllRows, AllFit

\* What comes earlier in the file may be executed earlier.
LEMMA FitsInOrder ==
  ASSUME ImTypes, NEW p \in Positions, NEW q \in Positions, p < q
  PROVE  Fits(p, q)
BY ImFileFacts DEF Fits

\* Shapes of two lists one after the other.
LEMMA ShapedConcat ==
  ASSUME NEW p \in Seq(Seq(Positions)), NEW q \in Seq(Seq(Positions)), Shaped(p), Shaped(q)
  PROVE  Shaped(p \o q)
<1>. DEFINE u == p \o q
            m == Len(p)
            n == Len(q)
<1>1. /\ m \in Nat /\ n \in Nat
      /\ DOMAIN p = 1..m /\ DOMAIN q = 1..n /\ DOMAIN u = 1..(m + n)
      /\ \A i \in 1..m : u[i] = p[i]
      /\ \A i \in 1..n : u[m + i] = q[i]
  BY Concat
<1>. HIDE DEF u, m, n
<1>. SUFFICES ASSUME NEW i \in 1..(m + n) PROVE Len(u[i]) = 1 \/ AllRows(u[i])
  BY <1>1 DEF Shaped, u
<1>2. CASE i <= m
  <2>1. i \in 1..m
    BY <1>1, <1>2
  <2>. QED BY <1>1, <2>1 DEF Shaped
<1>3. CASE m < i
  <2>1. i - m \in 1..n /\ m + (i - m) = i
    BY <1>1, <1>3
  <2>2. u[i] = q[i - m] /\ i - m \in DOMAIN q
    BY <1>1, <2>1
  <2>. QED BY <2>2 DEF Shaped
<1>. QED
  BY <1>1, <1>2, <1>3

\* Rows are lines of the file.
LEMMA SetTyped == ASSUME NEW s \in Seq(Positions) PROVE ToSet(s) \subseteq Positions
BY DEF ToSet

\* So are those of a list.
LEMMA RowsTyped == ASSUME NEW l \in Seq(Seq(Positions)) PROVE RowsOf(l) \subseteq Positions
<1>. SUFFICES ASSUME NEW x \in RowsOf(l) PROVE x \in Positions
  OBVIOUS
<1>1. PICK i \in DOMAIN l : x \in ToSet(l[i])
  BY InRows
<1>2. l[i] \in Seq(Positions)
  OBVIOUS
<1>. QED
  BY <1>1, <1>2, SetTyped

\* A statement with rows is not empty.
LEMMA NonEmpty == ASSUME NEW s \in Seq(Positions), ToSet(s) # {} PROVE s # <<>>
BY EmptySets

\* Definitions that wait are made into statements, before rows that wait and came
\* earlier: no row is then of the same table, or the file is not SQL.
LEMMA FlushDefinitions ==
  ASSUME ImTypes, NEW list, NEW defs, NEW rows, NEW n, ReaderFits(list, defs, rows, n)
  PROVE  ReaderFits(list \o Single(defs), <<>>, rows, n)
<1>. DEFINE more == Single(defs)
            all == list \o more
<1>. USE DEF ReaderFits
<1>1. /\ more \in Seq(Seq(Positions)) /\ Ordered(more) /\ RowsOf(more) = ToSet(defs)
      /\ \A i \in DOMAIN more : more[i] = <<defs[i]>>
  BY SingleRows
<1>2. Shaped(more)
  <2>1. \A x : Len(<<x>>) = 1
    OBVIOUS
  <2>. QED BY <1>1, <2>1 DEF Shaped
<1>. HIDE DEF more
<1>3. all \in Seq(Seq(Positions)) /\ Ordered(all) /\ RowsOf(all) = RowsOf(list) \cup ToSet(defs)
  BY <1>1, Concat, OrderedConcat, RowsConcat
<1>4. Shaped(all)
  BY <1>1, <1>2, ShapedConcat
<1>5. AllFit(ToSet(defs), ToSet(rows))
  <2>. SUFFICES ASSUME NEW d \in ToSet(defs), NEW r \in ToSet(rows) PROVE Fits(d, r)
    BY DEF AllFit
  <2>1. /\ r < d /\ imFile[d].kind = "def" /\ imFile[r].kind = "row" /\ ~imConf.sql
        /\ d \in Positions /\ r \in Positions
    BY SetTyped, EmptySets
  <2>2. ~Keeps(r, d)
    BY <2>1 DEF Keeps
  <2>3. d # r
    BY <2>1, ImFileFacts
  <2>. QED BY <2>2, <2>3 DEF Fits
<1>6. AllFit(RowsOf(all), ToSet(rows))
  BY <1>3, <1>5 DEF AllFit
<1>. HIDE DEF all
<1>7. ReaderFits(all, <<>>, rows, n)
  BY <1>3, <1>4, <1>6, EmptySets
<1>. QED
  BY <1>7 DEF all, more

\* Rows that wait are grouped into statements.
LEMMA FlushRows ==
  ASSUME ImTypes, NEW list, NEW defs, NEW rows, NEW n, ReaderFits(list, defs, rows, n)
  PROVE  ReaderFits(list \o MakeBulkInsert(rows), defs, <<>>, n)
<1>. DEFINE more == MakeBulkInsert(rows)
            all == list \o more
<1>. USE DEF ReaderFits
<1>1. more \in Seq(Seq(Positions)) /\ Ordered(more) /\ RowsOf(more) \subseteq ToSet(rows)
  BY BulkGroups
<1>. HIDE DEF more
<1>2. Shaped(more)
  <2>1. \A i \in DOMAIN more : \A a \in DOMAIN more[i] : more[i][a] \in RowsOf(more)
    BY InRows, InSet
  <2>. QED BY <1>1, <2>1 DEF Shaped, AllRows
<1>3. AllFit(RowsOf(list), RowsOf(more))
  BY <1>1 DEF AllFit
<1>4. all \in Seq(Seq(Positions)) /\ Ordered(all) /\ RowsOf(all) = RowsOf(list) \cup RowsOf(more)
  BY <1>1, <1>3, Concat, OrderedConcat, RowsConcat
<1>5. Shaped(all)
  BY <1>1, <1>2, ShapedConcat
<1>6. AllFit(RowsOf(more), ToSet(defs))
  <2>. SUFFICES ASSUME NEW r \in RowsOf(more), NEW d \in ToSet(defs) PROVE Fits(r, d)
    BY DEF AllFit
  <2>1. r \in ToSet(rows) /\ r < d /\ r \in Positions /\ d \in Positions
    BY <1>1, SetTyped
  <2>. QED BY <2>1, FitsInOrder
<1>7. AllFit(RowsOf(all), ToSet(defs))
  BY <1>4, <1>6 DEF AllFit
<1>8. Complete => RowsOf(all) = RowsOf(list)
  BY <1>1, <1>4, EmptySets
<1>. HIDE DEF all
<1>9. \A p \in RowsOf(all) \cup ToSet(defs) : p < n
  BY <1>1, <1>4
<1>10. ReaderFits(all, defs, <<>>, n)
  BY <1>4, <1>5, <1>7, <1>8, <1>9, EmptySets
<1>. QED
  BY <1>10 DEF all, more

\* The line that is read, which comes after all that has been read.
LEMMA NextLine ==
  ASSUME ImTypes, NEW n \in Positions, NEW S \in SUBSET Positions, \A p \in S : p < n
  PROVE  /\ \A p \in S \cup {n} : p < n + 1
         /\ AllFit(S, {n}) /\ n \notin S
         /\ \A p \in Positions : p < n + 1 <=> p < n \/ p = n
<1>1. n \in Nat /\ \A p \in Positions : p \in Nat
  BY ImFileFacts
<1>2. \A p \in S : Fits(p, n)
  BY FitsInOrder
<1>. QED
  BY <1>1, <1>2 DEF AllFit

\* A statement of one line.
LEMMA OneRow ==
  ASSUME NEW n \in Positions
  PROVE  /\ <<n>> \in Seq(Positions) /\ InOrder(<<n>>) /\ ToSet(<<n>>) = {n} /\ Len(<<n>>) = 1
         /\ <<<<n>>>> \in Seq(Seq(Positions)) /\ Shaped(<<<<n>>>>)
<1>1. <<n>> \in Seq(Positions) /\ InOrder(<<n>>) /\ ToSet(<<n>>) = {n} /\ Len(<<n>>) = 1
  BY DEF InOrder, ToSet
<1>. QED
  BY <1>1 DEF Shaped

\* The line becomes a statement: nothing waits that must be executed before it.
LEMMA AddStatement ==
  ASSUME ImTypes, NEW list, NEW defs, NEW rows, NEW n \in Positions,
         ReaderFits(list, defs, rows, n),
         \/ imFile[n].kind \in {"rpl", "gtid"}
         \/ imFile[n].kind = "basic" /\ rows = <<>>
         \/ defs = <<>> /\ rows = <<>>,
         Complete => Wanted(n)
  PROVE  ReaderFits(Append(list, <<n>>), defs, rows, n + 1)
<1>. DEFINE all == Append(list, <<n>>)
<1>0. /\ list \in Seq(Seq(Positions)) /\ defs \in Seq(Positions) /\ rows \in Seq(Positions)
      /\ \A p \in RowsOf(list) \cup ToSet(defs) \cup ToSet(rows) : p < n
      /\ RowsOf(list) \cup ToSet(defs) \cup ToSet(rows) \subseteq Positions
  BY SetTyped, RowsTyped DEF ReaderFits
<1>1. /\ \A p \in RowsOf(list) \cup ToSet(defs) \cup ToSet(rows) \cup {n} : p < n + 1
      /\ AllFit(RowsOf(list), {n})
      /\ \A p \in Positions : p < n + 1 <=> p < n \/ p = n
  <2>1. /\ \A p \in RowsOf(list) \cup ToSet(defs) \cup ToSet(rows) \cup {n} : p < n + 1
        /\ \A p \in Positions : p < n + 1 <=> p < n \/ p = n
    BY <1>0, NextLine
  <2>2. AllFit(RowsOf(list), {n})
    BY <1>0, NextLine
  <2>. QED BY <2>1, <2>2
<1>2. all \in Seq(Seq(Positions)) /\ RowsOf(all) = RowsOf(list) \cup {n} /\ Ordered(all)
  <2>1. <<n>> \in Seq(Positions) /\ InOrder(<<n>>) /\ ToSet(<<n>>) = {n}
    BY OneRow
  <2>2. all \in Seq(Seq(Positions))
    BY <1>0, <2>1
  <2>3. RowsOf(all) = RowsOf(list) \cup {n}
    <3>1. RowsOf(Append(list, <<n>>)) = RowsOf(list) \cup ToSet(<<n>>)
      <4>. HIDE DEF all
      <4>1. PICK st : st = <<n>> /\ st \in Seq(Positions)
        BY <2>1
      <4>2. list \in Seq(Seq(Positions))
        BY <1>0
      <4>3. RowsOf(Append(list, st)) = RowsOf(list) \cup ToSet(st)
        BY <4>1, <4>2, RowsAppend
      <4>. QED BY <4>1, <4>3
    <3>. QED BY <2>1, <3>1
  <2>4. Ordered(list)
    BY DEF ReaderFits
  <2>5. Ordered(all)
    BY <1>0, <1>1, <2>1, <2>4, OrderedAppend
  <2>. QED BY <2>2, <2>3, <2>5
<1>3. Shaped(all)
  <2>1. all = list \o <<<<n>>>>
    BY <1>0
  <2>2. Shaped(list)
    BY DEF ReaderFits
  <2>. QED BY <1>0, <2>1, <2>2, OneRow, ShapedConcat
<1>4. AllFit({n}, ToSet(defs))
  <2>. SUFFICES ASSUME NEW d \in ToSet(defs) PROVE Fits(n, d)
    BY DEF AllFit
  <2>1. imFile[d].kind = "def" /\ ~imConf.sql /\ d < n /\ d \in Positions /\ imFile[n].kind \in {"rpl", "gtid", "basic"}
    BY <1>0, EmptySets DEF ReaderFits
  <2>2. ~Keeps(d, n)
    BY <2>1 DEF Keeps
  <2>3. n # d
    BY <2>1, ImFileFacts
  <2>. QED BY <2>2, <2>3 DEF Fits
<1>5. AllFit({n}, ToSet(rows))
  <2>. SUFFICES ASSUME NEW r \in ToSet(rows) PROVE Fits(n, r)
    BY DEF AllFit
  <2>1. imFile[r].kind = "row" /\ ~imConf.sql /\ r < n /\ r \in Positions /\ imFile[n].kind \in {"rpl", "gtid"}
    BY <1>0, EmptySets DEF ReaderFits, Complete
  <2>2. ~Keeps(r, n)
    BY <2>1 DEF Keeps
  <2>3. n # r
    BY <2>1, ImFileFacts
  <2>. QED BY <2>2, <2>3 DEF Fits
<1>. HIDE DEF all
<1>6. AllFit(RowsOf(all), ToSet(defs)) /\ AllFit(RowsOf(all), ToSet(rows))
  BY <1>2, <1>4, <1>5 DEF AllFit, ReaderFits
<1>7. \A p \in RowsOf(all) \cup ToSet(defs) \cup ToSet(rows) : p < n + 1
  BY <1>1, <1>2
<1>8. Complete => RowsOf(all) \cup ToSet(defs) = {p \in Positions : p < n + 1 /\ Wanted(p)}
  <2>. SUFFICES ASSUME Complete
                PROVE  \A p : p \in RowsOf(all) \cup ToSet(defs) <=> p \in Positions /\ p < n + 1 /\ Wanted(p)
    OBVIOUS
  <2>1. \A p : p \in RowsOf(list) \cup ToSet(defs) <=> p \in Positions /\ p < n /\ Wanted(p)
    BY DEF ReaderFits
  <2>. QED BY <1>1, <1>2, <2>1
<1>9. ReaderFits(all, defs, rows, n + 1)
  BY <1>2, <1>3, <1>6, <1>7, <1>8 DEF ReaderFits
<1>. QED
  BY <1>9 DEF all

\* The line waits among the definitions.
LEMMA AddDefinition ==
  ASSUME ImTypes, NEW list, NEW defs, NEW rows, NEW n \in Positions,
         ReaderFits(list, defs, rows, n),
         imFile[n].kind = "def", ~imConf.sql, Wanted(n)
  PROVE  ReaderFits(list, Append(defs, n), rows, n + 1)
<1>. DEFINE all == Append(defs, n)
<1>0. /\ list \in Seq(Seq(Positions)) /\ defs \in Seq(Positions) /\ rows \in Seq(Positions)
      /\ \A p \in RowsOf(list) \cup ToSet(defs) \cup ToSet(rows) : p < n
      /\ RowsOf(list) \cup ToSet(defs) \cup ToSet(rows) \subseteq Positions
  BY SetTyped, RowsTyped DEF ReaderFits
<1>1. /\ \A p \in RowsOf(list) \cup ToSet(defs) \cup ToSet(rows) \cup {n} : p < n + 1
      /\ AllFit(RowsOf(list) \cup ToSet(defs) \cup ToSet(rows), {n})
      /\ \A p \in Positions : p < n + 1 <=> p < n \/ p = n
  <2>. DEFINE S == RowsOf(list) \cup ToSet(defs) \cup ToSet(rows)
  <2>1. S \in SUBSET Positions /\ \A p \in S : p < n
    BY <1>0
  <2>. HIDE DEF S
  <2>2. /\ \A p \in S \cup {n} : p < n + 1
        /\ AllFit(S, {n})
        /\ \A p \in Positions : p < n + 1 <=> p < n \/ p = n
    BY <2>1, NextLine
  <2>. QED BY <2>2 DEF S
<1>2. all \in Seq(Positions) /\ ToSet(all) = ToSet(defs) \cup {n} /\ all = defs \o <<n>>
  <2>1. ToSet(all) = ToSet(defs) \cup {n}
    BY <1>0, SetAppend
  <2>2. all \in Seq(Positions) /\ all = defs \o <<n>>
    BY <1>0
  <2>. QED BY <2>1, <2>2
<1>3. InOrder(all)
  <2>1. InOrder(defs) /\ AllFit(ToSet(defs), {n})
    BY <1>1 DEF AllFit, ReaderFits
  <2>2. <<n>> \in Seq(Positions) /\ InOrder(<<n>>) /\ ToSet(<<n>>) = {n}
    BY OneRow
  <2>3. InOrder(defs \o <<n>>)
    BY <1>0, <2>1, <2>2, InOrderConcat
  <2>. QED BY <1>2, <2>3
<1>. HIDE DEF all
<1>4. AllFit(RowsOf(list), ToSet(all))
  BY <1>1, <1>2 DEF AllFit, ReaderFits
<1>5. \A r \in ToSet(rows), d \in ToSet(all) : r < d
  BY <1>0, <1>2 DEF ReaderFits
<1>6. Complete => RowsOf(list) \cup ToSet(all) = {p \in Positions : p < n + 1 /\ Wanted(p)}
  <2>. SUFFICES ASSUME Complete
                PROVE  \A p : p \in RowsOf(list) \cup ToSet(all) <=> p \in Positions /\ p < n + 1 /\ Wanted(p)
    OBVIOUS
  <2>1. \A p : p \in RowsOf(list) \cup ToSet(defs) <=> p \in Positions /\ p < n /\ Wanted(p)
    BY DEF ReaderFits
  <2>. QED BY <1>1, <1>2, <2>1
<1>7. \A p \in RowsOf(list) \cup ToSet(all) \cup ToSet(rows) : p < n + 1
  BY <1>1, <1>2
<1>8. \A d \in ToSet(all) : imFile[d].kind = "def"
  BY <1>2 DEF ReaderFits
<1>9. ReaderFits(list, all, rows, n + 1)
  BY <1>2, <1>3, <1>4, <1>5, <1>6, <1>7, <1>8 DEF ReaderFits
<1>. QED
  BY <1>9 DEF all

\* The line waits among the rows.
LEMMA AddRow ==
  ASSUME ImTypes, NEW list, NEW rows, NEW n \in Positions,
         ReaderFits(list, <<>>, rows, n),
         imFile[n].kind = "row", ~Complete
  PROVE  ReaderFits(list, <<>>, Append(rows, n), n + 1)
<1>. DEFINE all == Append(rows, n)
<1>0. /\ list \in Seq(Seq(Positions)) /\ rows \in Seq(Positions)
      /\ \A p \in RowsOf(list) \cup ToSet(rows) : p < n
      /\ RowsOf(list) \cup ToSet(rows) \subseteq Positions
  BY SetTyped, RowsTyped DEF ReaderFits
<1>1. /\ \A p \in RowsOf(list) \cup ToSet(rows) \cup {n} : p < n + 1
      /\ AllFit(RowsOf(list) \cup ToSet(rows), {n})
  BY <1>0, NextLine
<1>2. all \in Seq(Positions) /\ ToSet(all) = ToSet(rows) \cup {n} /\ all = rows \o <<n>>
  <2>1. ToSet(all) = ToSet(rows) \cup {n}
    BY <1>0, SetAppend
  <2>2. all \in Seq(Positions) /\ all = rows \o <<n>>
    BY <1>0
  <2>. QED BY <2>1, <2>2
<1>3. InOrder(all)
  <2>1. InOrder(rows) /\ AllFit(ToSet(rows), {n})
    BY <1>1 DEF AllFit, ReaderFits
  <2>2. <<n>> \in Seq(Positions) /\ InOrder(<<n>>) /\ ToSet(<<n>>) = {n}
    BY OneRow
  <2>3. InOrder(rows \o <<n>>)
    BY <1>0, <2>1, <2>2, InOrderConcat
  <2>. QED BY <1>2, <2>3
<1>. HIDE DEF all
<1>4. AllFit(RowsOf(list), ToSet(all))
  BY <1>1, <1>2 DEF AllFit, ReaderFits
<1>5. \A p \in RowsOf(list) \cup ToSet(<<>>) \cup ToSet(all) : p < n + 1
  BY <1>1, <1>2, EmptySets
<1>6. \A r \in ToSet(all) : imFile[r].kind = "row"
  BY <1>2 DEF ReaderFits
<1>7. ReaderFits(list, <<>>, all, n + 1)
  BY <1>2, <1>3, <1>4, <1>5, <1>6, EmptySets DEF ReaderFits
<1>. QED
  BY <1>7 DEF all

\* The line is left out (--import, or the columns that begin a table).
LEMMA LeaveOut ==
  ASSUME ImTypes, NEW list, NEW defs, NEW rows, NEW n \in Positions,
         ReaderFits(list, defs, rows, n), ~Wanted(n)
  PROVE  ReaderFits(list, defs, rows, n + 1)
<1>0. /\ list \in Seq(Seq(Positions)) /\ defs \in Seq(Positions) /\ rows \in Seq(Positions)
      /\ \A p \in RowsOf(list) \cup ToSet(defs) \cup ToSet(rows) : p < n
      /\ RowsOf(list) \cup ToSet(defs) \cup ToSet(rows) \subseteq Positions
  BY SetTyped, RowsTyped DEF ReaderFits
<1>1. /\ \A p \in RowsOf(list) \cup ToSet(defs) \cup ToSet(rows) : p < n + 1
      /\ \A p \in Positions : p < n + 1 <=> p < n \/ p = n
  BY <1>0, NextLine
<1>2. Complete => RowsOf(list) \cup ToSet(defs) = {p \in Positions : p < n + 1 /\ Wanted(p)}
  <2>. SUFFICES ASSUME Complete
                PROVE  \A p : p \in RowsOf(list) \cup ToSet(defs) <=> p \in Positions /\ p < n + 1 /\ Wanted(p)
    OBVIOUS
  <2>1. \A p : p \in RowsOf(list) \cup ToSet(defs) <=> p \in Positions /\ p < n /\ Wanted(p)
    BY DEF ReaderFits
  <2>. QED BY <1>1, <2>1
<1>. QED
  BY <1>1, <1>2 DEF ReaderFits

----------------------------------------------------------------------------
\* What the file and the call decide does not change.
LEMMA SameFile ==
  ASSUME imFile' = imFile, imConf' = imConf
  PROVE  /\ Positions' = Positions /\ (Complete' <=> Complete)
         /\ \A p : Wanted(p)' <=> Wanted(p)
         /\ \A S, T : AllFit(S, T)' <=> AllFit(S, T)
         /\ \A st : (InOrder(st)' <=> InOrder(st)) /\ (AllRows(st)' <=> AllRows(st))
         /\ \A list : (Ordered(list)' <=> Ordered(list)) /\ (Shaped(list)' <=> Shaped(list))
<1>1. \A p, q : Fits(p, q)' <=> Fits(p, q)
  BY DEF Fits, Keeps
<1>2. \A S, T : AllFit(S, T)' <=> AllFit(S, T)
  BY <1>1 DEF AllFit
<1>3. \A st : InOrder(st)' <=> InOrder(st)
  BY <1>1 DEF InOrder
<1>4. \A list : Ordered(list)' <=> Ordered(list)
  BY <1>2, <1>3 DEF Ordered
<1>5. \A st : AllRows(st)' <=> AllRows(st)
  BY DEF AllRows
<1>6. \A list : Shaped(list)' <=> Shaped(list)
  BY <1>5 DEF Shaped
<1>7. \A p : Wanted(p)' <=> Wanted(p)
  BY DEF Wanted, Wants
<1>8. Positions' = Positions /\ (Complete' <=> Complete)
  BY DEF Positions, Complete
<1>. QED
  BY <1>2, <1>3, <1>4, <1>5, <1>6, <1>7, <1>8

\* So does what the reader has read.
LEMMA ReaderKept ==
  ASSUME imFile' = imFile, imConf' = imConf, NEW list, NEW defs, NEW rows, NEW n,
         ReaderFits(list, defs, rows, n)
  PROVE  ReaderFits(list, defs, rows, n)'
<1>1. /\ Positions' = Positions /\ (Complete' <=> Complete)
      /\ \A p : Wanted(p)' <=> Wanted(p)
      /\ \A S, T : AllFit(S, T)' <=> AllFit(S, T)
      /\ \A st : InOrder(st)' <=> InOrder(st)
      /\ (Ordered(list)' <=> Ordered(list)) /\ (Shaped(list)' <=> Shaped(list))
  BY SameFile
<1>2. imFile' = imFile /\ imConf' = imConf
  OBVIOUS
<1>. QED
  BY <1>1, <1>2 DEF ReaderFits

\* A step of import_file: one line has been read.
LEMMA LineRead ==
  ASSUME ImInv, imPhase = "read", imPos \in Positions, imPos' = imPos + 1,
         UNCHANGED <<imFile, imConf, imPhase, imExec>>,
         ReaderFits(statements', definitions', tableRows', imPos + 1)
  PROVE  ImInv'
<1>1. PICK list, defs, rows, n :
        list = statements' /\ defs = definitions' /\ rows = tableRows' /\ n = imPos'
  OBVIOUS
<1>2. ReaderFits(list, defs, rows, n)'
  BY <1>1, ReaderKept
<1>3. ReaderInv'
  BY <1>1, <1>2 DEF ImInv, ReaderInv, imExec
<1>4. ImTypes'
  <2>1. /\ statements' \in Seq(Seq(Positions)) /\ definitions' \in Seq(Positions)
        /\ tableRows' \in Seq(Positions)
    BY <1>1 DEF ReaderFits
  <2>2. imPos' \in Nat \ {0} /\ Positions' = Positions
    BY SameFile, <1>1 DEF ImInv, ImTypes
  <2>. QED BY <2>1, <2>2 DEF ImInv, ImTypes, imExec
<1>5. Ordered(executed)'
  BY SameFile DEF ImInv, imExec
<1>6. StatementsInv' /\ ExecInv' /\ DoneInv'
  BY DEF StatementsInv, ExecInv, DoneInv
<1>. QED
  BY <1>3, <1>4, <1>5, <1>6 DEF ImInv

\* What a step of import_file is given.
LEMMA LineFacts ==
  ASSUME ImInv, NEW kinds, Reads(kinds)
  PROVE  /\ imPos \in Positions /\ imPhase = "read" /\ imPos' = imPos + 1
         /\ UNCHANGED <<imFile, imConf, imPhase, imExec>>
         /\ ImTypes /\ ReaderFits(statements, definitions, tableRows, imPos)
         /\ imFile[imPos].kind \in kinds
<1>1. ImTypes /\ imPos \in 1..Len(imFile)
  BY ImFileFacts DEF ImInv, ImTypes, Reads
<1>. QED
  BY <1>1, ImFileFacts DEF ImInv, ReaderInv, Reads, Row

\* Replication and GTID commands.
LEMMA ReadReplicationCommandInv == ImInv /\ ReadReplicationCommand => ImInv'
<1>. SUFFICES ASSUME ImInv, ReadReplicationCommand PROVE ImInv'
  OBVIOUS
<1>. USE DEF ReadReplicationCommand
<1>1. /\ imPos \in Positions /\ imPhase = "read" /\ imPos' = imPos + 1
      /\ UNCHANGED <<imFile, imConf, imPhase, imExec>>
      /\ ImTypes /\ ReaderFits(statements, definitions, tableRows, imPos)
      /\ imFile[imPos].kind \in {"rpl", "gtid"}
  BY LineFacts
<1>2. Wanted(imPos)
  BY <1>1 DEF Wanted
<1>3. ReaderFits(Append(statements, <<imPos>>), definitions, tableRows, imPos + 1)
  BY <1>1, <1>2, AddStatement
<1>. QED
  BY <1>1, <1>3, LineRead

\* SET FOREIGN_KEY_CHECKS, after the rows that wait.
LEMMA ReadBasicCommandInv == ImInv /\ ReadBasicCommand => ImInv'
<1>. SUFFICES ASSUME ImInv, ReadBasicCommand PROVE ImInv'
  OBVIOUS
<1>. USE DEF ReadBasicCommand
<1>1. /\ imPos \in Positions /\ imPhase = "read" /\ imPos' = imPos + 1
      /\ UNCHANGED <<imFile, imConf, imPhase, imExec>>
      /\ ImTypes /\ ReaderFits(statements, definitions, tableRows, imPos)
      /\ imFile[imPos].kind \in {"basic"}
  BY LineFacts
<1>2. Wanted(imPos)
  BY <1>1 DEF Wanted
<1>3. PICK list : list = statements \o MakeBulkInsert(tableRows)
  OBVIOUS
<1>4. ReaderFits(list, definitions, <<>>, imPos)
  BY <1>1, <1>3, FlushRows
<1>5. ReaderFits(Append(list, <<imPos>>), definitions, <<>>, imPos + 1)
  BY <1>1, <1>2, <1>4, AddStatement
<1>. QED
  BY <1>1, <1>3, <1>5, LineRead

\* Definitions.
LEMMA ReadDefinitionInv == ImInv /\ ReadDefinition => ImInv'
<1>. SUFFICES ASSUME ImInv, ReadDefinition PROVE ImInv'
  OBVIOUS
<1>. USE DEF ReadDefinition
<1>1. /\ imPos \in Positions /\ imPhase = "read" /\ imPos' = imPos + 1
      /\ UNCHANGED <<imFile, imConf, imPhase, imExec>>
      /\ ImTypes /\ ReaderFits(statements, definitions, tableRows, imPos)
      /\ imFile[imPos].kind \in {"def"}
  BY LineFacts
<1>2. Wanted(imPos) <=> Wants("definitions")
  BY <1>1 DEF Wanted
<1>3. tableRows' = tableRows
  OBVIOUS
<1>4. CASE ~Wants("definitions")
  <2>1. ReaderFits(statements, definitions, tableRows, imPos + 1)
    BY <1>1, <1>2, <1>4, LeaveOut
  <2>2. definitions' = definitions /\ statements' = statements
    BY <1>4
  <2>. QED BY <1>1, <1>3, <2>1, <2>2, LineRead
<1>5. CASE Wants("definitions") /\ imConf.sql
  <2>1. definitions = <<>> /\ tableRows = <<>>
    BY <1>1, <1>5 DEF ReaderFits, Complete
  <2>2. ReaderFits(Append(statements, <<imPos>>), definitions, tableRows, imPos + 1)
    BY <1>1, <1>2, <1>5, <2>1, AddStatement
  <2>3. definitions' = definitions /\ statements' = Append(statements, <<imPos>>)
    BY <1>5
  <2>. QED BY <1>1, <1>3, <2>2, <2>3, LineRead
<1>6. CASE Wants("definitions") /\ ~imConf.sql
  <2>1. ReaderFits(statements, Append(definitions, imPos), tableRows, imPos + 1)
    BY <1>1, <1>2, <1>6, AddDefinition
  <2>2. definitions' = Append(definitions, imPos) /\ statements' = statements
    BY <1>6
  <2>. QED BY <1>1, <1>3, <2>1, <2>2, LineRead
<1>. QED
  BY <1>4, <1>5, <1>6

\* The first line of a table, and its rows.
LEMMA ReadDataInv == ImInv /\ ReadData => ImInv'
<1>. SUFFICES ASSUME ImInv, ReadData PROVE ImInv'
  OBVIOUS
<1>. DEFINE grouped == Wants("data") /\ ~imConf.sql /\ imConf.bulk
<1>0. PICK list : list = statements \o Single(definitions)
  OBVIOUS
<1>1. /\ imPos \in Positions /\ imPhase = "read" /\ imPos' = imPos + 1
      /\ UNCHANGED <<imFile, imConf, imPhase, imExec>>
      /\ ImTypes /\ ReaderFits(statements, definitions, tableRows, imPos)
      /\ imFile[imPos].kind \in {"begin", "row"}
  BY LineFacts DEF ReadData
<1>2. /\ definitions' = <<>>
      /\ \/ /\ imFile[imPos].kind = "begin" /\ grouped
            /\ statements' = list \o MakeBulkInsert(tableRows) /\ tableRows' = <<>>
         \/ /\ imFile[imPos].kind = "row" /\ grouped
            /\ statements' = list /\ tableRows' = Append(tableRows, imPos)
         \/ /\ imFile[imPos].kind = "row" /\ Wants("data") /\ ~grouped
            /\ statements' = Append(list, <<imPos>>) /\ tableRows' = tableRows
         \/ /\ ~Wants("data") \/ (imFile[imPos].kind = "begin" /\ ~grouped)
            /\ statements' = list /\ tableRows' = tableRows
  BY <1>0 DEF ReadData, Row
<1>3. grouped => ~Complete
  BY DEF Complete
<1>4. ~grouped /\ Wants("data") => Complete
  BY <1>1, ImFileFacts DEF Complete
<1>. HIDE DEF grouped
<1>5. ReaderFits(list, <<>>, tableRows, imPos)
  BY <1>0, <1>1, FlushDefinitions
<1>6. /\ imFile[imPos].kind = "begin" => ~Wanted(imPos)
      /\ imFile[imPos].kind = "row" => (Wanted(imPos) <=> Wants("data"))
  BY DEF Wanted
<1>7. CASE /\ imFile[imPos].kind = "begin"
           /\ statements' = list \o MakeBulkInsert(tableRows) /\ tableRows' = <<>>
  <2>1. PICK all : all = list \o MakeBulkInsert(tableRows)
    OBVIOUS
  <2>2. ReaderFits(all, <<>>, <<>>, imPos)
    BY <1>1, <1>5, <2>1, FlushRows
  <2>3. ReaderFits(all, <<>>, <<>>, imPos + 1)
    BY <1>1, <1>6, <1>7, <2>2, LeaveOut
  <2>. QED BY <1>1, <1>2, <1>7, <2>1, <2>3, LineRead
<1>8. CASE /\ imFile[imPos].kind = "row" /\ grouped
           /\ statements' = list /\ tableRows' = Append(tableRows, imPos)
  <2>1. ReaderFits(list, <<>>, Append(tableRows, imPos), imPos + 1)
    BY <1>1, <1>3, <1>5, <1>8, AddRow
  <2>. QED BY <1>1, <1>2, <1>8, <2>1, LineRead
<1>9. CASE /\ imFile[imPos].kind = "row" /\ Wants("data") /\ ~grouped
           /\ statements' = Append(list, <<imPos>>) /\ tableRows' = tableRows
  <2>1. tableRows = <<>>
    BY <1>4, <1>5, <1>9 DEF ReaderFits
  <2>2. Wanted(imPos)
    BY <1>6, <1>9
  <2>3. ReaderFits(Append(list, <<imPos>>), <<>>, tableRows, imPos + 1)
    BY <1>1, <1>5, <2>1, <2>2, AddStatement
  <2>. QED BY <1>1, <1>2, <1>9, <2>3, LineRead
<1>10. CASE /\ ~Wants("data") \/ (imFile[imPos].kind = "begin" /\ ~grouped)
            /\ statements' = list /\ tableRows' = tableRows
  <2>1. ~Wanted(imPos)
    BY <1>1, <1>6, <1>10
  <2>2. ReaderFits(list, <<>>, tableRows, imPos + 1)
    BY <1>1, <1>5, <2>1, LeaveOut
  <2>. QED BY <1>1, <1>2, <1>10, <2>2, LineRead
<1>. QED
  BY <1>2, <1>7, <1>8, <1>9, <1>10

----------------------------------------------------------------------------
\* _exec_statements.

\* The rows of the statements before one.
LEMMA InRowsBefore ==
  \A n, x : x \in RowsBefore(n) <=> \E i \in DOMAIN statements : i < n /\ x \in ToSet(statements[i])
BY DEF RowsBefore

\* The end of the file: what waits becomes statements, and none is executed yet.
LEMMA ReadEndInv == ImInv /\ ReadEnd => ImInv'
<1>. SUFFICES ASSUME ImInv, ReadEnd PROVE ImInv'
  OBVIOUS
<1>1. PICK flushed, list :
        flushed = statements \o Single(definitions) /\ list = flushed \o MakeBulkInsert(tableRows)
  OBVIOUS
<1>2. /\ imPhase = "read" /\ imPos > Len(imFile) /\ imPhase' = "exec" /\ imPos' = 1
      /\ statements' = list /\ definitions' = <<>> /\ tableRows' = <<>>
      /\ imFile' = imFile /\ imConf' = imConf /\ bulkValues' = bulkValues /\ bulkCount' = bulkCount
      /\ executed' = executed /\ kept' = kept
  BY <1>1 DEF ReadEnd, imExec
<1>3. ImTypes /\ ReaderFits(statements, definitions, tableRows, imPos)
      /\ executed = <<>> /\ bulkValues = <<>> /\ bulkCount = 0
  BY <1>2 DEF ImInv, ReaderInv
<1>4. ReaderFits(flushed, <<>>, tableRows, imPos)
  BY <1>1, <1>3, FlushDefinitions
<1>5. ReaderFits(list, <<>>, <<>>, imPos)
  BY <1>1, <1>3, <1>4, FlushRows
<1>6. /\ list \in Seq(Seq(Positions)) /\ Ordered(list) /\ Shaped(list)
      /\ Complete => RowsOf(list) = {p \in Positions : Wanted(p)}
  <2>1. \A p \in Positions : p < imPos
    BY <1>2, <1>3, ImFileFacts DEF ImTypes
  <2>2. Complete => \A p : p \in RowsOf(list) <=> p \in Positions /\ p < imPos /\ Wanted(p)
    BY <1>5, EmptySets DEF ReaderFits
  <2>3. Complete => \A p : p \in RowsOf(list) <=> p \in Positions /\ Wanted(p)
    BY <2>1, <2>2
  <2>4. list \in Seq(Seq(Positions)) /\ Ordered(list) /\ Shaped(list)
    BY <1>5 DEF ReaderFits
  <2>. QED BY <2>3, <2>4
<1>7. ImTypes'
  BY <1>2, <1>3, <1>6, SameFile, EmptySets DEF ImTypes
<1>8. Ordered(executed)' /\ ReaderInv' /\ DoneInv'
  BY <1>2, SameFile DEF ReaderInv, DoneInv, ImInv
<1>9. StatementsInv'
  BY <1>2, <1>6, SameFile DEF StatementsInv
<1>10. ExecInv'
  <2>1. \A x : x \notin RowsBefore(1)'
    <3>1. \A i \in DOMAIN list : ~(i < 1)
      BY <1>6
    <3>2. RowsBefore(1)' = UNION {ToSet(list[i]) : i \in {j \in DOMAIN list : j < 1}}
      BY <1>2 DEF RowsBefore
    <3>. QED BY <3>1, <3>2
  <2>2. RowsOf(<<>>) \cup ToSet(<<>>) = RowsBefore(1)'
    BY <2>1, EmptySets
  <2>3. /\ <<>> \in Seq(Seq(Positions)) /\ <<>> \in Seq(Positions)
        /\ Ordered(<<>>)' /\ InOrder(<<>>)' /\ AllFit(RowsOf(<<>>), ToSet(<<>>))' /\ AllRows(<<>>)'
    BY <1>2, SameFile, EmptySets
  <2>4. 0 \in 0..(MaxBulkInsert + 1)
    BY ImAssumption
  <2>5. ExecFits(<<>>, <<>>, 0, 1)'
    BY <1>2, <2>2, <2>3, <2>4, SameFile DEF ExecFits
  <2>. QED BY <1>2, <1>3, <2>5 DEF ExecInv
<1>. QED
  BY <1>7, <1>8, <1>9, <1>10 DEF ImInv

\* The statement that is next.
LEMMA NextStatement ==
  ASSUME ImTypes, Ordered(statements), Shaped(statements), NEW n \in DOMAIN statements
  PROVE  /\ statements[n] \in Seq(Positions) /\ InOrder(statements[n])
         /\ Len(statements[n]) = 1 \/ AllRows(statements[n])
         /\ AllFit(RowsBefore(n), ToSet(statements[n]))
         /\ RowsBefore(n + 1) = RowsBefore(n) \cup ToSet(statements[n])
<1>1. DOMAIN statements = 1..Len(statements) /\ Len(statements) \in Nat
      /\ statements[n] \in Seq(Positions)
  BY DEF ImTypes
<1>2. InOrder(statements[n]) /\ (Len(statements[n]) = 1 \/ AllRows(statements[n]))
  BY DEF Ordered, Shaped
<1>3. AllFit(RowsBefore(n), ToSet(statements[n]))
  BY InRowsBefore DEF Ordered, AllFit
<1>4. \A x : x \in RowsBefore(n + 1) <=> x \in RowsBefore(n) \cup ToSet(statements[n])
  BY <1>1, InRowsBefore
<1>. QED
  BY <1>1, <1>2, <1>3, <1>4

\* What happens to the statement: it is executed, it is kept back, or it joins the
\* values that are kept back; before that they may be executed.
LEMMA ExecutedNow ==
  ASSUME NEW list, NEW values, NEW count, NEW n, NEW m, ExecFits(list, values, count, n),
         NEW st \in Seq(Positions), InOrder(st), AllFit(RowsBefore(n), ToSet(st)),
         RowsBefore(m) = RowsBefore(n) \cup ToSet(st), AllFit(ToSet(st), ToSet(values))
  PROVE  ExecFits(Append(list, st), values, count, m)
<1>. DEFINE all == Append(list, st)
<1>1. list \in Seq(Seq(Positions)) /\ Ordered(list) /\ RowsOf(list) \subseteq RowsBefore(n)
  BY DEF ExecFits
<1>2. AllFit(RowsOf(list), ToSet(st))
  BY <1>1 DEF AllFit
<1>3. all \in Seq(Seq(Positions)) /\ Ordered(all) /\ RowsOf(all) = RowsOf(list) \cup ToSet(st)
  <2>1. all \in Seq(Seq(Positions))
    BY <1>1
  <2>2. Ordered(all)
    BY <1>1, <1>2, OrderedAppend
  <2>3. RowsOf(all) = RowsOf(list) \cup ToSet(st)
    BY <1>1, RowsAppend
  <2>. QED BY <2>1, <2>2, <2>3
<1>. HIDE DEF all
<1>4. AllFit(RowsOf(all), ToSet(values)) /\ RowsOf(all) \cup ToSet(values) = RowsBefore(m)
  BY <1>3 DEF AllFit, ExecFits
<1>5. ExecFits(all, values, count, m)
  BY <1>3, <1>4 DEF ExecFits
<1>. QED
  BY <1>5 DEF all

\* The INSERT that was merged is executed.
LEMMA PendingExecuted ==
  ASSUME NEW list, NEW count, NEW n, ExecFits(list, bulkValues, count, n)
  PROVE  ExecFits(list \o Pending, <<>>, 0, n) /\ list \o Pending \in Seq(Seq(Positions))
<1>1. list \in Seq(Seq(Positions)) /\ bulkValues \in Seq(Positions) /\ 0 \in 0..(MaxBulkInsert + 1)
      /\ Ordered(list) /\ InOrder(bulkValues) /\ AllFit(RowsOf(list), ToSet(bulkValues))
      /\ RowsOf(list) \cup ToSet(bulkValues) = RowsBefore(n)
  BY ImAssumption DEF ExecFits
<1>2. CASE bulkValues = <<>>
  <2>1. list \o Pending = list
    BY <1>1, <1>2 DEF Pending
  <2>2. RowsOf(list) \cup ToSet(<<>>) = RowsBefore(n)
    BY <1>1, <1>2
  <2>. QED BY <1>1, <2>1, <2>2, EmptySets DEF ExecFits
<1>3. CASE bulkValues # <<>>
  <2>. DEFINE all == Append(list, bulkValues)
  <2>1. list \o Pending = all
    BY <1>1, <1>3 DEF Pending
  <2>2. all \in Seq(Seq(Positions))
    BY <1>1
  <2>3. Ordered(all)
    BY <1>1, OrderedAppend
  <2>4. RowsOf(all) = RowsOf(list) \cup ToSet(bulkValues)
    BY <1>1, RowsAppend
  <2>. HIDE DEF all
  <2>5. RowsOf(all) \cup ToSet(<<>>) = RowsBefore(n)
    BY <1>1, <2>4, EmptySets
  <2>. QED BY <1>1, <2>1, <2>2, <2>3, <2>5, EmptySets DEF ExecFits
<1>. QED
  BY <1>2, <1>3

\* A new one begins.
LEMMA KeptBack ==
  ASSUME NEW list, NEW n, NEW m, ExecFits(list, <<>>, 0, n),
         NEW st \in Seq(Positions), InOrder(st), AllFit(RowsBefore(n), ToSet(st)),
         RowsBefore(m) = RowsBefore(n) \cup ToSet(st), AllRows(st), st # <<>>, imConf.bulk,
         NEW count \in 0..(MaxBulkInsert + 1)
  PROVE  ExecFits(list, st, count, m)
<1>1. RowsOf(list) = RowsBefore(n)
  BY EmptySets DEF ExecFits
<1>. QED
  BY <1>1 DEF ExecFits

\* It takes the rows of another one.
LEMMA JoinsValues ==
  ASSUME NEW list, NEW values, NEW count, NEW n, NEW m, ExecFits(list, values, count, n),
         NEW st \in Seq(Positions), InOrder(st), AllFit(RowsBefore(n), ToSet(st)),
         RowsBefore(m) = RowsBefore(n) \cup ToSet(st), AllRows(st), st # <<>>, imConf.bulk,
         count + 1 \in 0..(MaxBulkInsert + 1)
  PROVE  ExecFits(list, values \o st, count + 1, m)
<1>. DEFINE all == values \o st
<1>1. /\ values \in Seq(Positions) /\ InOrder(values) /\ AllRows(values)
      /\ RowsOf(list) \cup ToSet(values) = RowsBefore(n) /\ AllFit(RowsOf(list), ToSet(values))
      /\ list \in Seq(Seq(Positions)) /\ Ordered(list)
  BY DEF ExecFits
<1>2. ToSet(all) = ToSet(values) \cup ToSet(st)
  BY <1>1, SetConcat
<1>3. InOrder(all)
  <2>1. AllFit(ToSet(values), ToSet(st))
    BY <1>1 DEF AllFit
  <2>. QED BY <1>1, <2>1, InOrderConcat
<1>4. all \in Seq(Positions) /\ all # <<>>
  BY <1>1
<1>. HIDE DEF all
<1>5. AllRows(all)
  <2>1. \A p \in ToSet(all) : imFile[p].kind = "row"
    BY <1>1, <1>2, InSet DEF AllRows
  <2>. QED BY <2>1, InSet DEF AllRows
<1>6. AllFit(RowsOf(list), ToSet(all)) /\ RowsOf(list) \cup ToSet(all) = RowsBefore(m)
  BY <1>1, <1>2 DEF AllFit
<1>7. ExecFits(list, all, count + 1, m)
  BY <1>1, <1>3, <1>4, <1>5, <1>6 DEF ExecFits
<1>. QED
  BY <1>7 DEF all

\* CREATE TABLE with another engine may overtake the rows that are kept back.
LEMMA DefinitionOvertakes ==
  ASSUME ImTypes, imConf.engine, NEW st \in Seq(Positions), Kind(st) = "def",
         Len(st) = 1 \/ AllRows(st), NEW values \in Seq(Positions), AllRows(values)
  PROVE  AllFit(ToSet(st), ToSet(values))
<1>. SUFFICES ASSUME NEW p \in ToSet(st), NEW q \in ToSet(values) PROVE Fits(p, q)
  BY DEF AllFit
<1>1. imFile[q].kind = "row" /\ q \in Positions
  BY InSet, SetTyped DEF AllRows
<1>2. imFile[p].kind = "def" /\ p \in Positions
  <2>1. PICK i \in DOMAIN st : st[i] = p
    BY InSet
  <2>2. DOMAIN st = 1..Len(st) /\ Len(st) \in Nat
    OBVIOUS
  <2>3. 1 \in DOMAIN st
    BY <2>1, <2>2
  <2>4. ~AllRows(st)
    BY <2>3 DEF AllRows, Kind
  <2>5. i = 1
    BY <2>1, <2>2, <2>4
  <2>. QED BY <2>1, <2>5, SetTyped DEF Kind
<1>3. ~Keeps(q, p)
  BY <1>1, <1>2 DEF Keeps
<1>4. p # q
  BY <1>1, <1>2, ImFileFacts
<1>. QED
  BY <1>3, <1>4 DEF Fits

\* A statement that can be merged.
LEMMA OneInsert ==
  ASSUME NEW st \in Seq(Positions), Insert(st), Len(st) = 1
  PROVE  AllRows(st) /\ st # <<>>
<1>1. DOMAIN st = 1..Len(st) /\ Len(<<>>) = 0
  OBVIOUS
<1>. QED
  BY <1>1 DEF AllRows, Insert, Kind

\* One statement keeps what has been executed in order, and loses nothing.
LEMMA TakeFits ==
  ASSUME ImTypes, imPhase = "exec", StatementsInv, ExecInv, NEW st,
         imPos \in DOMAIN statements, st = statements[imPos]
  PROVE  ExecFits(executed \o Take(st).list, Take(st).values, Take(st).count, imPos + 1)
<1>1. /\ st \in Seq(Positions) /\ InOrder(st) /\ (Len(st) = 1 \/ AllRows(st))
      /\ AllFit(RowsBefore(imPos), ToSet(st))
      /\ RowsBefore(imPos + 1) = RowsBefore(imPos) \cup ToSet(st)
  BY NextStatement DEF StatementsInv
<1>2. ExecFits(executed, bulkValues, bulkCount, imPos)
  BY DEF ExecInv
<1>3. /\ executed \in Seq(Seq(Positions)) /\ bulkValues \in Seq(Positions)
      /\ bulkCount \in 0..(MaxBulkInsert + 1) /\ MaxBulkInsert \in Nat
  BY ImAssumption DEF ImTypes
<1>4. PICK flushed : flushed = executed \o Pending
  OBVIOUS
<1>5. ExecFits(flushed, <<>>, 0, imPos) /\ flushed \in Seq(Seq(Positions))
  BY <1>2, <1>4, PendingExecuted
<1>6. \A list \in Seq(Seq(Positions)) : list \o <<st>> = Append(list, st) /\ list \o <<>> = list
  BY <1>1
<1>7. CASE imConf.engine /\ Kind(st) = "def"
  <2>1. Take(st) = Does(<<st>>, bulkValues, bulkCount)
    BY <1>7 DEF Take
  <2>2. AllFit(ToSet(st), ToSet(bulkValues))
    BY <1>1, <1>2, <1>7, DefinitionOvertakes DEF ExecFits
  <2>3. ExecFits(Append(executed, st), bulkValues, bulkCount, imPos + 1)
    BY <1>1, <1>2, <2>2, ExecutedNow
  <2>4. Take(st).list = <<st>> /\ Take(st).values = bulkValues /\ Take(st).count = bulkCount
    BY <2>1 DEF Does
  <2>5. executed \o <<st>> = Append(executed, st)
    BY <1>3, <1>6
  <2>. QED BY <2>3, <2>4, <2>5
<1>8. CASE ~(imConf.engine /\ Kind(st) = "def") /\ ~imConf.bulk
  <2>1. Take(st) = Does(<<st>>, <<>>, 0)
    BY <1>8 DEF Take
  <2>2. ExecFits(executed, <<>>, 0, imPos) /\ AllFit(ToSet(st), ToSet(<<>>))
    BY <1>2, <1>8, EmptySets DEF ExecFits
  <2>3. ExecFits(Append(executed, st), <<>>, 0, imPos + 1)
    BY <1>1, <2>2, ExecutedNow
  <2>4. Take(st).list = <<st>> /\ Take(st).values = <<>> /\ Take(st).count = 0
    BY <2>1 DEF Does
  <2>5. executed \o <<st>> = Append(executed, st)
    BY <1>3, <1>6
  <2>. QED BY <2>3, <2>4, <2>5
<1>9. CASE ~(imConf.engine /\ Kind(st) = "def") /\ imConf.bulk /\ ~(Insert(st) /\ Len(st) = 1)
  <2>1. Take(st) = Does(Append(Pending, st), <<>>, 0)
    BY <1>9 DEF Take
  <2>2. executed \o Append(Pending, st) = Append(flushed, st)
    BY <1>1, <1>3, <1>4 DEF Pending
  <2>3. AllFit(ToSet(st), ToSet(<<>>))
    BY EmptySets
  <2>4. ExecFits(Append(flushed, st), <<>>, 0, imPos + 1)
    BY <1>1, <1>5, <2>3, ExecutedNow
  <2>5. Take(st).list = Append(Pending, st) /\ Take(st).values = <<>> /\ Take(st).count = 0
    BY <2>1 DEF Does
  <2>. QED BY <2>2, <2>4, <2>5
<1>10. CASE ~(imConf.engine /\ Kind(st) = "def") /\ imConf.bulk /\ Insert(st) /\ Len(st) = 1
  <2>1. Take(st) = Merge(st) /\ AllRows(st) /\ st # <<>>
    BY <1>1, <1>10, OneInsert DEF Take
  <2>2. CASE bulkValues = <<>>
    <3>1. Merge(st) = Does(<<>>, st, bulkCount + 1) /\ bulkCount = 0
      BY <1>2, <2>2 DEF Merge, ExecFits
    <3>2. 1 \in 0..(MaxBulkInsert + 1) /\ ExecFits(executed, <<>>, 0, imPos)
      BY <1>2, <1>3, <2>2, <3>1
    <3>3. ExecFits(executed, st, 1, imPos + 1)
      BY <1>1, <1>10, <2>1, <3>2, KeptBack
    <3>. QED BY <1>3, <1>6, <2>1, <3>1, <3>3 DEF Does
  <2>3. ASSUME NEW count \in {0, 1}, Merge(st) = Does(Pending, st, count)
        PROVE  ExecFits(executed \o Take(st).list, Take(st).values, Take(st).count, imPos + 1)
    <3>1. count \in 0..(MaxBulkInsert + 1)
      BY <1>3
    <3>2. ExecFits(flushed, st, count, imPos + 1)
      BY <1>1, <1>5, <1>10, <2>1, <3>1, KeptBack
    <3>. QED BY <1>4, <2>1, <2>3, <3>2 DEF Does
  <2>4. CASE bulkValues # <<>> /\ SameInsert(st) /\ ~(bulkCount >= MaxBulkInsert)
    <3>1. Merge(st) = Does(<<>>, bulkValues \o st, bulkCount + 1)
      BY <2>4 DEF Merge
    <3>2. bulkCount + 1 \in 0..(MaxBulkInsert + 1)
      BY <1>3, <2>4
    <3>3. ExecFits(executed, bulkValues \o st, bulkCount + 1, imPos + 1)
      BY <1>1, <1>2, <1>10, <2>1, <3>2, JoinsValues
    <3>. QED BY <1>3, <1>6, <2>1, <3>1, <3>3 DEF Does
  <2>5. \/ bulkValues = <<>>
        \/ bulkValues # <<>> /\ SameInsert(st) /\ ~(bulkCount >= MaxBulkInsert)
        \/ Merge(st) = Does(Pending, st, 1) \/ Merge(st) = Does(Pending, st, 0)
    BY DEF Merge
  <2>. QED BY <2>2, <2>3, <2>4, <2>5
<1>. QED
  BY <1>7, <1>8, <1>9, <1>10

\* One statement, and the commit it brings.
LEMMA ExecStatementInv == ImInv /\ ExecStatement => ImInv'
<1>. SUFFICES ASSUME ImInv, ExecStatement PROVE ImInv'
  OBVIOUS
<1>1. PICK st : st = statements[imPos]
  OBVIOUS
<1>2. PICK list, values, count :
        list = executed \o Take(st).list /\ values = Take(st).values /\ count = Take(st).count
  OBVIOUS
<1>3. /\ imPhase = "exec" /\ imPhase' = "exec" /\ imPos <= Len(statements) /\ imPos' = imPos + 1
      /\ executed' = list /\ bulkValues' = values /\ bulkCount' = count
      /\ kept' = Len(list) \/ kept' = kept
      /\ imFile' = imFile /\ imConf' = imConf /\ definitions' = definitions
      /\ tableRows' = tableRows /\ statements' = statements
  BY <1>1, <1>2 DEF ExecStatement, imReader
<1>4. ImTypes /\ StatementsInv /\ ExecInv
  BY DEF ImInv
<1>5. imPos \in DOMAIN statements /\ imPos \in Nat \ {0}
  BY <1>3, <1>4 DEF ImTypes
<1>6. ExecFits(list, values, count, imPos + 1)
  BY <1>1, <1>2, <1>3, <1>4, <1>5, TakeFits
<1>7. kept' \in 0..Len(list)
  <2>1. Take(st).list \in Seq(Seq(Positions))
    <3>1. st \in Seq(Positions) /\ Pending \in Seq(Seq(Positions))
      BY <1>1, <1>4, <1>5 DEF ImTypes, Pending
    <3>2. /\ <<st>> \in Seq(Seq(Positions)) /\ <<>> \in Seq(Seq(Positions))
          /\ Append(Pending, st) \in Seq(Seq(Positions))
      BY <3>1
    <3>. QED BY <3>1, <3>2 DEF Take, Merge, Does
  <2>2. Len(list) = Len(executed) + Len(Take(st).list) /\ Len(executed) \in Nat
        /\ Len(Take(st).list) \in Nat
    BY <1>2, <1>4, <2>1, Concat DEF ImTypes
  <2>3. kept \in 0..Len(executed)
    BY <1>4 DEF ImTypes
  <2>. QED BY <1>3, <2>2, <2>3
<1>8. ImTypes'
  <2>1. list \in Seq(Seq(Positions)) /\ values \in Seq(Positions) /\ count \in 0..(MaxBulkInsert + 1)
    BY <1>6 DEF ExecFits
  <2>. QED BY <1>3, <1>4, <1>5, <1>7, <2>1, SameFile DEF ImTypes
<1>9. Ordered(executed)' /\ ReaderInv' /\ DoneInv'
  <2>1. Ordered(list)
    BY <1>6 DEF ExecFits
  <2>2. Ordered(list)'
    BY <1>3, <2>1, SameFile
  <2>. QED BY <1>3, <2>2 DEF ReaderInv, DoneInv
<1>10. StatementsInv'
  <2>1. PICK all : all = statements /\ all = statements'
    BY <1>3
  <2>2. Ordered(all) /\ Shaped(all) /\ (Complete => RowsOf(all) = {p \in Positions : Wanted(p)})
    BY <1>3, <1>4, <2>1 DEF StatementsInv
  <2>. QED BY <1>3, <2>1, <2>2, SameFile DEF StatementsInv
<1>11. ExecInv'
  <2>1. PICK n : n = imPos' /\ n = imPos + 1
    BY <1>3
  <2>2. RowsBefore(n)' = RowsBefore(n)
    BY <1>3 DEF RowsBefore
  <2>3. ExecFits(list, values, count, n)
    BY <1>6, <2>1
  <2>4. ExecFits(list, values, count, n)'
    <3>. HIDE <1>6
    <3>. QED BY <1>3, <2>2, <2>3, SameFile DEF ExecFits
  <2>. QED BY <1>3, <2>1, <2>4 DEF ExecInv
<1>. QED
  BY <1>8, <1>9, <1>10, <1>11 DEF ImInv

\* The end of the import.
LEMMA ExecEndInv == ImInv /\ ExecEnd => ImInv'
<1>. SUFFICES ASSUME ImInv, ExecEnd PROVE ImInv'
  OBVIOUS
<1>1. PICK list : list = executed \o Pending
  OBVIOUS
<1>2. /\ imPhase = "exec" /\ imPos > Len(statements) /\ imPhase' = "done" /\ imPos' = imPos
      /\ executed' = list /\ bulkValues' = <<>> /\ bulkCount' = bulkCount /\ kept' = Len(list)
      /\ imFile' = imFile /\ imConf' = imConf /\ definitions' = definitions
      /\ tableRows' = tableRows /\ statements' = statements
  BY <1>1 DEF ExecEnd, imReader
<1>3. ImTypes /\ StatementsInv /\ ExecFits(executed, bulkValues, bulkCount, imPos)
  BY <1>2 DEF ImInv, ExecInv
<1>4. ExecFits(list, <<>>, 0, imPos) /\ list \in Seq(Seq(Positions))
  BY <1>1, <1>3, PendingExecuted
<1>5. RowsOf(list) = RowsOf(statements)
  <2>1. DOMAIN statements = 1..Len(statements) /\ Len(statements) \in Nat /\ imPos \in Nat
    BY <1>3 DEF ImTypes
  <2>2. \A i \in DOMAIN statements : i < imPos
    BY <1>2, <2>1
  <2>3. \A x : x \in RowsBefore(imPos) <=> x \in RowsOf(statements)
    BY <2>2, InRows, InRowsBefore
  <2>4. RowsOf(list) = RowsBefore(imPos)
    BY <1>4, EmptySets DEF ExecFits
  <2>. QED BY <2>3, <2>4
<1>6. ImTypes'
  <2>1. Len(list) \in 0..Len(list)
    BY <1>4
  <2>. QED BY <1>2, <1>3, <1>4, <2>1, SameFile, EmptySets DEF ImTypes
<1>7. Ordered(executed)' /\ ReaderInv' /\ ExecInv' /\ DoneInv'
  <2>1. Ordered(list)
    BY <1>4 DEF ExecFits
  <2>2. Ordered(list)'
    BY <1>2, <2>1, SameFile
  <2>. QED BY <1>2, <1>5, <2>2 DEF ReaderInv, ExecInv, DoneInv
<1>8. StatementsInv'
  <2>1. PICK all : all = statements /\ all = statements'
    BY <1>2
  <2>2. Ordered(all) /\ Shaped(all) /\ (Complete => RowsOf(all) = {p \in Positions : Wanted(p)})
    BY <1>2, <1>3, <2>1 DEF StatementsInv
  <2>. QED BY <1>2, <2>1, <2>2, SameFile DEF StatementsInv
<1>. QED
  BY <1>6, <1>7, <1>8 DEF ImInv

\* What is left of the statements when the connection rolls back is their beginning.
LEMMA ExecFailsInv == ImInv /\ ExecFails => ImInv'
<1>. SUFFICES ASSUME ImInv, ExecFails PROVE ImInv'
  OBVIOUS
<1>1. PICK list : list = SubSeq(executed, 1, kept)
  OBVIOUS
<1>2. /\ imPhase' = "error" /\ executed' = list /\ kept' = kept /\ imPos' = imPos
      /\ imFile' = imFile /\ imConf' = imConf /\ bulkValues' = bulkValues /\ bulkCount' = bulkCount
      /\ definitions' = definitions /\ tableRows' = tableRows /\ statements' = statements
  BY <1>1 DEF ExecFails, imReader
<1>3. ImTypes /\ Ordered(executed) /\ executed \in Seq(Seq(Positions)) /\ kept \in 0..Len(executed)
  BY DEF ImInv, ImTypes
<1>4. /\ list \in Seq(Seq(Positions)) /\ Len(list) = kept /\ DOMAIN list = 1..kept
      /\ DOMAIN executed = 1..Len(executed) /\ Len(executed) \in Nat
      /\ \A i \in 1..kept : list[i] = executed[i]
  BY <1>1, <1>3
<1>5. Ordered(list)
  <2>1. 1..kept \subseteq DOMAIN executed
    BY <1>3, <1>4
  <2>. QED BY <1>3, <1>4, <2>1 DEF Ordered
<1>6. ImTypes'
  <2>1. kept \in 0..Len(list)
    BY <1>3, <1>4
  <2>. QED BY <1>2, <1>3, <1>4, <2>1, SameFile DEF ImTypes
<1>7. Ordered(executed)'
  <2>1. Ordered(list)'
    BY <1>2, <1>5, SameFile
  <2>. QED BY <1>2, <2>1
<1>8. ReaderInv' /\ StatementsInv' /\ ExecInv' /\ DoneInv'
  BY <1>2 DEF ReaderInv, StatementsInv, ExecInv, DoneInv
<1>. QED
  BY <1>6, <1>7, <1>8 DEF ImInv

\* At first nothing has been read.
LEMMA ImInitInv == ImInit => ImInv
<1>. SUFFICES ASSUME ImInit PROVE ImInv
  OBVIOUS
<1>. USE DEF ImInit
<1>1. ImTypes
  BY ImAssumption, EmptySets DEF ImTypes
<1>2. \A p \in Positions : ~(p < 1)
  BY <1>1, ImFileFacts
<1>3. RowsOf(<<>>) \cup ToSet(<<>>) = {p \in Positions : p < 1 /\ Wanted(p)}
  BY <1>2, EmptySets
<1>4. ReaderFits(<<>>, <<>>, <<>>, 1)
  BY <1>3, EmptySets DEF ReaderFits
<1>5. Ordered(executed) /\ ReaderInv /\ StatementsInv /\ ExecInv /\ DoneInv
  BY <1>4, EmptySets DEF ReaderInv, StatementsInv, ExecInv, DoneInv
<1>. QED
  BY <1>1, <1>5 DEF ImInv

\* Nothing happens.
LEMMA ImStutter == ImInv /\ UNCHANGED imVars => ImInv'
<1>. SUFFICES ASSUME ImInv, UNCHANGED imVars PROVE ImInv'
  OBVIOUS
<1>1. PICK e, b, c, d, r, l, n : /\ e = executed /\ b = bulkValues /\ c = bulkCount
        /\ d = definitions /\ r = tableRows /\ l = statements /\ n = imPos
  OBVIOUS
<1>2. /\ e = executed' /\ b = bulkValues' /\ c = bulkCount' /\ kept' = kept
      /\ d = definitions' /\ r = tableRows' /\ l = statements' /\ n = imPos'
      /\ imFile' = imFile /\ imConf' = imConf /\ imPhase' = imPhase
  BY <1>1 DEF imVars, imReader, imExec
<1>3. RowsBefore(n)' = RowsBefore(n)
  BY <1>1, <1>2 DEF RowsBefore
<1>4. ImTypes'
  BY <1>1, <1>2, SameFile DEF ImInv, ImTypes
<1>5. Ordered(executed)'
  BY <1>1, <1>2, SameFile DEF ImInv
<1>6. ReaderInv'
  BY <1>1, <1>2, ReaderKept DEF ImInv, ReaderInv
<1>7. StatementsInv'
  BY <1>1, <1>2, SameFile DEF ImInv, StatementsInv
<1>8. ExecInv'
  <2>1. ExecFits(e, b, c, n) => ExecFits(e, b, c, n)'
    BY <1>2, <1>3, SameFile DEF ExecFits
  <2>. QED BY <1>1, <1>2, <2>1 DEF ImInv, ExecInv
<1>9. DoneInv'
  BY <1>1, <1>2 DEF ImInv, DoneInv
<1>. QED
  BY <1>4, <1>5, <1>6, <1>7, <1>8, <1>9 DEF ImInv

----------------------------------------------------------------------------
\* Every action of the import keeps the invariant.
THEOREM ImInvariance == ImSpec => []ImInv
<1>1. ImInv /\ [ImNext]_imVars => ImInv'
  BY ReadReplicationCommandInv, ReadBasicCommandInv, ReadDefinitionInv, ReadDataInv, ReadEndInv,
     ExecStatementInv, ExecEndInv, ExecFailsInv, ImStutter DEF ImNext
<1>. QED
  BY <1>1, ImInitInv, PTL DEF ImSpec

\* The variables of import_file and _exec_statements keep their types; the count of
\* merged INSERTs goes no further than one beyond --max-bulk-insert.
THEOREM ImTypeCorrect == ImSpec => []ImTypeOK
<1>1. ImInv => ImTypeOK
  BY DEF ImInv, ImTypes, ImTypeOK
<1>. QED
  BY <1>1, ImInvariance, PTL

\* _exec_statements executes the lines of the file in their order, each once, whatever
\* is merged and wherever the import fails; an import of SQL, or without --bulk-insert,
\* executes all that --import wants.
THEOREM ImportKeepsOrder == ImSpec => []ImportedInOrder
<1>1. ImInv => ImportedInOrder
  BY DEF ImInv, DoneInv, StatementsInv, ImportedInOrder, Complete
<1>. QED
  BY <1>1, ImInvariance, PTL
=============================================================================
