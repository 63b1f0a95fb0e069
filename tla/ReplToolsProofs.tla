---------------------------- MODULE ReplToolsProofs ----------------------------
(***************************************************************************)
(* The tools that watch replication or keep it going, and what is proved of  *)
(* them for every value of the constants.                                    *)
(*                                                                           *)
(*   1. mysqlrplsync, for any number of slaves, transactions and tables, for *)
(*      every error of a call and every timeout: no difference is reported   *)
(*      of data that is the same, and nothing is left locked or stopped.     *)
(*   2. The union of GTID sets that the point of a run without a master is   *)
(*      made of.                                                             *)
(*   3. mysqlrplms: with GTIDs what the slave has executed of a master has   *)
(*      no gap, however often it leaves one.                                 *)
(*   4. mysqlslavetrx: what it has still to inject makes up for what a slave *)
(*      misses; the search for errant transactions, which asks the slaves    *)
(*      one after another, finds some until then and none of them after.     *)
(*   5. The types of all of them, run one at a time.                         *)
(***************************************************************************)
EXTENDS MCReplTools, TLAPS, WellFoundedInduction

\* Which phases a run goes through, and who is waited for in each.
PlaceInv ==
  /\ active \subseteq checked /\ pool \subseteq checked
  /\ phase = "start" => active = {} /\ pool = {} /\ ~raised
  /\ phase \in {"hold", "stop", "until"} => pool \subseteq active
  /\ phase \in {"split", "lock", "point", "sum", "unlock", "waiting", "compare", "done"}
       => ~raised
  /\ phase = "hold" => ~conf.master
  /\ phase \in {"lock", "sum", "unlock"} => conf.master
  /\ phase \in {"point", "stop", "until", "sum", "unlock"} => locked = conf.master
  /\ phase = "failed" /\ locked => raised
  /\ locked => phase \in {"point", "stop", "until", "sum", "unlock", "failed"}
  /\ phase = "point" /\ ~conf.master => active # {}
  /\ phase \in {"compare", "done"} => pool = {}

\* Only the data of a slave that has strayed stops its SQL thread.
WorldInv ==
  \A s \in SyncSet :
    /\ applied[s] <= committed
    /\ broken[s] => s \in conf.strayed

\* Whom the tool has stopped, and whom it has started again.
ThreadInv ==
  /\ phase = "hold" /\ ~raised => \A s \in active \ pool : sqlThread[s] = "off"
  /\ phase \in {"point", "stop"} /\ ~conf.master => \A s \in active : sqlThread[s] = "off"
  /\ phase = "stop" /\ ~raised => \A s \in active \ pool : sqlThread[s] = "off"
  /\ phase = "until" => \A s \in pool : sqlThread[s] = "off"
  /\ phase \in {"waiting", "compare", "done"} =>
       \A s \in active \ pool : ~broken[s] => sqlThread[s] = "on"

\* While the table is locked, the point is all that was written to it; without
\* a master nobody who is held is beyond the point.
PointInv ==
  phase \in {"stop", "until", "sum", "unlock"} /\ point # Nothing =>
    IF conf.master THEN point.own = {} /\ TableAt(point.upto) = TableAt(committed)
    ELSE \A s \in active : phase = "stop" \/ s \in pool => applied[s] <= point.upto

\* A slave that was sent to the point runs until it is there, and there it has
\* the table as of the point.
AtPoint(s) ==
  IF point = Nothing THEN sqlThread[s] = "on"
  ELSE \/ sqlThread[s] = "until" /\ ~Reached(s)
       \/ sqlThread[s] = "off" /\ Reached(s) /\ TableAt(applied[s]) = TableAt(point.upto)

IsSent(s) ==
  \/ phase = "until" /\ ~raised /\ s \notin pool
  \/ phase \in {"sum", "unlock"}
  \/ phase = "waiting" /\ s \in pool
SyncedInv == \A s \in active \ conf.strayed : IsSent(s) => AtPoint(s)

\* Every checksum of a slave that was synchronized, and the master's, is of
\* the table as of the point.
DataAtPoint == [rows |-> TableAt(point.upto), stray |-> FALSE]
SumInv ==
  /\ phase \in {"unlock", "waiting", "compare"} /\ conf.master /\ point # Nothing =>
       base \in {Nothing, DataAtPoint}
  /\ phase \in {"lock", "hold", "point", "stop", "until", "sum", "unlock"} =>
       \A s \in SyncSet : sums[s] = Nothing
  /\ phase \in {"waiting", "compare"} =>
       \A s \in active \ conf.strayed :
         /\ phase = "waiting" /\ s \in pool => sums[s] = Nothing
         /\ sums[s] = Nothing \/ (point # Nothing /\ sums[s] = DataAtPoint)

CheckInv == PlaceInv /\ WorldInv /\ ThreadInv
SyncInv == PointInv /\ SyncedInv /\ SumInv

----------------------------------------------------------------------------
\* The slave that has applied most.
LEMMA LatestExists ==
  ASSUME SyncTypeOK, active # {}
  PROVE  \E n \in 0..MaxTrx : /\ \E s \in active : applied[s] = n
                              /\ \A s \in active : applied[s] <= n
<1>. DEFINE R == OpToRel(<, Nat)
            T == {n \in Nat : \E s \in active : n = MaxTrx - applied[s]}
<1>1. \A m, n \in Nat : m < n => <<m, n>> \in R
  BY DEF OpToRel
<1>2. \A s \in active : applied[s] \in 0..MaxTrx /\ MaxTrx - applied[s] \in T
  BY SyncAssumption DEF SyncTypeOK
<1>3. T \subseteq Nat /\ T # {}
  BY <1>2
<1>. HIDE DEF R, T
<1>4. IsWellFoundedOn(R, Nat)
  BY NatLessThanWellFounded DEF R
<1>5. \E n \in T : \A m \in T : ~(<<m, n>> \in R)
  BY <1>3, <1>4, WFMin
<1>6. PICK n \in T : \A m \in T : n <= m
  <2>1. PICK n \in T : \A m \in T : ~(<<m, n>> \in R)
    BY <1>5
  <2>2. \A m \in T : m \in Nat /\ n \in Nat /\ ~(m < n)
    BY <1>1, <1>3, <2>1
  <2>. QED
    BY <2>1, <2>2
<1>7. PICK s \in active : n = MaxTrx - applied[s]
  BY <1>6 DEF T
<1>8. \A r \in active : applied[r] <= applied[s]
  BY <1>2, <1>6, <1>7, SyncAssumption
<1>. QED
  BY <1>2, <1>7, <1>8

\* Without a master the point is what the slave that has applied most has.
LEMMA PointOfSlaves ==
  ASSUME SyncTypeOK, PlaceInv, ComputePoint, ~conf.master
  PROVE  \E n \in 0..MaxTrx :
           /\ point' = [upto |-> n, own |-> active \cap conf.strayed]
           /\ \A s \in active : applied[s] <= n
<1>. DEFINE P(n) == /\ \E s \in active : applied[s] = n
                    /\ \A s \in active : applied[s] <= n
            last == CHOOSE n \in 0..MaxTrx : P(n)
<1>1. active # {}
  BY DEF ComputePoint, PlaceInv
<1>2. \E n \in 0..MaxTrx : P(n)
  BY <1>1, LatestExists
<1>3. last \in 0..MaxTrx /\ P(last)
  BY <1>2
<1>4. point' = [upto |-> last, own |-> active \cap conf.strayed]
  BY DEF ComputePoint
<1>. QED
  BY <1>3, <1>4

\* The last step of a pool, and every other.
LEMMA EndsFacts ==
  ASSUME NEW s \in SyncSet, NEW next \in Phases, SyncTypeOK, raised' \in BOOLEAN,
         Ends(s, next)
  PROVE  /\ phase' \in Phases /\ pool' \subseteq SyncSet
         /\ pool' \subseteq pool /\ s \notin pool'
         /\ phase' = phase \/ (phase' = "failed" /\ raised') \/ (phase' = next /\ ~raised')
         /\ phase' = next /\ next # phase => pool \subseteq {s} /\ pool' = {}
BY DEF Ends, SyncTypeOK, Phases

LEMMA TableFacts ==
  /\ \A n : TableAt(n) \subseteq TableTrx
  /\ \A n \in Nat : n + 1 \notin TableTrx => TableAt(n + 1) = TableAt(n)
  /\ \A m, n, k \in Nat : m <= n /\ n <= k /\ TableAt(m) = TableAt(k) => TableAt(n) = TableAt(m)
<1>1. \A n : TableAt(n) \subseteq TableTrx
  BY DEF TableAt
<1>2. \A n \in Nat : n + 1 \notin TableTrx => TableAt(n + 1) = TableAt(n)
  BY DEF TableAt
<1>3. \A m, n \in Nat : m <= n => TableAt(m) \subseteq TableAt(n)
  BY DEF TableAt
<1>4. ASSUME NEW m \in Nat, NEW n \in Nat, NEW k \in Nat, m <= n, n <= k, TableAt(m) = TableAt(k)
      PROVE  TableAt(n) = TableAt(m)
  BY <1>3, <1>4
<1>. QED
  BY <1>1, <1>2, <1>4

\* What a checksum may be computed from.
LEMMA DataFacts ==
  /\ MasterData \in [rows : SUBSET TableTrx, stray : BOOLEAN]
  /\ \A s : SlaveData(s) \in [rows : SUBSET TableTrx, stray : BOOLEAN]
<1>1. \A n : TableAt(n) \in SUBSET TableTrx
  BY DEF TableAt
<1>2. ASSUME NEW rows \in SUBSET TableTrx, NEW stray \in BOOLEAN
      PROVE  [rows |-> rows, stray |-> stray] \in [rows : SUBSET TableTrx, stray : BOOLEAN]
  OBVIOUS
<1>3. MasterData \in [rows : SUBSET TableTrx, stray : BOOLEAN]
  BY <1>1, <1>2 DEF MasterData
<1>4. ASSUME NEW s
      PROVE  SlaveData(s) \in [rows : SUBSET TableTrx, stray : BOOLEAN]
  <2>1. (s \in conf.strayed) \in BOOLEAN
    OBVIOUS
  <2>. QED
    BY <1>1, <1>2, <2>1, Zenon DEF SlaveData
<1>. QED
  BY <1>3, <1>4

LEMMA SyncInitially == SyncInit => SyncTypeOK /\ CheckInv /\ SyncInv
<1>. SUFFICES ASSUME SyncInit PROVE SyncTypeOK /\ CheckInv /\ SyncInv
  OBVIOUS
<1>1. SyncTypeOK
  <2>1. committed \in 0..MaxTrx /\ checks \in 0..MaxChecks /\ applied \in [SyncSet -> 0..MaxTrx]
    BY SyncAssumption DEF SyncInit
  <2>2. sqlThread \in [SyncSet -> {"on", "off", "until"}]
    BY DEF SyncInit
  <2>3. /\ broken \in [SyncSet -> BOOLEAN] /\ ticks \in [SyncSet -> 0..RplTimeout]
        /\ base = Nothing /\ sums \in [SyncSet -> {Nothing}]
    BY SyncAssumption DEF SyncInit
  <2>4. /\ phase \in Phases /\ conf \in SyncConfs /\ checked \subseteq SyncSet
        /\ pool \subseteq SyncSet /\ active \subseteq SyncSet /\ point \in Points
        /\ {locked, raised} \subseteq BOOLEAN
    BY DEF SyncInit, Phases, Points
  <2>. QED
    BY <2>1, <2>2, <2>3, <2>4 DEF SyncTypeOK
<1>2. CheckInv
  BY DEF SyncInit, CheckInv, PlaceInv, WorldInv, ThreadInv
<1>3. SyncInv
  BY DEF SyncInit, SyncInv, PointInv, SyncedInv, IsSent, SumInv
<1>. QED
  BY <1>1, <1>2, <1>3

----------------------------------------------------------------------------
\* Types: a run without a master takes its point from the slave that has
\* applied most, and there is one because someone is active.
LEMMA TypeKept == SyncTypeOK /\ PlaceInv /\ [SyncNext]_syncVars => SyncTypeOK'
<1>. SUFFICES ASSUME SyncTypeOK, PlaceInv, [SyncNext]_syncVars PROVE SyncTypeOK'
  OBVIOUS
<1>. USE SyncAssumption DEF SyncTypeOK
<1>1. CASE CheckGtids
  BY <1>1 DEF CheckGtids, syncWorld, Phases
<1>2. CASE SplitActive
  BY <1>2 DEF SplitActive, ClearRound, syncWorld, Phases, Points
<1>3. CASE LockTable
  BY <1>3 DEF LockTable, syncWorld, Phases
<1>4. CASE ComputePoint
  <2>1. point' \in Points
    <3>1. CASE conf.master
      BY <1>4, <3>1 DEF ComputePoint, Points
    <3>2. CASE ~conf.master
      BY <1>4, <3>2, PointOfSlaves DEF Points
    <3>. QED
      BY <3>1, <3>2
  <2>. QED
    BY <1>4, <2>1 DEF ComputePoint, syncWorld, Phases
<1>5. CASE SumMaster
  BY <1>5, DataFacts DEF SumMaster, syncWorld, Phases
<1>6. CASE UnlockTable
  BY <1>6 DEF UnlockTable, syncWorld, Phases
<1>7. CASE Compare
  BY <1>7 DEF Compare, syncWorld, Phases
<1>8. ASSUME NEW s \in SyncSet, SyncCall(s)
      PROVE  SyncTypeOK'
  <2>1. CASE HoldSlave(s)
    BY <2>1, EndsFacts DEF HoldSlave, Phases
  <2>2. CASE StopForSync(s)
    BY <2>2, EndsFacts DEF StopForSync, Phases
  <2>3. CASE StartUntil(s)
    BY <2>3, EndsFacts DEF StartUntil, Phases
  <2>4. CASE SumInactive(s)
    BY <2>4, EndsFacts, DataFacts DEF SumInactive, syncWorld, Phases
  <2>5. CASE Poll(s)
    BY <2>5 DEF Poll, syncWorld
  <2>6. CASE SumAndStart(s)
    BY <2>6, EndsFacts, DataFacts DEF SumAndStart, Phases
  <2>. QED
    BY <1>8, <2>1, <2>2, <2>3, <2>4, <2>5, <2>6 DEF SyncCall
<1>9. CASE CommitOnMaster
  BY <1>9 DEF CommitOnMaster
<1>10. ASSUME NEW s \in SyncSet, ApplyNext(s)
       PROVE  SyncTypeOK'
  BY <1>10 DEF ApplyNext
<1>11. ASSUME NEW s \in SyncSet, StopOnError(s)
       PROVE  SyncTypeOK'
  BY <1>11 DEF StopOnError
<1>12. CASE UNCHANGED syncVars
  BY <1>12 DEF syncVars, syncWorld
<1>. QED
  BY <1>1, <1>2, <1>3, <1>4, <1>5, <1>6, <1>7, <1>8, <1>9, <1>10, <1>11, <1>12
     DEF SyncNext, SyncStep, SyncServers

----------------------------------------------------------------------------
\* What one step does to the phases, the threads and the servers.
\* A call that raises leads to "failed", where only the lock may still be held.
LEMMA PlaceKept == SyncTypeOK /\ PlaceInv /\ SyncTypeOK' /\ [SyncNext]_syncVars => PlaceInv'
<1>. SUFFICES ASSUME SyncTypeOK, PlaceInv, SyncTypeOK', [SyncNext]_syncVars PROVE PlaceInv'
  OBVIOUS
<1>. USE SyncAssumption DEF SyncTypeOK, PlaceInv
<1>1. CASE CheckGtids
  BY <1>1 DEF CheckGtids, syncWorld
<1>2. CASE SplitActive
  BY <1>2 DEF SplitActive, ClearRound, syncWorld
<1>3. CASE LockTable
  BY <1>3 DEF LockTable, syncWorld
<1>4. CASE ComputePoint
  BY <1>4 DEF ComputePoint, syncWorld
<1>5. CASE SumMaster
  BY <1>5 DEF SumMaster, syncWorld
<1>6. CASE UnlockTable
  BY <1>6 DEF UnlockTable, syncWorld
<1>7. CASE Compare
  BY <1>7 DEF Compare, syncWorld
<1>8. ASSUME NEW s \in SyncSet, SyncCall(s)
      PROVE  PlaceInv'
  <2>1. CASE HoldSlave(s)
    BY <2>1 DEF HoldSlave, Ends, syncWorld
  <2>2. CASE StopForSync(s)
    BY <2>2 DEF StopForSync, Ends, syncWorld
  <2>3. CASE StartUntil(s)
    BY <2>3 DEF StartUntil, Ends, syncWorld
  <2>4. CASE SumInactive(s)
    BY <2>4 DEF SumInactive, Ends, syncWorld
  <2>5. CASE Poll(s)
    BY <2>5 DEF Poll, syncWorld
  <2>6. CASE SumAndStart(s)
    BY <2>6 DEF SumAndStart, Ends, syncWorld
  <2>. QED
    BY <1>8, <2>1, <2>2, <2>3, <2>4, <2>5, <2>6 DEF SyncCall
<1>9. CASE CommitOnMaster
  BY <1>9 DEF CommitOnMaster, syncWorld
<1>10. ASSUME NEW s \in SyncSet, ApplyNext(s)
       PROVE  PlaceInv'
  BY <1>10 DEF ApplyNext, syncWorld
<1>11. ASSUME NEW s \in SyncSet, StopOnError(s)
       PROVE  PlaceInv'
  BY <1>11 DEF StopOnError, syncWorld
<1>12. CASE UNCHANGED syncVars
  BY <1>12 DEF syncVars, syncWorld
<1>. QED
  BY <1>1, <1>2, <1>3, <1>4, <1>5, <1>6, <1>7, <1>8, <1>9, <1>10, <1>11, <1>12
     DEF SyncNext, SyncStep, SyncServers

\* A slave applies only what the master has committed.
LEMMA WorldKept == SyncTypeOK /\ WorldInv /\ SyncTypeOK' /\ [SyncNext]_syncVars => WorldInv'
<1>. SUFFICES ASSUME SyncTypeOK, WorldInv, SyncTypeOK', [SyncNext]_syncVars PROVE WorldInv'
  OBVIOUS
<1>. USE SyncAssumption DEF SyncTypeOK, WorldInv
<1>1. CASE CheckGtids
  BY <1>1 DEF CheckGtids, syncWorld
<1>2. CASE SplitActive
  BY <1>2 DEF SplitActive, ClearRound, syncWorld
<1>3. CASE LockTable
  BY <1>3 DEF LockTable, syncWorld
<1>4. CASE ComputePoint
  BY <1>4 DEF ComputePoint, syncWorld
<1>5. CASE SumMaster
  BY <1>5 DEF SumMaster, syncWorld
<1>6. CASE UnlockTable
  BY <1>6 DEF UnlockTable, syncWorld
<1>7. CASE Compare
  BY <1>7 DEF Compare, syncWorld
<1>8. ASSUME NEW s \in SyncSet, SyncCall(s)
      PROVE  WorldInv'
  <2>1. CASE HoldSlave(s)
    BY <2>1 DEF HoldSlave, Ends, syncWorld
  <2>2. CASE StopForSync(s)
    BY <2>2 DEF StopForSync, Ends, syncWorld
  <2>3. CASE StartUntil(s)
    BY <2>3 DEF StartUntil, Ends, syncWorld
  <2>4. CASE SumInactive(s)
    BY <2>4 DEF SumInactive, Ends, syncWorld
  <2>5. CASE Poll(s)
    BY <2>5 DEF Poll, syncWorld
  <2>6. CASE SumAndStart(s)
    BY <2>6 DEF SumAndStart, Ends, syncWorld
  <2>. QED
    BY <1>8, <2>1, <2>2, <2>3, <2>4, <2>5, <2>6 DEF SyncCall
<1>9. CASE CommitOnMaster
  BY <1>9 DEF CommitOnMaster, syncWorld
<1>10. ASSUME NEW s \in SyncSet, ApplyNext(s)
       PROVE  WorldInv'
  BY <1>10 DEF ApplyNext, syncWorld
<1>11. ASSUME NEW s \in SyncSet, StopOnError(s)
       PROVE  WorldInv'
  BY <1>11 DEF StopOnError, syncWorld
<1>12. CASE UNCHANGED syncVars
  BY <1>12 DEF syncVars, syncWorld
<1>. QED
  BY <1>1, <1>2, <1>3, <1>4, <1>5, <1>6, <1>7, <1>8, <1>9, <1>10, <1>11, <1>12
     DEF SyncNext, SyncStep, SyncServers

\* Each pool holds or starts all its slaves before the next one begins.
LEMMA ThreadKept == SyncTypeOK /\ PlaceInv /\ WorldInv /\ ThreadInv /\ SyncTypeOK' /\ [SyncNext]_syncVars => ThreadInv'
<1>. SUFFICES ASSUME SyncTypeOK, PlaceInv, WorldInv, ThreadInv, SyncTypeOK', [SyncNext]_syncVars PROVE ThreadInv'
  OBVIOUS
<1>. USE SyncAssumption DEF SyncTypeOK, PlaceInv, WorldInv, ThreadInv
<1>1. CASE CheckGtids
  BY <1>1 DEF CheckGtids, syncWorld
<1>2. CASE SplitActive
  BY <1>2 DEF SplitActive, ClearRound, syncWorld
<1>3. CASE LockTable
  BY <1>3 DEF LockTable, syncWorld
<1>4. CASE ComputePoint
  BY <1>4 DEF ComputePoint, syncWorld
<1>5. CASE SumMaster
  BY <1>5 DEF SumMaster, syncWorld
<1>6. CASE UnlockTable
  BY <1>6 DEF UnlockTable, syncWorld
<1>7. CASE Compare
  BY <1>7 DEF Compare, syncWorld
<1>8. ASSUME NEW s \in SyncSet, SyncCall(s)
      PROVE  ThreadInv'
  <2>1. CASE HoldSlave(s)
    BY <2>1 DEF HoldSlave, Ends, syncWorld
  <2>2. CASE StopForSync(s)
    BY <2>2 DEF StopForSync, Ends, syncWorld
  <2>3. CASE StartUntil(s)
    BY <2>3 DEF StartUntil, Ends, syncWorld
  <2>4. CASE SumInactive(s)
    BY <2>4 DEF SumInactive, Ends, syncWorld
  <2>5. CASE Poll(s)
    BY <2>5 DEF Poll, syncWorld
  <2>6. CASE SumAndStart(s)
    BY <2>6 DEF SumAndStart, Ends, syncWorld
  <2>. QED
    BY <1>8, <2>1, <2>2, <2>3, <2>4, <2>5, <2>6 DEF SyncCall
<1>9. CASE CommitOnMaster
  BY <1>9 DEF CommitOnMaster, syncWorld
<1>10. ASSUME NEW s \in SyncSet, ApplyNext(s)
       PROVE  ThreadInv'
  BY <1>10 DEF ApplyNext, syncWorld
<1>11. ASSUME NEW s \in SyncSet, StopOnError(s)
       PROVE  ThreadInv'
  BY <1>11 DEF StopOnError, syncWorld
<1>12. CASE UNCHANGED syncVars
  BY <1>12 DEF syncVars, syncWorld
<1>. QED
  BY <1>1, <1>2, <1>3, <1>4, <1>5, <1>6, <1>7, <1>8, <1>9, <1>10, <1>11, <1>12
     DEF SyncNext, SyncStep, SyncServers

----------------------------------------------------------------------------
\* The table stays as it was at the point while a slave runs to it, and the
\* slave has that table when it stops there.
LEMMA AtPointKept ==
  ASSUME SyncTypeOK, WorldInv, NEW r \in active \ conf.strayed, AtPoint(r),
         NEW s \in SyncSet, ApplyNext(s) \/ StopOnError(s)
  PROVE  AtPoint(r)'
<1>. USE SyncAssumption DEF SyncTypeOK
<1>1. CASE s # r
  <2>1. UNCHANGED <<sqlThread[r], applied[r], point, conf>>
    BY <1>1 DEF ApplyNext, StopOnError
  <2>2. Reached(r)' <=> Reached(r)
    BY <2>1 DEF Reached
  <2>. QED
    BY <2>1, <2>2 DEF AtPoint, TableAt
<1>2. CASE s = r /\ StopOnError(s)
  BY <1>2 DEF StopOnError
<1>3. CASE s = r /\ ApplyNext(s) /\ point = Nothing
  BY <1>3 DEF ApplyNext, AtPoint
<1>4. CASE s = r /\ ApplyNext(s) /\ point # Nothing
  <2>1. /\ sqlThread[r] = "until" /\ ~Reached(r) /\ applied'[r] = applied[r] + 1
        /\ point' = point /\ point.upto \in 0..MaxTrx
        /\ sqlThread'[r] = IF applied[r] + 1 >= point.upto /\ point.own \subseteq {r}
                             THEN "off" ELSE "until"
    BY <1>4 DEF ApplyNext, AtPoint, Points
  <2>2. CASE applied[r] + 1 >= point.upto /\ point.own \subseteq {r}
    <3>1. applied'[r] = point.upto
      BY <1>4, <2>1, <2>2 DEF Reached
    <3>2. Reached(r)' /\ TableAt(applied'[r]) = TableAt(point'.upto)
      BY <1>4, <2>1, <2>2, <3>1 DEF Reached
    <3>. QED
      BY <1>4, <2>1, <2>2, <3>2 DEF AtPoint, TableAt
  <2>3. CASE ~(applied[r] + 1 >= point.upto /\ point.own \subseteq {r})
    BY <1>4, <2>1, <2>3 DEF AtPoint, Reached
  <2>. QED
    BY <2>2, <2>3
<1>. QED
  BY <1>1, <1>2, <1>3, <1>4

\* A slave that START SLAVE UNTIL is sent to: it is not beyond the point, or
\* the table has not changed since.
LEMMA SentToPoint ==
  ASSUME SyncTypeOK, CheckInv, PointInv, NEW s \in SyncSet, StartUntil(s), ~raised',
         s \notin conf.strayed
  PROVE  AtPoint(s)'
<1>. USE SyncAssumption DEF SyncTypeOK
<1>1. /\ phase = "until" /\ s \in pool /\ s \in active /\ sqlThread[s] = "off"
      /\ applied[s] <= committed
      /\ UNCHANGED <<point, applied, committed, conf>>
      /\ sqlThread'[s] = IF point = Nothing THEN "on" ELSE IF Reached(s) THEN "off" ELSE "until"
  BY DEF StartUntil, CheckInv, PlaceInv, ThreadInv, WorldInv
<1>2. Reached(s)' <=> Reached(s)
  BY <1>1 DEF Reached
<1>3. CASE point = Nothing \/ ~Reached(s)
  BY <1>1, <1>2, <1>3 DEF AtPoint
<1>4. CASE point # Nothing /\ Reached(s)
  <2>1. point.upto \in 0..MaxTrx /\ applied[s] >= point.upto
    BY <1>4 DEF Points, Reached
  <2>2. TableAt(applied[s]) = TableAt(point.upto)
    <3>1. CASE conf.master
      BY <1>1, <1>4, <2>1, <3>1, TableFacts DEF PointInv
    <3>2. CASE ~conf.master
      BY <1>1, <1>4, <2>1, <3>2 DEF PointInv
    <3>. QED
      BY <3>1, <3>2
  <2>. QED
    BY <1>1, <1>2, <1>4, <2>2 DEF AtPoint, TableAt
<1>. QED
  BY <1>3, <1>4

\* What is true at the point stays true until the table is unlocked.
LEMMA PointKept ==
  SyncTypeOK /\ CheckInv /\ PointInv /\ SyncTypeOK' /\ [SyncNext]_syncVars => PointInv'
<1>. SUFFICES ASSUME SyncTypeOK, CheckInv, PointInv, SyncTypeOK', [SyncNext]_syncVars
              PROVE  PointInv'
  OBVIOUS
<1>. USE SyncAssumption DEF SyncTypeOK, CheckInv, PlaceInv, PointInv
<1>1. CASE CheckGtids
  BY <1>1 DEF CheckGtids, syncWorld
<1>2. CASE SplitActive
  BY <1>2 DEF SplitActive, ClearRound, syncWorld
<1>3. CASE LockTable
  BY <1>3 DEF LockTable, syncWorld
<1>4. CASE ComputePoint
  <2>1. CASE conf.master
    BY <1>4, <2>1 DEF ComputePoint, syncWorld, TableAt
  <2>2. CASE ~conf.master
    <3>1. PICK n \in 0..MaxTrx : /\ point' = [upto |-> n, own |-> active \cap conf.strayed]
                                 /\ \A s \in active : applied[s] <= n
      BY <1>4, <2>2, PointOfSlaves
    <3>2. UNCHANGED <<active, conf, applied>> /\ point'.upto = n
      BY <1>4, <3>1 DEF ComputePoint, syncWorld
    <3>3. \A s \in active' : applied'[s] <= point'.upto
      BY <3>1, <3>2
    <3>. QED
      BY <2>2, <3>2, <3>3 DEF PointInv
  <2>. QED
    BY <2>1, <2>2
<1>5. CASE SumMaster
  BY <1>5 DEF SumMaster, syncWorld, TableAt
<1>6. CASE UnlockTable
  BY <1>6 DEF UnlockTable, syncWorld
<1>7. CASE Compare
  BY <1>7 DEF Compare, syncWorld
<1>8. ASSUME NEW s \in SyncSet, SyncCall(s)
      PROVE  PointInv'
  <2>1. CASE HoldSlave(s)
    BY <2>1 DEF HoldSlave, Ends
  <2>2. CASE StopForSync(s)
    BY <2>2 DEF StopForSync, Ends, TableAt
  <2>3. CASE StartUntil(s)
    BY <2>3 DEF StartUntil, Ends, TableAt
  <2>4. CASE SumInactive(s)
    BY <2>4 DEF SumInactive, Ends, syncWorld
  <2>5. CASE Poll(s)
    BY <2>5 DEF Poll, syncWorld
  <2>6. CASE SumAndStart(s)
    BY <2>6 DEF SumAndStart, Ends
  <2>. QED
    BY <1>8, <2>1, <2>2, <2>3, <2>4, <2>5, <2>6 DEF SyncCall
<1>9. CASE CommitOnMaster
  <2>1. CASE conf.master
    <3>1. committed \in Nat /\ committed' = committed + 1
      BY <1>9 DEF CommitOnMaster
    <3>2. locked => TableAt(committed + 1) = TableAt(committed)
      BY <1>9, <3>1, TableFacts DEF CommitOnMaster
    <3>3. locked => TableAt(committed') = TableAt(committed)
      BY <3>1, <3>2
    <3>4. UNCHANGED <<phase, conf, active, pool, point, applied, locked>>
      BY <1>9 DEF CommitOnMaster
    <3>. QED
      BY <2>1, <3>3, <3>4 DEF TableAt
  <2>2. CASE ~conf.master
    BY <1>9, <2>2 DEF CommitOnMaster
  <2>. QED
    BY <2>1, <2>2
<1>10. ASSUME NEW s \in SyncSet, ApplyNext(s)
       PROVE  PointInv'
  BY <1>10 DEF ApplyNext, ThreadInv, TableAt
<1>11. ASSUME NEW s \in SyncSet, StopOnError(s)
       PROVE  PointInv'
  BY <1>11 DEF StopOnError, TableAt
<1>12. CASE UNCHANGED syncVars
  BY <1>12 DEF syncVars, syncWorld, TableAt
<1>. QED
  BY <1>1, <1>2, <1>3, <1>4, <1>5, <1>6, <1>7, <1>8, <1>9, <1>10, <1>11, <1>12
     DEF SyncNext, SyncStep, SyncServers

\* From the call that starts it to the one that takes its checksum.
LEMMA SyncedKept ==
  SyncTypeOK /\ CheckInv /\ SyncInv /\ SyncTypeOK' /\ [SyncNext]_syncVars => SyncedInv'
<1>. SUFFICES ASSUME SyncTypeOK, CheckInv, SyncInv, SyncTypeOK', [SyncNext]_syncVars
              PROVE  SyncedInv'
  OBVIOUS
<1>. USE SyncAssumption DEF SyncTypeOK, CheckInv, PlaceInv
<1>a. SyncedInv
  BY DEF SyncInv
<1>b. ASSUME UNCHANGED <<conf, active, point, applied, sqlThread>>
      PROVE  \A r \in SyncSet : AtPoint(r)' <=> AtPoint(r)
  BY <1>b DEF AtPoint, Reached, TableAt
<1>1. CASE CheckGtids
  BY <1>1 DEF CheckGtids, SyncedInv, IsSent
<1>2. CASE SplitActive
  BY <1>2 DEF SplitActive, SyncedInv, IsSent
<1>3. CASE LockTable
  BY <1>3 DEF LockTable, SyncedInv, IsSent
<1>4. CASE ComputePoint
  BY <1>4 DEF ComputePoint, SyncedInv, IsSent
<1>5. CASE SumMaster
  BY <1>5, <1>a, <1>b DEF SumMaster, SyncedInv, IsSent, syncWorld
<1>6. CASE UnlockTable
  <2>1. CASE phase = "unlock"
    <3>1. \A r \in active \ conf.strayed : AtPoint(r)
      BY <1>a, <2>1 DEF SyncedInv, IsSent
    <3>2. UNCHANGED <<conf, active, point, applied, sqlThread>>
      BY <1>6 DEF UnlockTable, syncWorld
    <3>3. \A r \in active \ conf.strayed : AtPoint(r)'
      BY <1>b, <3>1, <3>2
    <3>. QED
      BY <3>2, <3>3 DEF SyncedInv, IsSent
  <2>2. CASE phase = "failed" /\ locked
    BY <1>6, <2>2 DEF UnlockTable, SyncedInv, IsSent
  <2>. QED
    BY <1>6, <2>1, <2>2 DEF UnlockTable
<1>7. CASE Compare
  BY <1>7 DEF Compare, SyncedInv, IsSent
<1>8. ASSUME NEW s \in SyncSet, SyncCall(s)
      PROVE  SyncedInv'
  <2>1. CASE HoldSlave(s)
    BY <2>1 DEF HoldSlave, Ends, SyncedInv, IsSent
  <2>2. CASE StopForSync(s)
    BY <2>2 DEF StopForSync, Ends, SyncedInv, IsSent
  <2>3. CASE StartUntil(s)
    <3>1. CASE raised'
      BY <2>3, <3>1 DEF StartUntil, Ends, SyncedInv, IsSent
    <3>2. CASE ~raised'
      <4>1. s \notin conf.strayed => AtPoint(s)'
        BY <2>3, <3>2, SentToPoint DEF SyncInv
      <4>2. \A r \in SyncSet \ {s} : AtPoint(r) => AtPoint(r)'
        BY <2>3 DEF StartUntil, AtPoint, Reached, TableAt
      <4>3. \A r \in active \ conf.strayed : r \notin pool => AtPoint(r)
        <5>1. phase = "until" /\ ~raised
          BY <2>3, <3>2 DEF StartUntil
        <5>. QED
          BY <1>a, <5>1 DEF SyncedInv, IsSent
      <4>4. \A r \in active \ conf.strayed : r \notin pool \ {s} => AtPoint(r)'
        BY <4>1, <4>2, <4>3
      <4>5. /\ phase = "until" /\ UNCHANGED <<active, conf>>
            /\ \/ phase' = "until" /\ pool' = pool \ {s}
               \/ pool = {s}
        BY <2>3, <3>2 DEF StartUntil, Ends
      <4>. QED
        BY <4>4, <4>5 DEF SyncedInv, IsSent
    <3>. QED
      BY <3>1, <3>2
  <2>4. CASE SumInactive(s)
    BY <2>4, <1>a, <1>b DEF SumInactive, Ends, SyncedInv, IsSent, syncWorld
  <2>5. CASE Poll(s)
    BY <2>5, <1>a, <1>b DEF Poll, SyncedInv, IsSent, syncWorld
  <2>6. CASE SumAndStart(s)
    <3>1. \A r \in SyncSet \ {s} : AtPoint(r)' <=> AtPoint(r)
      BY <2>6 DEF SumAndStart, AtPoint, Reached, TableAt
    <3>. QED
      BY <2>6, <1>a, <3>1 DEF SumAndStart, Ends, SyncedInv, IsSent
  <2>. QED
    BY <1>8, <2>1, <2>2, <2>3, <2>4, <2>5, <2>6 DEF SyncCall
<1>9. CASE CommitOnMaster
  BY <1>9, <1>a, <1>b DEF CommitOnMaster, SyncedInv, IsSent
<1>10. ASSUME NEW s \in SyncSet, ApplyNext(s) \/ StopOnError(s)
       PROVE  SyncedInv'
  <2>1. UNCHANGED <<phase, conf, pool, active, raised>>
    BY <1>10 DEF ApplyNext, StopOnError
  <2>2. \A r \in active \ conf.strayed : AtPoint(r) => AtPoint(r)'
    BY <1>10, AtPointKept
  <2>. QED
    BY <1>a, <2>1, <2>2 DEF SyncedInv, IsSent
<1>11. CASE UNCHANGED syncVars
  BY <1>11, <1>a, <1>b DEF SyncedInv, IsSent, syncVars, syncWorld
<1>. QED
  BY <1>1, <1>2, <1>3, <1>4, <1>5, <1>6, <1>7, <1>8, <1>9, <1>10, <1>11
     DEF SyncNext, SyncStep, SyncServers

\* Checksums are taken while the data is that of the point.  A slave that is
\* not waited for (--rpl-timeout=0) is summed wherever it is.
LEMMA SumKept ==
  /\ RplTimeout > 0 /\ SyncTypeOK /\ CheckInv /\ SyncInv
  /\ SyncTypeOK' /\ [SyncNext]_syncVars
  => SumInv'
<1>. SUFFICES ASSUME RplTimeout > 0, SyncTypeOK, CheckInv, SyncInv, SyncTypeOK',
                     [SyncNext]_syncVars
              PROVE  SumInv'
  OBVIOUS
<1>. USE SyncAssumption DEF SyncTypeOK, CheckInv, PlaceInv
<1>a. SyncedInv /\ SumInv /\ PointInv
  BY DEF SyncInv
<1>b. ASSUME UNCHANGED point
      PROVE  DataAtPoint' = DataAtPoint
  BY <1>b DEF DataAtPoint, TableAt
<1>1. CASE CheckGtids
  BY <1>1, <1>a DEF CheckGtids, SumInv
<1>2. CASE SplitActive
  BY <1>2, <1>a DEF SplitActive, ClearRound, SumInv
<1>3. CASE LockTable
  BY <1>3, <1>a DEF LockTable, SumInv
<1>4. CASE ComputePoint
  BY <1>4, <1>a DEF ComputePoint, SumInv
<1>5. CASE SumMaster
  <2>1. point # Nothing => MasterData = DataAtPoint
    BY <1>5, <1>a DEF SumMaster, PointInv, MasterData, DataAtPoint
  <2>. QED
    BY <1>5, <1>a, <1>b, <2>1 DEF SumMaster, SumInv
<1>6. CASE UnlockTable
  BY <1>6, <1>a, <1>b DEF UnlockTable, SumInv
<1>7. CASE Compare
  BY <1>7, <1>a DEF Compare, SumInv
<1>8. ASSUME NEW s \in SyncSet, SyncCall(s)
      PROVE  SumInv'
  <2>1. CASE HoldSlave(s)
    BY <2>1, <1>a DEF HoldSlave, Ends, SumInv
  <2>2. CASE StopForSync(s)
    BY <2>2, <1>a DEF StopForSync, Ends, SumInv
  <2>3. CASE StartUntil(s)
    BY <2>3, <1>a, <1>b DEF StartUntil, Ends, SumInv
  <2>4. CASE SumInactive(s)
    BY <2>4, <1>a, <1>b DEF SumInactive, Ends, SumInv
  <2>5. CASE Poll(s)
    BY <2>5, <1>a, <1>b DEF Poll, SumInv
  <2>6. CASE SumAndStart(s)
    <3>1. /\ s \in active /\ phase = "waiting" /\ s \in pool
          /\ sums'[s] = sums[s] \/ (sqlThread[s] = "off" /\ sums'[s] = SlaveData(s))
          /\ \A r \in SyncSet \ {s} : sums'[r] = sums[r]
          /\ UNCHANGED <<conf, active, point, base>>
      BY <2>6 DEF SumAndStart
    <3>2. s \notin conf.strayed /\ sqlThread[s] = "off"
            => point # Nothing /\ SlaveData(s) = DataAtPoint
      <4>1. ASSUME s \notin conf.strayed, sqlThread[s] = "off"
            PROVE  point # Nothing /\ TableAt(applied[s]) = TableAt(point.upto)
        <5>1. AtPoint(s)
          BY <1>a, <3>1, <4>1 DEF SyncedInv, IsSent
        <5>. QED
          BY <4>1, <5>1 DEF AtPoint
      <4>2. SlaveData(s) = [rows |-> TableAt(applied[s]), stray |-> s \in conf.strayed]
        BY DEF SlaveData
      <4>3. s \notin conf.strayed => (s \in conf.strayed) = FALSE
        OBVIOUS
      <4>. QED
        BY <4>1, <4>2, <4>3, Zenon DEF DataAtPoint
    <3>3. \A r \in active \ conf.strayed :
            sums'[r] = Nothing \/ (point # Nothing /\ sums'[r] = DataAtPoint)
      BY <1>a, <3>1, <3>2 DEF SumInv
    <3>4. /\ phase' \in {"waiting", "compare", "failed"} /\ pool' = pool \ {s}
      BY <2>6, <3>1 DEF SumAndStart, Ends
    <3>. QED
      BY <1>a, <1>b, <3>1, <3>3, <3>4 DEF SumInv
  <2>. QED
    BY <1>8, <2>1, <2>2, <2>3, <2>4, <2>5, <2>6 DEF SyncCall
<1>9. CASE CommitOnMaster
  BY <1>9, <1>a, <1>b DEF CommitOnMaster, SumInv
<1>10. ASSUME NEW s \in SyncSet, ApplyNext(s) \/ StopOnError(s)
       PROVE  SumInv'
  BY <1>10, <1>a, <1>b DEF ApplyNext, StopOnError, SumInv
<1>11. CASE UNCHANGED syncVars
  BY <1>11, <1>a, <1>b DEF SumInv, syncVars
<1>. QED
  BY <1>1, <1>2, <1>3, <1>4, <1>5, <1>6, <1>7, <1>8, <1>9, <1>10, <1>11
     DEF SyncNext, SyncStep, SyncServers

----------------------------------------------------------------------------
LEMMA CheckStep ==
  SyncTypeOK /\ CheckInv /\ [SyncNext]_syncVars => SyncTypeOK' /\ CheckInv'
BY TypeKept, PlaceKept, WorldKept, ThreadKept DEF CheckInv

\* Types: every state of _check_table_data_sync and of the servers it drives is
\* of the declared kind, so that the point always names a transaction.
THEOREM SyncTypeCorrect == SyncSpec => []SyncTypeOK
<1>1. SyncInit => SyncTypeOK /\ CheckInv
  BY SyncInitially
<1>2. (SyncTypeOK /\ CheckInv) /\ [SyncNext]_syncVars => (SyncTypeOK /\ CheckInv)'
  BY CheckStep
<1>. QED
  BY <1>1, <1>2, PTL DEF SyncSpec

\* Every table that has been compared is unlocked, and every slave that was
\* replicating does so again, whoever timed out and whatever was written.
THEOREM CheckLeavesNothing == SyncSpec => []NothingLeftBehind
<1>1. SyncInit => SyncTypeOK /\ CheckInv
  BY SyncInitially
<1>2. (SyncTypeOK /\ CheckInv) /\ [SyncNext]_syncVars => (SyncTypeOK /\ CheckInv)'
  BY CheckStep
<1>3. SyncTypeOK /\ CheckInv => NothingLeftBehind
  BY DEF SyncTypeOK, CheckInv, PlaceInv, ThreadInv, NothingLeftBehind
<1>. QED
  BY <1>1, <1>2, <1>3, PTL DEF SyncSpec

\* Two checksums that were taken at the point are of the same data.
LEMMA SameAtPoint == CheckInv /\ SumInv => NoFalseDiff
<1>. SUFFICES ASSUME CheckInv, SumInv, NEW s \in checked, Reports(s, TRUE),
                     s \notin conf.strayed, s \in active,
                     ~(~conf.master /\ (BaseSlave \in conf.strayed \/ BaseSlave \notin active))
              PROVE  FALSE
  BY DEF NoFalseDiff
<1>1. phase = "compare" /\ BaseData # Nothing /\ sums[s] # Nothing /\ sums[s] # BaseData
  BY DEF Reports
<1>2. point # Nothing /\ sums[s] = DataAtPoint
  BY <1>1 DEF SumInv
<1>3. BaseData = DataAtPoint
  BY <1>1, <1>2 DEF SumInv, BaseData
<1>. QED
  BY <1>1, <1>2, <1>3

\* A slave that is reported to differ has strayed: neither its lag, nor rows
\* that are written during the check, nor a timeout or an error makes it
\* differ from the base server, provided that the tool waits for it at all.
THEOREM DifferenceIsReal == RplTimeout > 0 => (SyncSpec => []NoFalseDiff)
<1>. SUFFICES ASSUME RplTimeout > 0 PROVE SyncSpec => []NoFalseDiff
  OBVIOUS
<1>. DEFINE IInv == SyncTypeOK /\ CheckInv /\ SyncInv
<1>1. SyncInit => IInv
  BY SyncInitially
<1>2. IInv /\ [SyncNext]_syncVars => IInv'
  <2>. SUFFICES ASSUME IInv, [SyncNext]_syncVars PROVE IInv'
    OBVIOUS
  <2>1. SyncTypeOK' /\ CheckInv'
    BY CheckStep
  <2>2. PointInv'
    BY <2>1, PointKept DEF SyncInv
  <2>3. SyncedInv'
    BY <2>1, SyncedKept
  <2>4. SumInv'
    BY <2>1, SumKept
  <2>. QED
    BY <2>1, <2>2, <2>3, <2>4 DEF SyncInv
<1>3. IInv => NoFalseDiff
  BY SameAtPoint DEF SyncInv
<1>. HIDE DEF IInv
<1>. QED
  BY <1>1, <1>2, <1>3, PTL DEF SyncSpec

----------------------------------------------------------------------------
(***************************************************************************)
(* For every list of lines, of every length and of every number of uuids:   *)
(* the union that gtid_set_union builds is exact and normal.  While the      *)
(* sorted intervals are joined, what the entry and the list still cover is   *)
(* what the lines had, and no interval left starts before the entry's last.  *)
(***************************************************************************)
Last(seq) == seq[Len(seq)]

\* Between the entry of the current uuid and the list nothing is lost.
UnionInv ==
  \A u \in GsUuids :
    /\ Normal(gsBy[u])
    /\ InLines(u, 1..(gsNext - 1)) =
         Covered(Elements(gsBy[u])) \cup (IF u = gsUuid THEN Covered(gsTodo) ELSE {})

OrderInv ==
  gsBy[gsUuid] # <<>> => \A iv \in gsTodo : Last(gsBy[gsUuid])[1] <= iv[1]

GsInv == GsTypeOK /\ UnionInv /\ OrderInv

----------------------------------------------------------------------------
LEMMA IntervalFacts ==
  ASSUME NEW iv \in Intervals
  PROVE  /\ iv[1] \in 1..GsMax /\ iv[2] \in 1..GsMax /\ iv[1] <= iv[2]
         /\ iv = <<iv[1], iv[2]>>
BY DEF Intervals

LEMMA CoveredFacts ==
  ASSUME NEW ivs \in SUBSET Intervals
  PROVE  /\ Covered(ivs) \subseteq 1..GsMax
         /\ \A t : t \in Covered(ivs) <=> \E iv \in ivs : t \in iv[1]..iv[2]
<1>1. \A t : t \in Covered(ivs) <=> \E iv \in ivs : t \in iv[1]..iv[2]
  BY DEF Covered
<1>2. \A iv \in ivs : iv[1]..iv[2] \subseteq 1..GsMax
  BY IntervalFacts, GsAssumption
<1> QED
  BY <1>1, <1>2

LEMMA ElementsFacts ==
  ASSUME NEW seq \in Seq(Intervals)
  PROVE  /\ Elements(seq) \in SUBSET Intervals
         /\ seq = <<>> => Covered(Elements(seq)) = {}
         /\ seq # <<>> => Len(seq) \in DOMAIN seq /\ Last(seq) \in Intervals
BY DEF Elements, Covered, Last

\* What Joined makes of an entry and the least interval left.
LEMMA JoinedFacts ==
  ASSUME NEW seq \in Seq(Intervals), Normal(seq), NEW iv \in Intervals,
         seq # <<>> => Last(seq)[1] <= iv[1]
  PROVE  /\ Joined(seq, iv) \in Seq(Intervals) /\ Joined(seq, iv) # <<>>
         /\ Normal(Joined(seq, iv))
         /\ Last(Joined(seq, iv))[1] <= iv[1]
         /\ Covered(Elements(Joined(seq, iv))) = Covered(Elements(seq)) \cup iv[1]..iv[2]
<1> DEFINE n == Len(seq)
           new == Joined(seq, iv)
<1>i. iv[1] \in 1..GsMax /\ iv[2] \in 1..GsMax /\ iv[1] <= iv[2] /\ iv = <<iv[1], iv[2]>>
  BY IntervalFacts
<1>s. \A i \in DOMAIN seq : /\ seq[i] \in Intervals /\ seq[i][1] \in 1..GsMax
                            /\ seq[i][2] \in 1..GsMax /\ seq[i][1] <= seq[i][2]
  BY IntervalFacts
<1>c. /\ \A t : t \in Covered(Elements(seq)) <=> \E i \in DOMAIN seq : t \in seq[i][1]..seq[i][2]
      /\ \A t : t \in Covered(Elements(new)) <=> \E i \in DOMAIN new : t \in new[i][1]..new[i][2]
  BY DEF Covered, Elements
<1>1. CASE seq # <<>> /\ iv[1] <= seq[n][2] + 1 /\ seq[n][2] < iv[2]
  <2> DEFINE wide == <<seq[n][1], iv[2]>>
  <2>1. n \in DOMAIN seq /\ DOMAIN seq = 1..n /\ seq[n][1] <= iv[1]
    BY <1>1 DEF Last
  <2>2. wide \in Intervals /\ wide[1] = seq[n][1] /\ wide[2] = iv[2]
    BY <1>1, <1>i, <1>s, <2>1, GsAssumption DEF Intervals
  <2>3. new = [seq EXCEPT ![n] = wide]
    BY <1>1 DEF Joined
  <2> HIDE DEF wide, new
  <2>4. new \in Seq(Intervals) /\ Len(new) = n /\ DOMAIN new = 1..n /\ new # <<>>
    BY <2>1, <2>2, <2>3
  <2>5. new[n] = wide /\ \A i \in 1..(n - 1) : new[i] = seq[i]
    BY <2>1, <2>3
  <2>6. Normal(new)
    <3> SUFFICES ASSUME NEW i \in 1..n, NEW j \in 1..n, i < j
                 PROVE  new[i][2] + 1 < new[j][1]
      BY <2>4 DEF Normal
    <3>1. new[i] = seq[i] /\ new[j][1] = seq[j][1]
      BY <2>1, <2>2, <2>5
    <3>2. seq[i][2] + 1 < seq[j][1]
      BY <2>1 DEF Normal
    <3> QED
      BY <3>1, <3>2
  <2>7. \A t : t \in Covered(Elements(new)) <=> t \in Covered(Elements(seq)) \cup iv[1]..iv[2]
    <3> TAKE t
    <3>1. t \in wide[1]..wide[2] <=> t \in seq[n][1]..seq[n][2] \/ t \in iv[1]..iv[2]
      BY <1>1, <1>i, <1>s, <2>1, <2>2
    <3>2. (\E i \in 1..n : t \in new[i][1]..new[i][2]) <=>
            (\E i \in 1..(n - 1) : t \in seq[i][1]..seq[i][2]) \/ t \in wide[1]..wide[2]
      BY <2>1, <2>5
    <3>3. (\E i \in 1..n : t \in seq[i][1]..seq[i][2]) <=>
            (\E i \in 1..(n - 1) : t \in seq[i][1]..seq[i][2]) \/ t \in seq[n][1]..seq[n][2]
      BY <2>1
    <3> QED
      BY <1>c, <2>1, <2>4, <3>1, <3>2, <3>3
  <2>8. Last(new)[1] <= iv[1]
    BY <2>1, <2>2, <2>4, <2>5 DEF Last
  <2> QED
    BY <2>4, <2>6, <2>7, <2>8 DEF new
<1>2. CASE seq # <<>> /\ iv[1] <= seq[n][2] + 1 /\ ~(seq[n][2] < iv[2])
  <2>1. new = seq
    BY <1>2 DEF Joined
  <2>2. n \in DOMAIN seq /\ seq[n][1] <= iv[1] /\ iv[2] <= seq[n][2]
    BY <1>2, <1>i, <1>s DEF Last
  <2>3. \A t \in iv[1]..iv[2] : t \in seq[n][1]..seq[n][2]
    BY <2>2, <1>i, <1>s
  <2> QED
    BY <1>2, <1>c, <2>1, <2>2, <2>3 DEF Last
<1>3. CASE ~(seq # <<>> /\ iv[1] <= seq[n][2] + 1)
  <2>1. new = Append(seq, iv)
    BY <1>3 DEF Joined
  <2> HIDE DEF new
  <2>2. /\ new \in Seq(Intervals) /\ Len(new) = n + 1 /\ new # <<>> /\ DOMAIN new = 1..(n + 1)
        /\ new[n + 1] = iv /\ \A i \in 1..n : new[i] = seq[i]
    BY <2>1
  <2>3. \A i \in 1..n : seq[i][2] + 1 < iv[1]
    <3> SUFFICES ASSUME NEW i \in 1..n PROVE seq[i][2] + 1 < iv[1]
      OBVIOUS
    <3>1. seq # <<>> /\ n \in DOMAIN seq /\ i \in DOMAIN seq
      OBVIOUS
    <3>2. seq[n][2] + 1 < iv[1]
      BY <1>3, <1>i, <1>s, <3>1
    <3>3. CASE i = n
      BY <3>2, <3>3
    <3>4. CASE i < n
      <4>1. seq[i][2] + 1 < seq[n][1]
        BY <3>1, <3>4 DEF Normal
      <4> QED
        BY <1>i, <1>s, <3>1, <3>2, <4>1
    <3> QED
      BY <3>3, <3>4
  <2>4. Normal(new)
    <3> SUFFICES ASSUME NEW i \in 1..(n + 1), NEW j \in 1..(n + 1), i < j
                 PROVE  new[i][2] + 1 < new[j][1]
      BY <2>2 DEF Normal
    <3>1. i \in 1..n /\ new[i] = seq[i]
      BY <2>2
    <3>2. CASE j = n + 1
      BY <2>2, <2>3, <3>1, <3>2
    <3>3. CASE j \in 1..n
      BY <2>2, <3>1, <3>3 DEF Normal
    <3> QED
      BY <3>2, <3>3
  <2>5. \A t : t \in Covered(Elements(new)) <=> t \in Covered(Elements(seq)) \cup iv[1]..iv[2]
    <3> TAKE t
    <3>1. (\E i \in 1..(n + 1) : t \in new[i][1]..new[i][2]) <=>
            (\E i \in 1..n : t \in seq[i][1]..seq[i][2]) \/ t \in iv[1]..iv[2]
      BY <2>2
    <3> QED
      BY <1>c, <2>2, <3>1
  <2>6. Last(new)[1] <= iv[1]
    BY <2>2, <1>i DEF Last
  <2> QED
    BY <2>2, <2>4, <2>5, <2>6 DEF new
<1> QED
  BY <1>1, <1>2, <1>3

----------------------------------------------------------------------------
LEMMA GsInitially == GsInit => GsInv
<1> SUFFICES ASSUME GsInit PROVE GsInv
  OBVIOUS
<1>1. gsRead \in Seq(GsLines) /\ gsRead # <<>> /\ gsRead[1] \in GsLines
  BY GsAssumption DEF GsInit
<1>2. GsTypeOK
  BY <1>1 DEF GsInit, GsTypeOK, GsLines
<1>3. UnionInv
  <2>1. Normal(<<>>) /\ Covered(Elements(<<>>)) = {} /\ Covered({}) = {}
    BY DEF Normal, Covered, Elements
  <2>2. \A u \in GsUuids : InLines(u, 1..(gsNext - 1)) = {}
    <3>1. gsNext = 1 /\ 1..(1 - 1) = {}
      BY DEF GsInit
    <3> QED
      BY <3>1 DEF InLines
  <2> QED
    BY <2>1, <2>2 DEF GsInit, UnionInv
<1>4. OrderInv
  BY DEF GsInit, OrderInv
<1> QED
  BY <1>2, <1>3, <1>4 DEF GsInv

\* What a line adds.
LEMMA LineAdds ==
  ASSUME GsTypeOK, gsNext \in DOMAIN gsRead, NEW u \in GsUuids
  PROVE  InLines(u, 1..gsNext) =
           InLines(u, 1..(gsNext - 1)) \cup
             (IF gsRead[gsNext].uuid = u THEN Covered(Elements(gsRead[gsNext].set)) ELSE {})
<1>1. gsRead[gsNext] \in GsLines /\ gsNext \in Nat \ {0}
  BY DEF GsTypeOK
<1>2. Covered(Elements(gsRead[gsNext].set)) \subseteq 1..GsMax
  BY <1>1, ElementsFacts, CoveredFacts DEF GsLines
<1>3. \A i : i \in 1..gsNext <=> i \in 1..(gsNext - 1) \/ i = gsNext
  BY <1>1
<1> QED
  BY <1>2, <1>3 DEF InLines

LEMMA TakeLineKeeps == ASSUME GsInv, TakeLine PROVE GsInv'
<1> DEFINE line == gsRead[gsNext]
           v == line.uuid
<1>1. /\ gsTodo = {} /\ gsNext \in DOMAIN gsRead /\ gsNext' = gsNext + 1
      /\ gsUuid' = v /\ gsRead' = gsRead
  BY DEF TakeLine
<1>2. line \in GsLines /\ v \in GsUuids /\ line.set \in Seq(Intervals) /\ Normal(line.set)
  BY <1>1 DEF GsInv, GsTypeOK, GsLines
<1>t. gsBy \in [GsUuids -> Seq(Intervals)] /\ gsRead \in Seq(GsLines) /\ gsNext \in Nat \ {0}
  BY DEF GsInv, GsTypeOK
<1>3. \A u \in GsUuids : InLines(u, 1..(gsNext - 1)) = Covered(Elements(gsBy[u])) /\ Normal(gsBy[u])
  BY <1>1 DEF GsInv, UnionInv, Covered
<1>4. \A u \in GsUuids : InLines(u, 1..(gsNext - 1))' =
        Covered(Elements(gsBy[u])) \cup (IF v = u THEN Covered(Elements(line.set)) ELSE {})
  <2> TAKE u \in GsUuids
  <2>1. gsNext' - 1 = gsNext
    BY <1>1, <1>t
  <2>2. InLines(u, 1..(gsNext - 1))' = InLines(u, 1..gsNext)
    BY <1>1, <2>1 DEF InLines
  <2> QED
    BY <1>1, <1>3, <2>2, LineAdds DEF GsInv
<1>5. CASE gsBy[v] = <<>>
  <2>1. gsBy' = [gsBy EXCEPT ![v] = line.set] /\ gsTodo' = {}
    BY <1>5 DEF TakeLine
  <2>2. GsTypeOK'
    BY <1>1, <1>2, <1>t, <2>1 DEF GsTypeOK
  <2>3. ASSUME NEW u \in GsUuids
        PROVE  Normal(gsBy'[u]) /\ InLines(u, 1..(gsNext - 1))' = Covered(Elements(gsBy'[u]))
    <3>1. CASE u = v
      BY <1>2, <1>4, <1>5, <1>t, <2>1, <3>1, ElementsFacts
    <3>2. CASE u # v
      BY <1>3, <1>4, <1>t, <2>1, <3>2
    <3> QED
      BY <3>1, <3>2
  <2> QED
    BY <2>1, <2>2, <2>3 DEF GsInv, UnionInv, OrderInv, Covered
<1>6. CASE gsBy[v] # <<>>
  <2>1. /\ gsBy' = [gsBy EXCEPT ![v] = <<>>]
        /\ gsTodo' = Elements(gsBy[v]) \cup Elements(line.set)
    BY <1>6 DEF TakeLine
  <2>2. Elements(gsBy[v]) \subseteq Intervals /\ Elements(line.set) \subseteq Intervals
    BY <1>2, <1>t, ElementsFacts
  <2>3. GsTypeOK'
    BY <1>1, <1>2, <1>t, <2>1, <2>2 DEF GsTypeOK
  <2>4. Covered(gsTodo') = Covered(Elements(gsBy[v])) \cup Covered(Elements(line.set))
    BY <2>1 DEF Covered
  <2>5. Covered(Elements(<<>>)) = {} /\ Normal(<<>>)
    BY DEF Covered, Elements, Normal
  <2>6. ASSUME NEW u \in GsUuids
        PROVE  /\ Normal(gsBy'[u])
               /\ InLines(u, 1..(gsNext - 1))' =
                    Covered(Elements(gsBy'[u])) \cup (IF u = v THEN Covered(gsTodo') ELSE {})
    <3>1. CASE u = v
      BY <1>4, <1>t, <2>1, <2>4, <2>5, <3>1
    <3>2. CASE u # v
      BY <1>3, <1>4, <1>t, <2>1, <3>2
    <3> QED
      BY <3>1, <3>2
  <2>7. OrderInv'
    BY <1>1, <1>2, <1>t, <2>1 DEF OrderInv
  <2> QED
    BY <1>1, <2>3, <2>6, <2>7 DEF GsInv, UnionInv
<1> QED
  BY <1>5, <1>6

LEMMA MergeKeeps == ASSUME GsInv, NEW iv \in Intervals, Merge(iv) PROVE GsInv'
<1> DEFINE v == gsUuid
           old == gsBy[v]
           new == Joined(old, iv)
<1>1. /\ iv \in gsTodo /\ SortsFirst(iv, gsTodo) /\ gsTodo' = gsTodo \ {iv}
      /\ gsBy' = [gsBy EXCEPT ![v] = new]
      /\ gsRead' = gsRead /\ gsNext' = gsNext /\ gsUuid' = gsUuid
  BY DEF Merge
<1>t. /\ gsBy \in [GsUuids -> Seq(Intervals)] /\ v \in GsUuids /\ old \in Seq(Intervals)
      /\ gsTodo \subseteq Intervals
  BY DEF GsInv, GsTypeOK
<1>2. Normal(old) /\ (old # <<>> => Last(old)[1] <= iv[1])
  BY <1>1, <1>t DEF GsInv, UnionInv, OrderInv
<1>3. /\ new \in Seq(Intervals) /\ new # <<>> /\ Normal(new) /\ Last(new)[1] <= iv[1]
      /\ Covered(Elements(new)) = Covered(Elements(old)) \cup iv[1]..iv[2]
  BY <1>2, <1>t, JoinedFacts
<1> HIDE DEF new, old
<1>4. GsTypeOK'
  BY <1>1, <1>3, <1>t DEF GsInv, GsTypeOK
<1>5. Covered(gsTodo) = Covered(gsTodo') \cup iv[1]..iv[2]
  BY <1>1 DEF Covered
<1>6. ASSUME NEW u \in GsUuids
      PROVE  /\ Normal(gsBy'[u])
             /\ InLines(u, 1..(gsNext - 1))' =
                  Covered(Elements(gsBy'[u])) \cup (IF u = v THEN Covered(gsTodo') ELSE {})
  <2>1. InLines(u, 1..(gsNext - 1))' = InLines(u, 1..(gsNext - 1))
    BY <1>1 DEF InLines
  <2>2. CASE u = v
    <3>1. InLines(u, 1..(gsNext - 1)) = Covered(Elements(old)) \cup Covered(gsTodo)
      BY <1>t, <2>2 DEF GsInv, UnionInv, old
    <3>2. gsBy'[u] = new
      BY <1>1, <1>t, <2>2
    <3> QED
      BY <1>3, <1>5, <2>1, <2>2, <3>1, <3>2
  <2>3. CASE u # v
    BY <1>1, <1>t, <2>1, <2>3 DEF GsInv, UnionInv
  <2> QED
    BY <2>2, <2>3
<1>7. \A other \in gsTodo' : Last(new)[1] <= other[1]
  <2> SUFFICES ASSUME NEW other \in gsTodo' PROVE Last(new)[1] <= other[1]
    OBVIOUS
  <2>1. iv[1] <= other[1] /\ other \in Intervals
    BY <1>1, <1>t, IntervalFacts DEF SortsFirst
  <2>2. Last(new) \in Intervals
    BY <1>3, ElementsFacts
  <2> QED
    BY <1>3, <2>1, <2>2, IntervalFacts
<1>8. gsBy'[gsUuid'] = new
  BY <1>1, <1>t
<1> QED
  BY <1>1, <1>4, <1>6, <1>7, <1>8 DEF GsInv, UnionInv, OrderInv

----------------------------------------------------------------------------
\* Each step leaves the union exact.
LEMMA GsStepKeeps == ASSUME GsInv, [GsNext]_gsVars PROVE GsInv'
<1>1. CASE TakeLine
  BY <1>1, TakeLineKeeps
<1>2. ASSUME NEW iv \in Intervals, Merge(iv) PROVE GsInv'
  BY <1>2, MergeKeeps
<1>3. CASE UNCHANGED gsVars
  BY <1>3 DEF gsVars, GsInv, GsTypeOK, UnionInv, OrderInv, InLines
<1> QED
  BY <1>1, <1>2, <1>3 DEF GsNext

\* _compute_sync_point without a master: the point is what the slaves have
\* executed, whatever intervals their sets consist of.
THEOREM SyncPointIsExact == GsSpec => []SyncPointIsUnion
<1>1. GsInv /\ [GsNext]_gsVars => GsInv'
  BY GsStepKeeps
<1>2. GsInv => SyncPointIsUnion
  BY DEF GsInv, UnionInv, SyncPointIsUnion, Covered
<1> QED
  BY <1>1, <1>2, GsInitially, PTL DEF GsSpec

----------------------------------------------------------------------------
(***************************************************************************)
(* For every list of masters and however often the slave leaves one: CHANGE  *)
(* MASTER throws the relay log away and lets the IO thread begin again;      *)
(* below its position everything is executed or in the relay log, in order.  *)
(***************************************************************************)
Events == MasterSet \X (Nat \ {0})

DataInv ==
  /\ idx \in DOMAIN Masters /\ msConf \in MsConfs
  /\ msCommitted \in [MasterSet -> Nat]
  /\ msExecuted \subseteq Events /\ relay \in Seq(Events)
  /\ position \in Nat \ {0} /\ msSource \in MasterSet \cup {NoMaster}

\* Transaction k of the current master is executed or lies in the relay log before i.
Held(k, i) ==
  <<msSource, k>> \in msExecuted \/ \E j \in 1..(i - 1) : relay[j] = <<msSource, k>>

\* The same after the step.
HeldNext(k, i) ==
  <<msSource', k>> \in msExecuted' \/ \E j \in 1..(i - 1) : relay'[j] = <<msSource', k>>

\* The relay log is one of the current master's, and nothing precedes it that
\* the slave does not hold.
RelayInv ==
  msConf.gtid =>
    /\ \A i \in 1..Len(relay) :
         /\ relay[i][1] = msSource /\ relay[i][2] < position
         /\ \A k \in 1..(relay[i][2] - 1) : Held(k, i)
    /\ \A k \in 1..(position - 1) : Held(k, Len(relay) + 1)

MsInv == DataInv /\ RelayInv /\ NoGaps

----------------------------------------------------------------------------
LEMMA CurrentFact == ASSUME DataInv PROVE Current \in MasterSet
BY DEF DataInv, Current, MasterSet

LEMMA MsInitially == MsInit => MsInv
<1> SUFFICES ASSUME MsInit PROVE MsInv
  OBVIOUS
<1>1. DataInv
  BY MsAssumption DEF MsInit, DataInv
<1>2. RelayInv
  BY DEF MsInit, RelayInv
<1>3. NoGaps
  BY DEF MsInit, NoGaps
<1> QED
  BY <1>1, <1>2, <1>3 DEF MsInv

\* The steps that neither fetch nor apply nor change the master.
LEMMA OthersKeep ==
  ASSUME MsInv, msConf' = msConf, idx' \in DOMAIN Masters, msCommitted' \in [MasterSet -> Nat],
         UNCHANGED <<msExecuted, relay, position, msSource>>
  PROVE  MsInv'
<1>1. DataInv'
  BY DEF MsInv, DataInv
<1>2. RelayInv'
  <2>1. \A k, i : Held(k, i)' = Held(k, i)
    BY DEF Held
  <2> QED
    BY <2>1 DEF MsInv, RelayInv
<1>3. NoGaps'
  BY DEF MsInv, NoGaps
<1> QED
  BY <1>1, <1>2, <1>3 DEF MsInv

LEMMA ChangeMasterKeeps == ASSUME MsInv, ChangeMaster PROVE MsInv'
<1>1. /\ msConf' = msConf /\ idx' = idx /\ msSource' = Current /\ relay' = <<>>
      /\ position' = (IF msConf.gtid THEN 1 ELSE msCommitted[Current] + 1)
      /\ msCommitted' = msCommitted /\ msExecuted' = msExecuted
  BY DEF ChangeMaster, MsGoto
<1>2. Current \in MasterSet /\ DataInv
  BY CurrentFact DEF MsInv
<1>3. DataInv'
  BY <1>1, <1>2 DEF DataInv
<1>4. RelayInv'
  BY <1>1 DEF RelayInv
<1>5. NoGaps'
  BY <1>1 DEF MsInv, NoGaps
<1> QED
  BY <1>3, <1>4, <1>5 DEF MsInv

LEMMA FetchKeeps == ASSUME MsInv, FetchNext PROVE MsInv'
<1> DEFINE m == msSource
           len == Len(relay)
<1>1. PICK n \in Sendable(m) : /\ \A k \in Sendable(m) : n <= k
                               /\ relay' = Append(relay, <<m, n>>) /\ position' = n + 1
  BY DEF FetchNext
<1>2. /\ UNCHANGED <<msConf, idx, msCommitted, msExecuted, msSource>>
      /\ m \in MasterSet /\ m # NoMaster
  BY DEF FetchNext, MsEnv, MsInv, DataInv
<1>3. /\ position \in Nat \ {0} /\ msCommitted[m] \in Nat /\ relay \in Seq(Events) /\ len \in Nat
      /\ n \in Nat \ {0} /\ position <= n /\ n <= msCommitted[m]
  BY <1>1, <1>2 DEF MsInv, DataInv, Sendable
<1>4. <<m, n>> \in Events
  BY <1>2, <1>3 DEF Events
<1>5. /\ relay' \in Seq(Events) /\ Len(relay') = len + 1 /\ relay'[len + 1] = <<m, n>>
      /\ \A i \in 1..len : relay'[i] = relay[i]
  BY <1>1, <1>3, <1>4
<1>6. DataInv'
  BY <1>1, <1>2, <1>3, <1>5 DEF MsInv, DataInv
<1>7. ASSUME msConf.gtid PROVE RelayInv'
  <2> USE <1>7
  <2>h. \A k, i : i \in 1..(len + 1) /\ Held(k, i) => HeldNext(k, i)
    <3> SUFFICES ASSUME NEW k, NEW i \in 1..(len + 1), Held(k, i) PROVE HeldNext(k, i)
      OBVIOUS
    <3>1. \A j \in 1..(i - 1) : j \in 1..len
      BY <1>3
    <3> QED
      BY <1>2, <1>5, <3>1 DEF Held, HeldNext
  <2>1. \A k \in 1..(n - 1) : Held(k, len + 1)
    <3> SUFFICES ASSUME NEW k \in 1..(n - 1) PROVE Held(k, len + 1)
      OBVIOUS
    <3>1. CASE k < position
      BY <1>3, <3>1 DEF MsInv, RelayInv
    <3>2. CASE ~(k < position)
      <4>1. k \in position..msCommitted[m] /\ ~(n <= k)
        BY <1>3, <3>2
      <4>2. k \notin Sendable(m)
        BY <1>1, <4>1
      <4>3. <<m, k>> \in msExecuted
        BY <4>1, <4>2 DEF Sendable
      <4> QED
        BY <4>3 DEF Held, HeldNext
    <3> QED
      BY <3>1, <3>2
  <2>2. HeldNext(n, len + 2)
    BY <1>2, <1>3, <1>5 DEF Held, HeldNext
  <2>3. \A k \in 1..(n - 1) : HeldNext(k, len + 1) /\ HeldNext(k, len + 2)
    <3> SUFFICES ASSUME NEW k \in 1..(n - 1) PROVE HeldNext(k, len + 1) /\ HeldNext(k, len + 2)
      OBVIOUS
    <3>1. HeldNext(k, len + 1)
      BY <1>3, <2>1, <2>h
    <3> QED
      BY <1>3, <3>1 DEF Held, HeldNext
  <2>4. ASSUME NEW i \in 1..(len + 1)
        PROVE  /\ relay'[i][1] = m /\ relay'[i][2] < n + 1
               /\ \A k \in 1..(relay'[i][2] - 1) : HeldNext(k, i)
    <3>1. CASE i = len + 1
      <4>1. relay'[i][1] = m /\ relay'[i][2] = n
        BY <1>5, <3>1
      <4> QED
        BY <1>3, <2>3, <3>1, <4>1
    <3>2. CASE i \in 1..len
      <4>1. /\ relay[i][1] = m /\ relay[i][2] < position
            /\ \A k \in 1..(relay[i][2] - 1) : Held(k, i)
        BY <3>2 DEF MsInv, RelayInv
      <4>2. relay'[i] = relay[i] /\ relay[i][2] \in Nat
        <5>1. relay[i] \in Events
          BY <1>3, <3>2
        <5>2. relay[i][2] \in Nat
          BY <5>1 DEF Events
        <5> QED
          BY <1>5, <3>2, <5>2
      <4> QED
        BY <1>3, <2>h, <3>2, <4>1, <4>2
    <3> QED
      BY <1>3, <3>1, <3>2
  <2>5. \A k \in 1..n : HeldNext(k, len + 2)
    <3> SUFFICES ASSUME NEW k \in 1..n PROVE HeldNext(k, len + 2)
      OBVIOUS
    <3>1. CASE k = n
      BY <2>2, <3>1
    <3>2. CASE k \in 1..(n - 1)
      BY <2>3, <3>2
    <3> QED
      BY <1>3, <3>1, <3>2
  <2>6. position' - 1 = n /\ Len(relay') + 1 = len + 2 /\ msSource' = m
    BY <1>1, <1>2, <1>3, <1>5
  <2>7. \A i \in 1..Len(relay') :
           /\ relay'[i][1] = msSource' /\ relay'[i][2] < position'
           /\ \A k \in 1..(relay'[i][2] - 1) : HeldNext(k, i)
    BY <1>1, <1>5, <2>4, <2>6
  <2>8. \A k \in 1..(position' - 1) : HeldNext(k, Len(relay') + 1)
    <3> SUFFICES ASSUME NEW k \in 1..(position' - 1) PROVE HeldNext(k, Len(relay') + 1)
      OBVIOUS
    <3>1. HeldNext(k, len + 2)
      BY <2>5, <2>6
    <3> QED
      BY <2>6, <3>1 DEF Held, HeldNext
  <2> QED
    BY <2>7, <2>8 DEF RelayInv, Held, HeldNext
<1>8. RelayInv'
  BY <1>2, <1>7 DEF RelayInv
<1>9. NoGaps'
  BY <1>2 DEF MsInv, NoGaps
<1> QED
  BY <1>6, <1>8, <1>9 DEF MsInv

LEMMA ApplyKeeps == ASSUME MsInv, ApplyRelay PROVE MsInv'
<1> DEFINE len == Len(relay)
           h == relay[1]
<1>1. /\ msExecuted' = msExecuted \cup {h} /\ relay' = Tail(relay) /\ relay # <<>>
      /\ UNCHANGED <<msConf, idx, msCommitted, position, msSource>>
  BY DEF ApplyRelay, MsEnv
<1>2. /\ relay \in Seq(Events) /\ len \in Nat \ {0} /\ h \in Events /\ h = <<h[1], h[2]>>
      /\ h[2] \in Nat \ {0} /\ position \in Nat
  BY <1>1 DEF MsInv, DataInv, Events
<1>3. /\ relay' \in Seq(Events) /\ Len(relay') = len - 1
      /\ \A i \in 1..(len - 1) : relay'[i] = relay[i + 1]
  BY <1>1, <1>2
<1>4. DataInv'
  BY <1>1, <1>2, <1>3 DEF MsInv, DataInv
<1>5. ASSUME msConf.gtid PROVE RelayInv' /\ NoGaps'
  <2>1. h[1] = msSource /\ \A k \in 1..(h[2] - 1) : <<msSource, k>> \in msExecuted
    <3>1. 1 \in 1..len
      BY <1>2
    <3>2. h[1] = msSource /\ \A k \in 1..(h[2] - 1) : Held(k, 1)
      BY <1>5, <3>1 DEF MsInv, RelayInv
    <3> QED
      BY <3>2 DEF Held, HeldNext
  <2>2. \A k : \A i \in 1..len : Held(k, i + 1) => HeldNext(k, i)
    <3> SUFFICES ASSUME NEW k, NEW i \in 1..len, Held(k, i + 1) PROVE HeldNext(k, i)
      OBVIOUS
    <3>1. CASE <<msSource, k>> \in msExecuted
      BY <1>1, <3>1 DEF Held, HeldNext
    <3>2. ASSUME NEW j \in 1..i, relay[j] = <<msSource, k>> PROVE HeldNext(k, i)
      <4>1. CASE j = 1
        BY <1>1, <3>2, <4>1 DEF Held, HeldNext
      <4>2. CASE j # 1
        <5>1. j - 1 \in 1..(i - 1) /\ j - 1 \in 1..(len - 1) /\ (j - 1) + 1 = j
          BY <1>2, <4>2
        <5>2. relay'[j - 1] = <<msSource', k>>
          BY <1>1, <1>3, <3>2, <5>1
        <5> QED
          BY <5>1, <5>2 DEF Held, HeldNext
      <4> QED
        BY <4>1, <4>2
    <3>3. (i + 1) - 1 = i
      OBVIOUS
    <3> QED
      BY <3>1, <3>2, <3>3 DEF Held, HeldNext
  <2>3. ASSUME NEW i \in 1..(len - 1)
        PROVE  /\ relay'[i][1] = msSource /\ relay'[i][2] < position
               /\ \A k \in 1..(relay'[i][2] - 1) : HeldNext(k, i)
    <3>1. i + 1 \in 1..len /\ i \in 1..len /\ relay'[i] = relay[i + 1]
      BY <1>2, <1>3
    <3>2. /\ relay[i + 1][1] = msSource /\ relay[i + 1][2] < position
          /\ \A k \in 1..(relay[i + 1][2] - 1) : Held(k, i + 1)
      BY <1>5, <3>1 DEF MsInv, RelayInv
    <3> QED
      BY <2>2, <3>1, <3>2
  <2>4. \A k \in 1..(position - 1) : HeldNext(k, len)
    <3>1. \A k \in 1..(position - 1) : Held(k, len + 1)
      BY <1>5 DEF MsInv, RelayInv
    <3>2. len \in 1..len
      BY <1>2
    <3> QED
      BY <2>2, <3>1, <3>2
  <2>5. RelayInv'
    <3>1. \A i \in 1..Len(relay') :
             /\ relay'[i][1] = msSource' /\ relay'[i][2] < position'
             /\ \A k \in 1..(relay'[i][2] - 1) : HeldNext(k, i)
      BY <1>1, <1>3, <2>3
    <3>2. \A k \in 1..(position' - 1) : HeldNext(k, Len(relay') + 1)
      <4> SUFFICES ASSUME NEW k \in 1..(position' - 1) PROVE HeldNext(k, Len(relay') + 1)
        OBVIOUS
      <4>1. HeldNext(k, len) /\ Len(relay') + 1 = len
        BY <1>1, <1>2, <1>3, <2>4
      <4> QED
        BY <4>1 DEF Held, HeldNext
    <3> QED
      BY <3>1, <3>2 DEF RelayInv, Held, HeldNext
  <2>6. NoGaps'
    <3> SUFFICES ASSUME NEW t \in msExecuted', NEW n \in 1..t[2] PROVE <<t[1], n>> \in msExecuted'
      BY DEF NoGaps
    <3>1. CASE t \in msExecuted
      BY <1>1, <1>5, <3>1 DEF MsInv, NoGaps
    <3>2. CASE t = h
      BY <1>1, <1>2, <2>1, <3>2
    <3> QED
      BY <1>1, <3>1, <3>2
  <2> QED
    BY <2>5, <2>6
<1>6. RelayInv' /\ NoGaps'
  BY <1>1, <1>5 DEF RelayInv, NoGaps
<1> QED
  BY <1>4, <1>6 DEF MsInv

----------------------------------------------------------------------------
LEMMA MsStepKeeps ==
  ASSUME MsInv, [MsNext]_msVars PROVE MsInv'
<1> USE DEF MsGoto, MsEnv, msServers
<1>t. /\ idx \in DOMAIN Masters /\ msCommitted \in [MasterSet -> Nat]
      /\ Current \in MasterSet /\ DOMAIN Masters = 1..Len(Masters) /\ 1 \in DOMAIN Masters
  BY MsAssumption, CurrentFact DEF MsInv, DataInv
<1>1. CASE StopOldMaster
  BY <1>1, <1>t, OthersKeep DEF StopOldMaster
<1>2. CASE SetUpUser
  BY <1>2, <1>t, OthersKeep DEF SetUpUser
<1>3. CASE ChangeMaster
  BY <1>3, ChangeMasterKeeps
<1>4. CASE StartNewMaster
  BY <1>4, <1>t, OthersKeep DEF StartNewMaster
<1>5. CASE PollSlave
  BY <1>5, <1>t, OthersKeep DEF PollSlave
<1>6. CASE CheckTopology
  BY <1>6, <1>t, OthersKeep DEF CheckTopology
<1>7. CASE EndSlice
  BY <1>7, <1>t, OthersKeep DEF EndSlice
<1>8. CASE ReportHealth
  BY <1>8, <1>t, OthersKeep DEF ReportHealth
<1>9. CASE StopReplication
  BY <1>9, <1>t, OthersKeep DEF StopReplication
<1>10. ASSUME NEW from \in MsPhases, MsAbort(from) PROVE MsInv'
  BY <1>10, <1>t, OthersKeep DEF MsAbort
<1>11. ASSUME NEW m \in MasterSet, CommitOn(m) PROVE MsInv'
  BY <1>11, <1>t, OthersKeep DEF CommitOn
<1>12. ASSUME NEW m \in MasterSet, MasterCrash(m) PROVE MsInv'
  BY <1>12, <1>t, OthersKeep DEF MasterCrash
<1>13. CASE FetchNext
  BY <1>13, FetchKeeps
<1>14. CASE ApplyRelay
  BY <1>14, ApplyKeeps
<1>15. CASE UNCHANGED msVars
  BY <1>15, <1>t, OthersKeep DEF msVars
<1> QED
  BY <1>1, <1>2, <1>3, <1>4, <1>5, <1>6, <1>7, <1>8, <1>9, <1>10, <1>11, <1>12, <1>13,
     <1>14, <1>15
  DEF MsNext, MsStep, MsThreads, MsPhases

\* MASTER_AUTO_POSITION: a master that is left and found again is resumed where
\* the slave's execution stands, without a gap.
THEOREM ExecutedWithoutGaps == MsSpec => []NoGaps
<1>1. MsInv /\ [MsNext]_msVars => MsInv'
  BY MsStepKeeps
<1>2. MsInv => NoGaps
  BY DEF MsInv
<1> QED
  BY <1>1, <1>2, MsInitially, PTL DEF MsSpec

----------------------------------------------------------------------------
\* Types.  A master is set up once, in the first round: what it has committed
\* is its clients' and, from then on, the one transaction of the set-up.
IsSetUp(m) ==
  \/ ~firstRound
  \/ \E i \in 1..(idx - 1) : Masters[i] = m
  \/ m = Current /\ msPhase \notin {"switch", "setup"}

SetupInv ==
  /\ msPhase = "setup" => firstRound
  /\ \A m \in MasterSet : msCommitted[m] <= MsTrx + (IF IsSetUp(m) THEN 1 ELSE 0)

MsTypeInv == MsTypeOK /\ SetupInv /\ Len(relay) < position

LEMMA MsTypeInitially == MsInit => MsTypeInv
<1> SUFFICES ASSUME MsInit PROVE MsTypeInv
  OBVIOUS
<1>1. /\ 1 \in DOMAIN Masters /\ tries \in 0..SetupTries /\ position \in 1..(MsTrx + 2)
      /\ msCommitted \in [MasterSet -> 0..(MsTrx + 1)] /\ masterUp \in [MasterSet -> BOOLEAN]
  BY MsAssumption DEF MsInit
<1>2. relay \in Seq(MsTrxs) /\ Len(relay) = 0
  BY DEF MsInit
<1>3. MsTypeOK
  <2>1. /\ msPhase \in MsPhases /\ msConf \in MsConfs /\ idx \in DOMAIN Masters
        /\ firstRound \in BOOLEAN /\ msExecuted \subseteq MsTrxs
        /\ msSource \in MasterSet \cup {NoMaster} /\ {ioRuns, sqlRuns} \subseteq BOOLEAN
    BY <1>1 DEF MsInit, MsPhases
  <2>2. Len(relay) <= MsTrx + 1
    BY <1>2, MsAssumption
  <2> QED
    BY <1>1, <1>2, <2>1, <2>2 DEF MsTypeOK
<1>4. SetupInv
  BY MsAssumption DEF MsInit, SetupInv
<1> QED
  BY <1>2, <1>3, <1>4 DEF MsInit, MsTypeInv

\* A master that has been set up stays so.
LEMMA SetUpStays ==
  ASSUME MsTypeInv, UNCHANGED <<msConf, idx, firstRound, msCommitted>>,
         msPhase \notin {"switch", "setup"} => msPhase' \notin {"switch", "setup"},
         msPhase' = "setup" => firstRound
  PROVE  SetupInv'
<1>1. \A m \in MasterSet : IsSetUp(m) => IsSetUp(m)'
  BY DEF IsSetUp, Current
<1>2. \A m \in MasterSet : msCommitted[m] \in Nat /\ MsTrx \in Nat
  BY MsAssumption DEF MsTypeInv, MsTypeOK
<1> QED
  BY <1>1, <1>2 DEF MsTypeInv, SetupInv

\* The set-up commits at most one transaction on a master, and only once.
LEMMA SetUpUserTypes == ASSUME MsTypeInv, SetUpUser PROVE MsTypeInv'
<1> DEFINE c == Current
<1>1. /\ msPhase = "setup" /\ msPhase' = "change" /\ firstRound
      /\ UNCHANGED <<msConf, idx, firstRound, tries, msExecuted, relay, position, msSource, masterUp>>
      /\ ioRuns' = FALSE /\ sqlRuns' = FALSE
      /\ msCommitted' = [msCommitted EXCEPT ![c] = IF c \in HaveUser THEN @ ELSE @ + 1]
  BY DEF SetUpUser, MsGoto, MsTypeInv, SetupInv
<1>2. c \in MasterSet /\ MsTrx \in Nat /\ msCommitted \in [MasterSet -> 0..(MsTrx + 1)]
  BY MsAssumption DEF MsTypeInv, MsTypeOK, Current, MasterSet
<1>3. c \notin HaveUser => msCommitted[c] <= MsTrx
  <2>1. c \notin HaveUser => ~IsSetUp(c)
    BY <1>1 DEF HaveUser, IsSetUp
  <2> QED
    BY <1>2, <2>1 DEF MsTypeInv, SetupInv
<1>4. \A m \in MasterSet : IsSetUp(m) => IsSetUp(m)'
  BY <1>1 DEF IsSetUp, Current
<1>5. \A m \in MasterSet : m = c => IsSetUp(m)'
  BY <1>1 DEF IsSetUp, Current
<1> HIDE DEF c
<1>7. \A m \in MasterSet : msCommitted'[m] \in 0..(MsTrx + 1)
  BY <1>1, <1>2, <1>3
<1>8. MsTypeOK'
  BY <1>1, <1>2, <1>7 DEF MsTypeInv, MsTypeOK, MsPhases
<1>9. ASSUME NEW m \in MasterSet
      PROVE  msCommitted'[m] <= MsTrx + (IF IsSetUp(m)' THEN 1 ELSE 0)
  <2>1. CASE m = c
    BY <1>2, <1>5, <1>7, <2>1
  <2>2. CASE m # c
    <3>1. msCommitted'[m] = msCommitted[m] /\ msCommitted[m] \in Nat
      BY <1>1, <1>2, <2>2
    <3>2. msCommitted[m] <= MsTrx + (IF IsSetUp(m) THEN 1 ELSE 0)
      BY DEF MsTypeInv, SetupInv
    <3> QED
      BY <1>2, <1>4, <3>1, <3>2
  <2> QED
    BY <2>1, <2>2
<1> QED
  BY <1>1, <1>8, <1>9 DEF MsTypeInv, SetupInv

LEMMA EndSliceTypes == ASSUME MsTypeInv, EndSlice PROVE MsTypeInv'
<1>1. /\ msPhase = "slice" /\ msPhase' = "switch" /\ UNCHANGED <<msConf, tries, msServers>>
      /\ IF idx = Len(Masters) THEN idx' = 1 /\ firstRound' = FALSE
         ELSE idx' = idx + 1 /\ firstRound' = firstRound
  BY DEF EndSlice
<1>0. UNCHANGED <<msCommitted, msExecuted, relay, position, msSource, ioRuns, sqlRuns, masterUp>>
  BY <1>1 DEF msServers
<1>2. DOMAIN Masters = 1..Len(Masters)
  BY MsAssumption
<1>n. idx \in 1..Len(Masters) /\ Len(Masters) \in Int
  BY <1>2, MsAssumption DEF MsTypeInv, MsTypeOK
<1>3. idx' \in DOMAIN Masters /\ firstRound' \in BOOLEAN
  <2>1. idx' \in 1..Len(Masters)
    <3>1. \A i, n \in Int : i \in 1..n => 1 \in 1..n /\ (i # n => i + 1 \in 1..n)
      OBVIOUS
    <3>2. idx \in Int
      BY <1>n
    <3>3. 1 \in 1..Len(Masters) /\ (idx # Len(Masters) => idx + 1 \in 1..Len(Masters))
      BY <1>n, <3>1, <3>2, Zenon
    <3> QED
      BY <1>1, <3>3
  <2>2. firstRound \in BOOLEAN
    BY DEF MsTypeInv, MsTypeOK
  <2> QED
    BY <1>1, <1>2, <2>1, <2>2
<1>4. MsTypeOK'
  BY <1>0, <1>1, <1>3 DEF MsTypeInv, MsTypeOK, MsPhases
<1>5. \A m \in MasterSet : IsSetUp(m) => IsSetUp(m)'
  <2> SUFFICES ASSUME NEW m \in MasterSet, IsSetUp(m) PROVE IsSetUp(m)'
    OBVIOUS
  <2>1. CASE ~firstRound'
    BY <2>1 DEF IsSetUp
  <2>2. CASE firstRound' = firstRound /\ idx' = idx + 1
    <3>1. \E i \in 1..idx : Masters[i] = m \/ ~firstRound
      BY <1>n DEF IsSetUp, Current
    <3>2. idx' - 1 = idx
      BY <1>n, <2>2
    <3> QED
      BY <2>2, <3>1, <3>2 DEF IsSetUp
  <2> QED
    BY <1>1, <2>1, <2>2
<1>6. \A m \in MasterSet : msCommitted[m] \in Nat /\ MsTrx \in Nat
  BY MsAssumption DEF MsTypeInv, MsTypeOK
<1>7. \A m \in MasterSet : msCommitted'[m] <= MsTrx + (IF IsSetUp(m)' THEN 1 ELSE 0)
  BY <1>0, <1>5, <1>6 DEF MsTypeInv, SetupInv
<1> QED
  BY <1>0, <1>1, <1>4, <1>7 DEF MsTypeInv, SetupInv

LEMMA CommitTypes ==
  ASSUME MsTypeInv, NEW m \in MasterSet, CommitOn(m) PROVE MsTypeInv'
<1>1. /\ msCommitted' = [msCommitted EXCEPT ![m] = @ + 1] /\ msCommitted[m] < MsTrx
      /\ UNCHANGED <<msPhase, msConf, idx, firstRound, tries, msExecuted, relay, position,
                     msSource, ioRuns, sqlRuns, masterUp>>
  BY DEF CommitOn, MsEnv
<1>2. MsTrx \in Nat /\ msCommitted \in [MasterSet -> 0..(MsTrx + 1)]
  BY MsAssumption DEF MsTypeInv, MsTypeOK
<1>3. msCommitted' \in [MasterSet -> 0..(MsTrx + 1)]
  BY <1>1, <1>2
<1>4. MsTypeOK'
  BY <1>1, <1>3 DEF MsTypeInv, MsTypeOK
<1>5. \A n : IsSetUp(n)' <=> IsSetUp(n)
  BY <1>1 DEF IsSetUp, Current
<1>6. ASSUME NEW n \in MasterSet
      PROVE  msCommitted'[n] <= MsTrx + (IF IsSetUp(n)' THEN 1 ELSE 0)
  <2>1. msCommitted[n] <= MsTrx + (IF IsSetUp(n) THEN 1 ELSE 0)
    BY DEF MsTypeInv, SetupInv
  <2>2. msCommitted[n] \in Nat /\ msCommitted'[n] = (IF n = m THEN msCommitted[n] + 1 ELSE msCommitted[n])
    BY <1>1, <1>2
  <2> QED
    BY <1>1, <1>2, <1>5, <2>1, <2>2
<1> QED
  BY <1>1, <1>4, <1>6 DEF MsTypeInv, SetupInv

LEMMA FetchTypes == ASSUME MsTypeInv, FetchNext PROVE MsTypeInv'
<1>1. PICK n \in Sendable(msSource) :
        /\ relay' = Append(relay, <<msSource, n>>) /\ position' = n + 1
  BY DEF FetchNext
<1>2. /\ UNCHANGED <<msPhase, msConf, idx, firstRound, tries, msCommitted, msExecuted, msSource,
                     ioRuns, sqlRuns, masterUp>>
      /\ msSource \in MasterSet
  BY DEF FetchNext, MsEnv, MsTypeInv, MsTypeOK
<1>3. /\ MsTrx \in Nat /\ msCommitted[msSource] \in 0..(MsTrx + 1) /\ position \in 1..(MsTrx + 2)
      /\ relay \in Seq(MsTrxs) /\ Len(relay) \in Nat /\ Len(relay) < position
  BY <1>2, MsAssumption DEF MsTypeInv, MsTypeOK
<1>4. n \in 1..(MsTrx + 1) /\ position <= n
  BY <1>1, <1>3 DEF Sendable
<1>5. <<msSource, n>> \in MsTrxs
  BY <1>2, <1>4 DEF MsTrxs
<1>6. relay' \in Seq(MsTrxs) /\ Len(relay') = Len(relay) + 1
  BY <1>1, <1>3, <1>5
<1>7. Len(relay') <= MsTrx + 1 /\ position' \in 1..(MsTrx + 2) /\ Len(relay') < position'
  BY <1>1, <1>3, <1>4, <1>6
<1>8. MsTypeOK'
  BY <1>2, <1>6, <1>7 DEF MsTypeInv, MsTypeOK
<1>9. SetupInv'
  BY <1>2, SetUpStays DEF MsTypeInv, SetupInv
<1> QED
  BY <1>7, <1>8, <1>9 DEF MsTypeInv

LEMMA ApplyTypes == ASSUME MsTypeInv, ApplyRelay PROVE MsTypeInv'
<1>1. /\ msExecuted' = msExecuted \cup {Head(relay)} /\ relay' = Tail(relay) /\ relay # <<>>
      /\ UNCHANGED <<msPhase, msConf, idx, firstRound, tries, msCommitted, position, msSource,
                     ioRuns, sqlRuns, masterUp>>
  BY DEF ApplyRelay, MsEnv
<1>2. relay \in Seq(MsTrxs) /\ Len(relay) <= MsTrx + 1 /\ Len(relay) < position /\ position \in Nat
      /\ MsTrx \in Nat
  BY MsAssumption DEF MsTypeInv, MsTypeOK
<1>3. Head(relay) \in MsTrxs /\ relay' \in Seq(MsTrxs) /\ Len(relay') = Len(relay) - 1
      /\ Len(relay) \in Nat
  BY <1>1, <1>2
<1>4. Len(relay') <= MsTrx + 1 /\ Len(relay') < position
  BY <1>2, <1>3
<1>5. MsTypeOK'
  BY <1>1, <1>3, <1>4 DEF MsTypeInv, MsTypeOK
<1>6. SetupInv'
  BY <1>1, SetUpStays DEF MsTypeInv, SetupInv
<1> QED
  BY <1>1, <1>4, <1>5, <1>6 DEF MsTypeInv

LEMMA ChangeMasterTypes == ASSUME MsTypeInv, ChangeMaster PROVE MsTypeInv'
<1>1. /\ msPhase = "change" /\ msPhase' = "start" /\ msSource' = Current /\ relay' = <<>>
      /\ position' = (IF msConf.gtid THEN 1 ELSE msCommitted[Current] + 1)
      /\ UNCHANGED <<msConf, idx, firstRound, tries, msCommitted, msExecuted, ioRuns, sqlRuns,
                     masterUp>>
  BY DEF ChangeMaster, MsGoto
<1>2. Current \in MasterSet /\ MsTrx \in Nat /\ msCommitted[Current] \in 0..(MsTrx + 1)
  BY MsAssumption DEF MsTypeInv, MsTypeOK, Current, MasterSet
<1>3. relay' \in Seq(MsTrxs) /\ Len(relay') = 0 /\ position' \in 1..(MsTrx + 2)
  BY <1>1, <1>2
<1>4. MsTypeOK'
  BY <1>1, <1>2, <1>3 DEF MsTypeInv, MsTypeOK, MsPhases
<1>5. SetupInv'
  BY <1>1, SetUpStays DEF MsTypeInv, SetupInv
<1> QED
  BY <1>3, <1>4, <1>5 DEF MsTypeInv

\* The other steps of run(): the servers' data stays as it is.
LEMMA OtherTypes ==
  ASSUME MsTypeInv,
         StopOldMaster \/ StartNewMaster \/ PollSlave \/ CheckTopology \/ ReportHealth
           \/ StopReplication \/ (\E from \in {"setup", "change", "topology"} : MsAbort(from))
           \/ (\E m \in MasterSet : MasterCrash(m)) \/ UNCHANGED msVars
  PROVE  MsTypeInv'
<1> USE MsAssumption DEF MsGoto, MsEnv, msServers
<1>1. /\ UNCHANGED <<msConf, idx, firstRound, msCommitted, msExecuted, relay, position, msSource>>
      /\ msPhase' \in MsPhases /\ tries' \in 0..SetupTries
      /\ {ioRuns', sqlRuns'} \subseteq BOOLEAN /\ masterUp' \in [MasterSet -> BOOLEAN]
      /\ msPhase' = "setup" => firstRound
      /\ msPhase \notin {"switch", "setup"} => msPhase' \notin {"switch", "setup"}
  <2> USE DEF MsTypeInv, MsTypeOK, SetupInv, MsPhases
  <2>1. CASE StopOldMaster
    BY <2>1 DEF StopOldMaster
  <2>2. CASE StartNewMaster
    BY <2>2 DEF StartNewMaster
  <2>3. CASE PollSlave
    BY <2>3 DEF PollSlave
  <2>4. CASE CheckTopology
    BY <2>4 DEF CheckTopology
  <2>5. CASE ReportHealth
    BY <2>5 DEF ReportHealth
  <2>6. CASE StopReplication
    BY <2>6 DEF StopReplication
  <2>7. CASE \E from \in {"setup", "change", "topology"} : MsAbort(from)
    BY <2>7 DEF MsAbort
  <2>8. CASE \E m \in MasterSet : MasterCrash(m)
    BY <2>8 DEF MasterCrash
  <2>9. CASE UNCHANGED msVars
    BY <2>9 DEF msVars
  <2> QED
    BY <2>1, <2>2, <2>3, <2>4, <2>5, <2>6, <2>7, <2>8, <2>9
<1>2. MsTypeOK'
  BY <1>1 DEF MsTypeInv, MsTypeOK
<1>3. SetupInv'
  BY <1>1, SetUpStays
<1> QED
  BY <1>1, <1>2, <1>3 DEF MsTypeInv

LEMMA MsTypeKept == ASSUME MsTypeInv, [MsNext]_msVars PROVE MsTypeInv'
<1>1. CASE SetUpUser
  BY <1>1, SetUpUserTypes
<1>2. CASE ChangeMaster
  BY <1>2, ChangeMasterTypes
<1>3. CASE EndSlice
  BY <1>3, EndSliceTypes
<1>4. CASE FetchNext
  BY <1>4, FetchTypes
<1>5. CASE ApplyRelay
  BY <1>5, ApplyTypes
<1>6. CASE \E m \in MasterSet : CommitOn(m)
  BY <1>6, CommitTypes
<1>7. CASE \/ StopOldMaster \/ StartNewMaster \/ PollSlave \/ CheckTopology \/ ReportHealth
           \/ StopReplication \/ (\E from \in {"setup", "change", "topology"} : MsAbort(from))
           \/ (\E m \in MasterSet : MasterCrash(m)) \/ UNCHANGED msVars
  BY <1>7, OtherTypes
<1> QED
  BY <1>1, <1>2, <1>3, <1>4, <1>5, <1>6, <1>7 DEF MsNext, MsStep, MsThreads

\* However many masters the list has, and though one may stand in it twice: a
\* master gets at most one transaction from the set-ups, and the relay log never
\* holds more than what lies behind the IO thread's position.
THEOREM MsTypeCorrect == MsSpec => []MsTypeOK
<1>1. MsTypeInv /\ [MsNext]_msVars => MsTypeInv'
  BY MsTypeKept
<1>2. MsTypeInv => MsTypeOK
  BY DEF MsTypeInv
<1> QED
  BY <1>1, <1>2, MsTypeInitially, PTL DEF MsSpec

----------------------------------------------------------------------------
(***************************************************************************)
(* For every list of slaves, of uuids, and every set to skip: what           *)
(* skip_slaves_trx has still to inject on a slave makes up for what the      *)
(* slave misses of the given set, whatever it applies meanwhile; and the     *)
(* search, wherever its two loops are, has added what only one slave has.    *)
(***************************************************************************)
\* How far the subtraction is.
CountInv ==
  /\ etPhase = "watch" => subtracted = 0
  /\ etPhase = "subtract" => subtracted < Len(EtSlaves)
  /\ etPhase \in {"skip", "skipped"} => subtracted = Len(EtSlaves)

\* What the tool has still to do, and what is done.
Subtracted(s) == \E j \in 1..subtracted : EtSlaves[j] = s
SkipInv ==
  ~dryRun => \A s \in EtSet : Subtracted(s) /\ up[s] => given \subseteq gtidSet[s] \cup toSkip[s]
DoneInv == etPhase = "skipped" => \A s \in EtSet : toSkip[s] = {}

\* A search begun when all is skipped has added nothing of what was given.
NotFoundInv ==
  /\ since = "skipped" => etPhase = "skipped"
  /\ since = "skipped" /\ ~dryRun =>
       slaveSet \cap given = {} /\ \A s \in EtSet : report[s] \cap given = {}

\* The slaves that the search has passed, and the one that it is at.
Passed(s) == \E j \in DOMAIN EtSlaves : EtSlaves[j] = s /\ (etAt = 0 \/ j < etAt)
Compared(s) ==
  \E j \in DOMAIN EtSlaves : j < etOther /\ EtSlaves[j] # s /\ up[EtSlaves[j]]
FoundInv ==
  since = "watch" /\ etPhase = "watch" =>
    \A s \in EtSet, t \in Gtids : LoneBeforeMaster(s, t) =>
      /\ Passed(s) => t \in report[s]
      /\ etAt # 0 /\ etOther # 0 /\ EtSlaves[etAt] = s =>
           t \in tnxSet /\ (Compared(s) => t \in slaveSet)

\* Nothing of a search is left when it has gone on to a slave.
IdleInv == (etAt = 0 => etOther = 0) /\ (etOther = 0 => slaveSet = {})

EtInv ==
  EtTypeOK /\ CountInv /\ SkipInv /\ DoneInv /\ NotFoundInv /\ FoundInv /\ IdleInv

----------------------------------------------------------------------------
LEMMA EtSlavesFact ==
  /\ Len(EtSlaves) \in Nat \ {0} /\ DOMAIN EtSlaves = 1..Len(EtSlaves)
  /\ \A i \in DOMAIN EtSlaves : EtSlaves[i] \in EtSet
  /\ \A s \in EtSet : \E i \in DOMAIN EtSlaves : EtSlaves[i] = s
BY EtAssumption DEF EtSet

LEMMA UuidsFact == \A i \in DOMAIN Uuids : i \in Nat \ {0}
BY EtAssumption DEF UuidSet

\* A transaction that comes before the master's in the text is in what a
\* comparison adds, when the other slave has it not.
LEMMA AddedByComparison ==
  ASSUME NEW s \in EtSet, NEW t \in Gtids, LoneBeforeMaster(s, t), t \in tnxSet,
         NEW r \in EtSet \ {s}
  PROVE  t \in ErrantSet(r)
<1> DEFINE diff == tnxSet \ gtidSet[r]
<1>1. t \in diff
  BY DEF LoneBeforeMaster
<1>2. PICK k \in DOMAIN Uuids :
        Uuids[k] = t[1] /\ \A m \in DOMAIN Uuids : Uuids[m] = MasterUuid => k < m
  BY DEF LoneBeforeMaster
<1>3. ASSUME NEW i \in DOMAIN Uuids, Uuids[i] = MasterUuid,
             \A u \in diff : \A j \in 1..(i - 1) : u[1] # Uuids[j]
      PROVE  FALSE
  <2>1. k < i /\ k \in Nat \ {0} /\ i \in Nat
    BY <1>2, <1>3, UuidsFact
  <2>2. k \in 1..(i - 1)
    BY <2>1
  <2> QED
    BY <1>1, <1>2, <1>3, <2>2
<1>4. ~StartsWithMaster(diff)
  BY <1>3 DEF StartsWithMaster
<1> QED
  BY <1>1, <1>4 DEF ErrantSet

LEMMA EtInitially ==
  ASSUME EtInit PROVE EtInv
<1>1. EtTypeOK
  BY EtAssumption, EtSlavesFact DEF EtInit, EtTypeOK
<1>2. CountInv /\ SkipInv /\ DoneInv /\ NotFoundInv /\ FoundInv /\ IdleInv
  BY DEF EtInit, CountInv, SkipInv, DoneInv, NotFoundInv, FoundInv, IdleInv, Subtracted
<1> QED
  BY <1>1, <1>2 DEF EtInv

----------------------------------------------------------------------------
LEMMA StartStep ==
  ASSUME EtInv, NEW set \in SUBSET Gtids, StartSkip(set) PROVE EtInv'
<1>1. EtTypeOK'
  BY DEF EtInv, EtTypeOK, StartSkip, serverVars, searchVars
<1>2. CountInv'
  BY EtSlavesFact DEF EtInv, EtTypeOK, CountInv, StartSkip
<1>3. subtracted' = 0
  BY DEF EtInv, CountInv, StartSkip
<1>4. SkipInv' /\ DoneInv'
  BY <1>3 DEF SkipInv, Subtracted, DoneInv, StartSkip
<1>5. NotFoundInv'
  BY DEF EtInv, NotFoundInv, StartSkip, searchVars
<1>6. FoundInv' /\ IdleInv'
  BY DEF EtInv, FoundInv, IdleInv, StartSkip, searchVars
<1> QED
  BY <1>1, <1>2, <1>4, <1>5, <1>6 DEF EtInv

LEMMA SubtractStep ==
  ASSUME EtInv, Subtract PROVE EtInv'
<1> DEFINE s == EtSlaves[subtracted']
<1>1. /\ subtracted' = subtracted + 1 /\ subtracted \in Nat
      /\ subtracted' \in DOMAIN EtSlaves /\ s \in EtSet
  <2>1. subtracted \in 0..Len(EtSlaves) /\ subtracted < Len(EtSlaves)
    BY DEF EtInv, EtTypeOK, CountInv, Subtract
  <2>2. subtracted' = subtracted + 1
    BY DEF Subtract
  <2> QED
    BY <2>1, <2>2, EtSlavesFact
<1>2. /\ toSkip' = [toSkip EXCEPT ![s] = IF up[s] THEN given \ gtidSet[s] ELSE {}]
      /\ etPhase = "subtract"
      /\ etPhase' = IF subtracted' = Len(EtSlaves) THEN "skip" ELSE "subtract"
      /\ UNCHANGED <<gtidSet, up, etAt, etOther, tnxSet, slaveSet, report, since, given, dryRun>>
  BY DEF Subtract, serverVars, searchVars
<1>3. EtTypeOK'
  <2>1. subtracted' \in 0..Len(EtSlaves)
    BY <1>1, EtSlavesFact
  <2>2. (IF up[s] THEN given \ gtidSet[s] ELSE {}) \in SUBSET Gtids
    BY DEF EtInv, EtTypeOK
  <2>3. toSkip' \in [EtSet -> SUBSET Gtids]
    BY <1>1, <1>2, <2>2 DEF EtInv, EtTypeOK
  <2>4. etPhase' \in {"subtract", "skip"}
    BY <1>2
  <2> HIDE DEF s
  <2> QED
    BY <1>2, <2>1, <2>3, <2>4 DEF EtInv, EtTypeOK
<1>4. CountInv'
  <2>1. subtracted' \in 1..Len(EtSlaves) /\ Len(EtSlaves) \in Nat
    BY <1>1, EtSlavesFact
  <2>2. subtracted' # Len(EtSlaves) => subtracted' < Len(EtSlaves)
    BY <2>1
  <2> QED
    BY <1>2, <2>2 DEF CountInv
<1>5. SkipInv'
  <2> SUFFICES ASSUME ~dryRun, NEW r \in EtSet, Subtracted(r)', up[r]
               PROVE  given \subseteq gtidSet[r] \cup toSkip'[r]
    BY <1>2 DEF SkipInv
  <2>1. toSkip \in [EtSet -> SUBSET Gtids]
    BY DEF EtInv, EtTypeOK
  <2>2. CASE r = s
    BY <1>1, <1>2, <2>1, <2>2
  <2>3. CASE r # s
    <3>1. Subtracted(r)
      BY <1>1, <2>3 DEF Subtracted
    <3>2. toSkip'[r] = toSkip[r]
      BY <1>2, <2>1, <2>3
    <3> QED
      BY <3>1, <3>2 DEF EtInv, SkipInv
  <2> QED
    BY <2>2, <2>3
<1>6. DoneInv' /\ NotFoundInv' /\ FoundInv' /\ IdleInv'
  BY <1>2 DEF EtInv, DoneInv, NotFoundInv, FoundInv, IdleInv
<1> QED
  BY <1>3, <1>4, <1>5, <1>6 DEF EtInv

LEMMA InjectStep ==
  ASSUME EtInv, NEW s \in EtSet, NEW t \in Gtids, InjectEmptyTrx(s, t)
  PROVE  EtInv'
<1>1. /\ etPhase = "skip" /\ toSkip' = [toSkip EXCEPT ![s] = @ \ {t}]
      /\ gtidSet' = IF dryRun THEN gtidSet ELSE [gtidSet EXCEPT ![s] = @ \cup {t}]
      /\ UNCHANGED <<up, etAt, etOther, tnxSet, slaveSet, report, since, etPhase, given,
                     subtracted, dryRun>>
  BY DEF InjectEmptyTrx, searchVars
<1>2. EtTypeOK'
  BY <1>1 DEF EtInv, EtTypeOK
<1>3. SkipInv'
  BY <1>1 DEF EtInv, EtTypeOK, SkipInv, Subtracted
<1>4. CountInv' /\ DoneInv' /\ NotFoundInv' /\ FoundInv' /\ IdleInv'
  BY <1>1 DEF EtInv, CountInv, DoneInv, NotFoundInv, FoundInv, IdleInv
<1> QED
  BY <1>2, <1>3, <1>4 DEF EtInv

LEMMA SkipDoneStep ==
  ASSUME EtInv, SkipDone PROVE EtInv'
<1>1. /\ etPhase = "skip" /\ etPhase' = "skipped" /\ \A s \in EtSet : toSkip[s] = {}
      /\ UNCHANGED <<gtidSet, up, etAt, etOther, tnxSet, slaveSet, report, since, given,
                     toSkip, subtracted, dryRun>>
  BY DEF SkipDone, serverVars, searchVars
<1>2. EtTypeOK'
  BY <1>1 DEF EtInv, EtTypeOK
<1>3. CountInv' /\ SkipInv' /\ DoneInv' /\ NotFoundInv' /\ FoundInv' /\ IdleInv'
  BY <1>1 DEF EtInv, CountInv, SkipInv, Subtracted, DoneInv, NotFoundInv, FoundInv, IdleInv
<1> QED
  BY <1>2, <1>3 DEF EtInv

----------------------------------------------------------------------------
\* The servers only add to what is executed, never what comes before the
\* master's in the text, and never answer again.
LEMMA ServerStep ==
  ASSUME EtInv, NEW s \in EtSet, ApplyMasters(s) \/ LoseSlave(s)
  PROVE  EtInv'
<1> DEFINE t == <<MasterUuid, Cardinality({u \in gtidSet[s] : u[1] = MasterUuid}) + 1>>
<1>1. UNCHANGED <<etAt, etOther, tnxSet, slaveSet, report, since, etPhase, given, toSkip,
                  subtracted, dryRun>>
  BY DEF ApplyMasters, LoseSlave, searchVars, skipVars
<1>2. /\ gtidSet' \in [EtSet -> SUBSET Gtids] /\ up' \in [EtSet -> BOOLEAN]
      /\ \A r \in EtSet : gtidSet[r] \subseteq gtidSet'[r] /\ (up'[r] => up[r])
      /\ \A r \in EtSet : \A u \in gtidSet'[r] \ gtidSet[r] : u[1] = MasterUuid
  <2>1. CASE ApplyMasters(s)
    <3>1. t[1] = MasterUuid
      OBVIOUS
    <3>2. t \in Gtids /\ gtidSet' = [gtidSet EXCEPT ![s] = @ \cup {t}] /\ up' = up
      BY <2>1 DEF ApplyMasters
    <3> HIDE DEF t
    <3> QED
      BY <3>1, <3>2 DEF EtInv, EtTypeOK
  <2>2. CASE LoseSlave(s)
    BY <2>2 DEF LoseSlave, EtInv, EtTypeOK
  <2> QED
    BY <2>1, <2>2
<1> HIDE DEF t
<1>3. EtTypeOK'
  BY <1>1, <1>2 DEF EtInv, EtTypeOK
<1>4. CountInv' /\ DoneInv' /\ NotFoundInv' /\ IdleInv'
  BY <1>1 DEF EtInv, CountInv, DoneInv, NotFoundInv, IdleInv
<1>5. SkipInv'
  <2> SUFFICES ASSUME ~dryRun, NEW r \in EtSet, Subtracted(r), up'[r]
               PROVE  given \subseteq gtidSet'[r] \cup toSkip[r]
    BY <1>1 DEF SkipInv, Subtracted
  <2> QED
    BY <1>2 DEF EtInv, SkipInv
<1>6. ASSUME NEW r \in EtSet, NEW u \in Gtids, LoneBeforeMaster(r, u)'
      PROVE  LoneBeforeMaster(r, u)
  <2>1. u[1] # MasterUuid
    <3>1. PICK k \in DOMAIN Uuids :
            Uuids[k] = u[1] /\ \A m \in DOMAIN Uuids : Uuids[m] = MasterUuid => k < m
      BY <1>6 DEF LoneBeforeMaster
    <3>2. k \in Nat
      BY UuidsFact
    <3> QED
      BY <3>1, <3>2
  <2>2. u \in gtidSet[r]
    BY <1>2, <1>6, <2>1 DEF LoneBeforeMaster
  <2> QED
    BY <1>2, <1>6, <2>2 DEF LoneBeforeMaster
<1>7. FoundInv'
  <2> SUFFICES ASSUME since = "watch", etPhase = "watch", NEW r \in EtSet, NEW u \in Gtids,
                      LoneBeforeMaster(r, u)'
               PROVE  /\ Passed(r)' => u \in report[r]
                      /\ etAt # 0 /\ etOther # 0 /\ EtSlaves[etAt] = r =>
                           u \in tnxSet /\ (Compared(r)' => u \in slaveSet)
    BY <1>1 DEF FoundInv
  <2>1. LoneBeforeMaster(r, u)
    BY <1>6
  <2>2. Passed(r)' = Passed(r)
    BY <1>1 DEF Passed
  <2>3. Compared(r)' => Compared(r)
    BY <1>1, <1>2, EtSlavesFact DEF Compared
  <2> QED
    BY <2>1, <2>2, <2>3 DEF EtInv, FoundInv
<1> QED
  BY <1>3, <1>4, <1>5, <1>7 DEF EtInv

----------------------------------------------------------------------------
\* The steps of the search leave the slaves and mysqlslavetrx as they are.
LEMMA SearchFrame ==
  ASSUME EtInv, UNCHANGED <<serverVars, skipVars>>
  PROVE  /\ CountInv' /\ SkipInv' /\ DoneInv'
         /\ \A s \in EtSet, t \in Gtids : LoneBeforeMaster(s, t)' = LoneBeforeMaster(s, t)
BY DEF EtInv, CountInv, SkipInv, Subtracted, DoneInv, LoneBeforeMaster, serverVars, skipVars

\* The slave that the search goes to next, and those it has then passed.
LEMMA NextSlaveIs ==
  ASSUME EtTypeOK, etAt # 0, NextSlave
  PROVE  /\ etAt' \in 0..Len(EtSlaves)
         /\ \A s \in EtSet : Passed(s)' => Passed(s) \/ s = EtSlaves[etAt]
<1>1. etAt \in 1..Len(EtSlaves) /\ Len(EtSlaves) \in Nat
  BY EtSlavesFact DEF EtTypeOK
<1>2. \/ etAt = Len(EtSlaves) /\ etAt' = 0
      \/ etAt < Len(EtSlaves) /\ etAt' = etAt + 1
  BY <1>1 DEF NextSlave
<1>3. ASSUME NEW j \in DOMAIN EtSlaves, etAt' = 0 \/ j < etAt'
      PROVE  j < etAt \/ j = etAt
  <2>1. j \in 1..Len(EtSlaves)
    BY EtSlavesFact
  <2> QED
    BY <1>1, <1>2, <1>3, <2>1
<1>4. ASSUME NEW s \in EtSet, Passed(s)'
      PROVE  Passed(s) \/ s = EtSlaves[etAt]
  <2>1. PICK j \in DOMAIN EtSlaves : EtSlaves[j] = s /\ (etAt' = 0 \/ j < etAt')
    BY <1>4 DEF Passed
  <2> QED
    BY <1>3, <2>1 DEF Passed
<1> QED
  BY <1>1, <1>2, <1>4

LEMMA BeginStep ==
  ASSUME EtInv, BeginSearch PROVE EtInv'
<1>1. /\ etAt' = 1 /\ etOther' = 0 /\ since' = etPhase /\ etAt = 0
      /\ report' = [s \in EtSet |-> {}]
      /\ UNCHANGED <<serverVars, skipVars, tnxSet, slaveSet>>
  BY DEF BeginSearch
<1>2. EtTypeOK'
  BY <1>1, EtSlavesFact DEF EtInv, EtTypeOK, serverVars, skipVars
<1>3. slaveSet' = {}
  BY <1>1 DEF EtInv, IdleInv
<1>4. NotFoundInv'
  BY <1>1, <1>3 DEF NotFoundInv, skipVars
<1>5. \A s \in EtSet : ~Passed(s)'
  BY <1>1, EtSlavesFact DEF Passed
<1>6. FoundInv' /\ IdleInv'
  BY <1>1, <1>3, <1>5 DEF FoundInv, IdleInv
<1> QED
  BY <1>1, <1>2, <1>4, <1>6, SearchFrame DEF EtInv

LEMMA ReadStep ==
  ASSUME EtInv, ReadSlave PROVE EtInv'
<1> DEFINE s == EtSlaves[etAt]
<1>1. /\ etAt # 0 /\ etOther = 0 /\ UNCHANGED <<serverVars, skipVars, report, since>>
      /\ \/ up[s] /\ tnxSet' = gtidSet[s] /\ slaveSet' = {} /\ etOther' = 1 /\ etAt' = etAt
         \/ ~up[s] /\ NextSlave /\ UNCHANGED <<tnxSet, slaveSet, etOther>>
  BY DEF ReadSlave
<1>2. etAt \in DOMAIN EtSlaves /\ s \in EtSet
  BY <1>1, EtSlavesFact DEF EtInv, EtTypeOK
<1>3. CASE up[s] /\ tnxSet' = gtidSet[s] /\ slaveSet' = {} /\ etOther' = 1 /\ etAt' = etAt
  <2>1. EtTypeOK' /\ NotFoundInv' /\ IdleInv'
    BY <1>1, <1>2, <1>3, EtSlavesFact
    DEF EtInv, EtTypeOK, NotFoundInv, IdleInv, serverVars, skipVars
  <2>2. \A r : ~Compared(r)' /\ Passed(r)' = Passed(r)
    BY <1>3, EtSlavesFact DEF Compared, Passed
  <2>3. FoundInv'
    BY <1>1, <1>3, <2>2, SearchFrame DEF EtInv, FoundInv, skipVars, LoneBeforeMaster
  <2> QED
    BY <1>1, <2>1, <2>3, SearchFrame DEF EtInv
<1>4. CASE ~up[s] /\ NextSlave /\ UNCHANGED <<tnxSet, slaveSet, etOther>>
  <2>1. EtTypeOK' /\ NotFoundInv' /\ IdleInv'
    BY <1>1, <1>4, NextSlaveIs DEF EtInv, EtTypeOK, NotFoundInv, IdleInv, serverVars, skipVars
  <2>2. \A t \in Gtids : ~LoneBeforeMaster(s, t)
    BY <1>4 DEF LoneBeforeMaster
  <2>3. FoundInv'
    BY <1>1, <1>4, <2>2, NextSlaveIs, SearchFrame DEF EtInv, FoundInv, skipVars
  <2> QED
    BY <1>1, <2>1, <2>3, SearchFrame DEF EtInv
<1> QED
  BY <1>1, <1>3, <1>4

LEMMA CompareStep ==
  ASSUME EtInv, CompareOther PROVE EtInv'
<1> DEFINE s == EtSlaves[etAt]
           r == EtSlaves[etOther]
           skips == r = s \/ ~up[r]
<1>1. /\ etAt # 0 /\ etOther \in DOMAIN EtSlaves
      /\ UNCHANGED <<serverVars, skipVars, etAt, tnxSet, report, since>>
      /\ skips => etOther' = etOther + 1 /\ slaveSet' = slaveSet
      /\ ~skips => /\ etOther' = IF ErrantSet(r) = {} THEN Len(EtSlaves) + 1 ELSE etOther + 1
                   /\ slaveSet' = slaveSet \cup ErrantSet(r)
  BY DEF CompareOther
<1>2. r \in EtSet /\ etOther' \in 1..(Len(EtSlaves) + 1)
  BY <1>1, EtSlavesFact
<1>3. ErrantSet(r) \subseteq tnxSet \ gtidSet[r]
  BY DEF ErrantSet
<1>4. EtTypeOK' /\ IdleInv'
  BY <1>1, <1>2, <1>3, EtSlavesFact DEF EtInv, EtTypeOK, IdleInv, serverVars, skipVars
<1>5. NotFoundInv'
  <2> SUFFICES ASSUME since = "skipped", ~dryRun, ~skips PROVE ErrantSet(r) \cap given = {}
    BY <1>1 DEF EtInv, NotFoundInv, skipVars
  <2>1. Subtracted(r) /\ toSkip[r] = {}
    BY <1>1, <1>2, EtSlavesFact DEF EtInv, NotFoundInv, CountInv, DoneInv, Subtracted
  <2> QED
    BY <1>2, <1>3, <2>1 DEF EtInv, SkipInv
<1>6. FoundInv'
  <2> SUFFICES ASSUME since = "watch", etPhase = "watch", NEW t \in Gtids,
                      s \in EtSet, LoneBeforeMaster(s, t)
               PROVE  t \in tnxSet /\ (Compared(s)' => t \in slaveSet')
    <3>1. \A q : Passed(q)' = Passed(q)
      BY <1>1 DEF Passed
    <3>2. etAt' = etAt /\ tnxSet' = tnxSet /\ report' = report /\ since' = since
          /\ etPhase' = etPhase
      BY <1>1 DEF skipVars
    <3> QED
      BY <1>1, <3>1, <3>2, SearchFrame DEF EtInv, FoundInv
  <2>1. t \in tnxSet /\ (Compared(s) => t \in slaveSet)
    BY <1>1, EtSlavesFact DEF EtInv, FoundInv
  <2>2. CASE skips
    <3>1. Compared(s)' => Compared(s)
      BY <1>1, <1>2, <2>2, EtSlavesFact DEF Compared, serverVars
    <3> QED
      BY <1>1, <2>1, <2>2, <3>1
  <2>3. CASE ~skips
    <3>1. t \in ErrantSet(r)
      BY <1>2, <2>1, <2>3, AddedByComparison
    <3> QED
      BY <1>1, <2>1, <2>3, <3>1
  <2> QED
    BY <2>2, <2>3
<1> QED
  BY <1>1, <1>4, <1>5, <1>6, SearchFrame DEF EtInv

LEMMA StoreStep ==
  ASSUME EtInv, StoreResult PROVE EtInv'
<1> DEFINE s == EtSlaves[etAt]
<1>1. /\ etAt # 0 /\ etOther = Len(EtSlaves) + 1
      /\ report' = [report EXCEPT ![s] = slaveSet]
      /\ NextSlave /\ etOther' = 0 /\ tnxSet' = {} /\ slaveSet' = {}
      /\ UNCHANGED <<serverVars, skipVars, since>>
  BY DEF StoreResult
<1>2. etAt \in DOMAIN EtSlaves /\ s \in EtSet
  BY <1>1, EtSlavesFact DEF EtInv, EtTypeOK
<1>3. report \in [EtSet -> SUBSET Gtids]
  BY DEF EtInv, EtTypeOK
<1>4. EtTypeOK' /\ NotFoundInv' /\ IdleInv'
  BY <1>1, <1>2, <1>3, NextSlaveIs, EtSlavesFact
  DEF EtInv, EtTypeOK, NotFoundInv, IdleInv, serverVars, skipVars
<1>5. FoundInv'
  <2> SUFFICES ASSUME since = "watch", etPhase = "watch", NEW q \in EtSet, NEW t \in Gtids,
                      LoneBeforeMaster(q, t), Passed(q)'
               PROVE  t \in report'[q]
    BY <1>1, SearchFrame DEF FoundInv, skipVars
  <2>1. CASE q = s
    <3>1. PICK p \in EtSet \ {s} : up[p]
      BY <2>1 DEF LoneBeforeMaster
    <3>2. Compared(s)
      BY <1>1, <3>1, EtSlavesFact DEF Compared
    <3>3. t \in slaveSet
      BY <1>1, <1>2, <2>1, <3>2, EtSlavesFact DEF EtInv, FoundInv
    <3> QED
      BY <1>1, <1>2, <1>3, <2>1, <3>3
  <2>2. CASE q # s
    <3>1. Passed(q)
      BY <1>1, <2>2, NextSlaveIs DEF EtInv
    <3>2. t \in report[q]
      BY <3>1 DEF EtInv, FoundInv
    <3> QED
      BY <1>1, <1>2, <1>3, <2>2, <3>2
  <2> QED
    BY <2>1, <2>2
<1> QED
  BY <1>1, <1>4, <1>5, SearchFrame DEF EtInv

LEMMA EtStep ==
  ASSUME EtInv, [EtNext]_etVars PROVE EtInv'
<1>1. CASE BeginSearch \/ ReadSlave \/ CompareOther \/ StoreResult
  BY <1>1, BeginStep, ReadStep, CompareStep, StoreStep
<1>2. CASE Subtract \/ SkipDone
  BY <1>2, SubtractStep, SkipDoneStep
<1>3. CASE StartSkip(UNION {report[s] : s \in EtSet})
  <2>1. UNION {report[s] : s \in EtSet} \in SUBSET Gtids
    BY DEF EtInv, EtTypeOK
  <2> QED
    BY <1>3, <2>1, StartStep
<1>4. CASE \E set \in EtGiven : StartSkip(set)
  BY <1>4, StartStep, EtAssumption
<1>5. CASE \E s \in EtSet : \/ ApplyMasters(s) \/ LoseSlave(s)
                            \/ \E t \in Gtids : InjectEmptyTrx(s, t)
  BY <1>5, ServerStep, InjectStep
<1>6. CASE UNCHANGED etVars
  <2>1. UNCHANGED <<serverVars, skipVars, etAt, etOther, tnxSet, slaveSet, report, since>>
    BY <1>6 DEF etVars, searchVars
  <2>2. EtTypeOK' /\ NotFoundInv' /\ IdleInv'
    BY <2>1 DEF EtInv, EtTypeOK, NotFoundInv, IdleInv, serverVars, skipVars
  <2>3. \A s : Passed(s)' = Passed(s) /\ Compared(s)' = Compared(s)
    BY <2>1 DEF Passed, Compared, serverVars
  <2>4. FoundInv'
    BY <2>1, <2>3, SearchFrame DEF EtInv, FoundInv, skipVars
  <2> QED
    BY <2>1, <2>2, <2>4, SearchFrame DEF EtInv
<1> QED
  BY <1>1, <1>2, <1>3, <1>4, <1>5, <1>6 DEF EtNext

----------------------------------------------------------------------------
LEMMA EtInvImplies == EtInv => SkippedOnAll /\ FoundUntilSkipped
<1> SUFFICES ASSUME EtInv PROVE SkippedOnAll /\ FoundUntilSkipped
  OBVIOUS
<1>1. SkippedOnAll
  BY EtSlavesFact DEF EtInv, CountInv, SkipInv, Subtracted, DoneInv, SkippedOnAll, EtTypeOK
<1>2. FoundBeforeSkip
  BY EtSlavesFact DEF EtInv, FoundInv, Passed, FoundBeforeSkip
<1>3. NotFoundAfterSkip
  BY DEF EtInv, NotFoundInv, NotFoundAfterSkip
<1> QED
  BY <1>1, <1>2, <1>3 DEF FoundUntilSkipped

LEMMA EtInvariance == EtSpec => []EtInv
<1>1. EtInit => EtInv
  BY EtInitially
<1>2. EtInv /\ [EtNext]_etVars => EtInv'
  BY EtStep
<1> QED
  BY <1>1, <1>2, PTL DEF EtSpec

\* After mysqlslavetrx every slave that answers has each GTID it was given.
THEOREM SkippedEverywhere == EtSpec => []SkippedOnAll
BY EtInvariance, EtInvImplies, PTL

\* The search finds what one slave only has and sorts before the master's,
\* however the slaves apply and fail while they are asked one after another;
\* and what mysqlslavetrx skipped no later search finds.
THEOREM LoneTransactionsFound == EtSpec => []FoundUntilSkipped
BY EtInvariance, EtInvImplies, PTL

----------------------------------------------------------------------------
(***************************************************************************)
(* One of the tools runs and the others stand where they begin: every step   *)
(* is one of that tool, and a stutter of the others.                         *)
(***************************************************************************)
RtInv ==
  /\ tool \in {"sync", "multiSource", "errant", "syncPoint"}
  /\ SyncTypeOK /\ CheckInv /\ MsTypeInv /\ MsInv /\ EtInv /\ GsInv

LEMMA RtInitially == RtInit => RtInv
<1> SUFFICES ASSUME RtInit PROVE RtInv
  OBVIOUS
<1>1. SyncInit /\ MsInit /\ EtInit /\ GsInit
  BY DEF RtInit, SyncIdle, MsIdleTool, EtIdle, GsIdle
<1>2. tool \in {"sync", "multiSource", "errant", "syncPoint"}
  BY DEF RtInit
<1>3. SyncTypeOK /\ CheckInv
  BY <1>1, SyncInitially
<1>4. MsTypeInv /\ MsInv
  BY <1>1, MsTypeInitially, MsInitially
<1>5. EtInv /\ GsInv
  BY <1>1, EtInitially, GsInitially
<1> QED
  BY <1>2, <1>3, <1>4, <1>5 DEF RtInv

LEMMA RtStep ==
  [RtNext]_rtVars => /\ [SyncNext]_syncVars /\ [MsNext]_msVars
                     /\ [EtNext]_etVars /\ [GsNext]_gsVars /\ tool' = tool
<1> SUFFICES ASSUME [RtNext]_rtVars
             PROVE  /\ [SyncNext]_syncVars /\ [MsNext]_msVars
                    /\ [EtNext]_etVars /\ [GsNext]_gsVars /\ tool' = tool
  OBVIOUS
<1>1. CASE SyncNext /\ UNCHANGED <<tool, msVars, etVars, gsVars>>
  BY <1>1
<1>2. CASE MsNext /\ UNCHANGED <<tool, syncVars, etVars, gsVars>>
  BY <1>2
<1>3. CASE EtNext /\ UNCHANGED <<tool, syncVars, msVars, gsVars>>
  BY <1>3
<1>4. CASE GsNext /\ UNCHANGED <<tool, syncVars, msVars, etVars>>
  BY <1>4
<1>5. CASE UNCHANGED rtVars
  BY <1>5 DEF rtVars
<1> QED
  BY <1>1, <1>2, <1>3, <1>4, <1>5 DEF RtNext

LEMMA RtInvKept == RtInv /\ [RtNext]_rtVars => RtInv'
<1> SUFFICES ASSUME RtInv, [RtNext]_rtVars PROVE RtInv'
  OBVIOUS
<1>1. /\ [SyncNext]_syncVars /\ [MsNext]_msVars /\ [EtNext]_etVars /\ [GsNext]_gsVars
      /\ tool' = tool
  BY RtStep
<1>2. (SyncTypeOK /\ CheckInv)'
  BY <1>1, CheckStep DEF RtInv
<1>3. MsTypeInv'
  BY <1>1, MsTypeKept DEF RtInv
<1>4. MsInv'
  BY <1>1, MsStepKeeps DEF RtInv
<1>5. EtInv'
  BY <1>1, EtStep DEF RtInv
<1>6. GsInv'
  BY <1>1, GsStepKeeps DEF RtInv
<1> QED
  BY <1>1, <1>2, <1>3, <1>4, <1>5, <1>6 DEF RtInv

LEMMA RtInvariance == RtSpec => []RtInv
BY RtInitially, RtInvKept, PTL DEF RtSpec

\* Whichever tool runs, the variables of all of them keep to their types.
THEOREM ReplToolsTypes == RtSpec => []TypeOK
<1>1. RtInv => TypeOK
  BY DEF RtInv, MsTypeInv, EtInv, GsInv, TypeOK
<1> QED
  BY <1>1, RtInvariance, PTL

\* And what is proved of each tool alone holds when one of them is run: nothing
\* is left locked or stopped, the slave of several masters has no gap, what
\* was to be skipped is skipped and found no more, and the synchronization point is exact.
THEOREM ReplToolsSafe ==
  RtSpec => [](NothingLeftBehind /\ NoGaps /\ SkippedOnAll /\ FoundUntilSkipped
               /\ SyncPointIsUnion)
<1>1. RtInv => NothingLeftBehind
  BY DEF RtInv, SyncTypeOK, CheckInv, PlaceInv, ThreadInv, NothingLeftBehind
<1>2. RtInv => NoGaps
  BY DEF RtInv, MsInv
<1>3. RtInv => SkippedOnAll /\ FoundUntilSkipped
  BY EtInvImplies DEF RtInv
<1>4. RtInv => SyncPointIsUnion
  BY DEF RtInv, GsInv, UnionInv, SyncPointIsUnion, Covered
<1> QED
  BY <1>1, <1>2, <1>3, <1>4, RtInvariance, PTL
=============================================================================
