--------------------------- MODULE ServerCopyProofs ---------------------------
(***************************************************************************)
(* For every set of tables, every call and every bound on the source's      *)
(* history: the tables of a complete copy that was locked, or read in one   *)
(* view, are of one point, and a locked export's GTIDs and coordinates are  *)
(* of that point.  While a lock is held the history stands still, so        *)
(* whatever has been read then was read Now.                                *)
(*                                                                          *)
(* The second part is about the order in which the copy creates views.      *)
(***************************************************************************)
EXTENDS ServerCopy, ViewOrder, FiniteSetTheorems, TLAPS

\* The places of the lock and of the data in the plan.
LockStep == CASE cpConf.kind = "export" -> 1
              [] cpConf.kind = "copy" -> 4
              [] cpConf.kind = "clone" /\ cpConf.locking = "lock-all" -> 3
              [] OTHER -> 2
DataStep == CASE cpConf.kind = "export" -> 5
              [] cpConf.kind = "copy" -> 6
              [] OTHER -> 4

Locking == LockKind \in {"flush", "lock-all"}
Held == cpStep \in (LockStep + 1)..(DataStep + 1)

\* What is read lies in the past.
PastInv == /\ view # NoPoint => view \in 0..Now
           /\ \A t \in Tables : data[t] # NoPoint => data[t] \in 0..Now

\* No table is read before its step, none is missing after it.
DataInv ==
  /\ cpStep \in 1..(DataStep - 1) => \A t \in Tables : data[t] = NoPoint
  /\ cpStep > DataStep => \A t \in Tables : data[t] # NoPoint

\* What has been read under a lock.
LockInv ==
  Locking /\ Held =>
    /\ srcLock # "none" /\ view \in {NoPoint, Now}
    /\ \A t \in Tables : data[t] \in {NoPoint, Now}

\* What has been read in one view.
ViewInv ==
  OneView /\ ~Locking /\ cpStep <= DataStep + 1 /\ cpStep > 0 =>
    \A t \in Tables : data[t] \in {NoPoint, view}

\* What a locked export has read.
ExportInv ==
  cpConf.kind = "export" /\ Locking =>
    /\ cpStep = 1 => gtids = NoPoint /\ coords = NoPoint
    /\ Held => gtids \in {NoPoint, Now} /\ coords \in {NoPoint, Now}
    /\ Held /\ cpStep >= 4 => gtids = Now
    /\ cpStep = DataStep + 2 =>
         \A t \in Tables : data[t] = gtids /\ coords \in {NoPoint, data[t]}

\* The tables of a copy that is complete.
EndInv ==
  cpStep = DataStep + 2 /\ (Locking \/ OneView) =>
    \E k \in 0..Now : \A t \in Tables : data[t] = k

CpInv ==
  /\ CpTypeOK /\ PastInv /\ DataInv /\ LockInv /\ ViewInv
  /\ ExportInv /\ EndInv

----------------------------------------------------------------------------
\* Where each step of a plan stands.
LEMMA PlanFacts ==
  ASSUME CpTypeOK
  PROVE  /\ cpConf \in CpCalls
         /\ LockStep \in 1..4 /\ DataStep \in 4..6 /\ LockStep < DataStep
         /\ Len(Plan) = DataStep + 1
         /\ cpConf.kind = "export" => LockStep = 1 /\ DataStep = 5
         /\ At("lock") => cpStep = LockStep
         /\ At("data") => cpStep = DataStep
         /\ At("end") => cpStep = DataStep + 1
         /\ \A x \in {"autoinc", "gtids", "coords", "objects"} :
              At(x) => cpStep \in 1..(DataStep - 1) \ {LockStep}
         /\ cpConf.kind = "export" /\ At("gtids") => cpStep = 3
         /\ cpConf.kind = "export" /\ At("coords") => cpStep = 2
         /\ cpConf.kind = "export" /\ cpStep = 3 => At("gtids")
<1>1. cpConf \in CpCalls
  BY CpAssumption DEF CpTypeOK
<1>2. CASE cpConf.kind = "export"
  <2>1. Plan = <<"lock", "coords", "gtids", "autoinc", "data", "end">>
    BY <1>2 DEF Plan
  <2> QED
    BY <1>1, <1>2, <2>1 DEF At, LockStep, DataStep
<1>3. CASE cpConf.kind = "copy"
  <2>1. Plan = <<"autoinc", "gtids", "coords", "lock", "objects", "data", "end">>
    BY <1>3 DEF Plan
  <2> QED
    BY <1>1, <1>3, <2>1 DEF At, LockStep, DataStep
<1>4. CASE cpConf.kind = "clone" /\ cpConf.locking = "lock-all"
  <2>1. Plan = <<"autoinc", "objects", "lock", "data", "end">>
    BY <1>4 DEF Plan
  <2> QED
    BY <1>1, <1>4, <2>1 DEF At, LockStep, DataStep
<1>5. CASE cpConf.kind = "clone" /\ cpConf.locking # "lock-all"
  <2>1. Plan = <<"autoinc", "lock", "objects", "data", "end">>
    BY <1>5 DEF Plan
  <2> QED
    BY <1>1, <1>5, <2>1 DEF At, LockStep, DataStep
<1> QED
  BY <1>1, <1>2, <1>3, <1>4, <1>5 DEF CpCalls

\* A call's plan does not change.
LEMMA SameCall ==
  ASSUME UNCHANGED cpConf
  PROVE  /\ Plan' = Plan /\ LockStep' = LockStep /\ DataStep' = DataStep
         /\ LockKind' = LockKind /\ Locking' = Locking /\ OneView' = OneView
BY DEF Plan, LockStep, DataStep, LockKind, Locking, OneView

LEMMA HistoryFacts ==
  ASSUME CpTypeOK PROVE Now \in Nat /\ NoPoint \notin Points /\ Points = 0..MaxHistory
BY CpAssumption DEF CpTypeOK, Now, Points

LEMMA CpInitially == CpInit => CpInv
<1> SUFFICES ASSUME CpInit PROVE CpInv
  OBVIOUS
<1>1. Now = 0 /\ history \in Seq(Tables)
  BY DEF CpInit, Now
<1>2. CpTypeOK
  <2>1. cpConf \in CpCalls /\ cpStep = 1
    BY CpAssumption DEF CpInit
  <2>2. Len(Plan) \in Nat
    BY <2>1 DEF Plan, CpCalls
  <2> QED
    BY <1>1, <2>1, <2>2, CpAssumption DEF CpInit, CpTypeOK, OptPoints, Points
<1> USE DEF CpInit
<1>3. PastInv /\ DataInv /\ LockInv /\ ViewInv /\ ExportInv /\ EndInv
  BY <1>1, <1>2, PlanFacts DEF PastInv, DataInv, LockInv, ViewInv, ExportInv, EndInv, Held
<1> QED
  BY <1>2, <1>3 DEF CpInv
----------------------------------------------------------------------------
\* Reading: everything but the tables; the view may open, or end.
Reading ==
  CheckAutoIncrement \/ ReadGtids \/ ReadCoordinates \/ CopyObjects

LEMMA ReadingStep ==
  ASSUME CpInv, Reading
  PROVE  CpInv'
<1> USE PlanFacts, HistoryFacts DEF CpInv
<1>1. /\ cpStep' = cpStep + 1 /\ UNCHANGED <<cpConf, history, srcLock, data>>
      /\ cpStep \in 1..(DataStep - 1) /\ cpStep # LockStep
      /\ view' \in {view, Opened, NoPoint}
  BY DEF Reading, CheckAutoIncrement, ReadGtids, ReadCoordinates, CopyObjects, Advance
<1>2. /\ Now' = Now /\ Opened \in 0..Now /\ Opened \in {view, Now}
  BY <1>1 DEF Now, Opened, PastInv
<1>3. /\ gtids' = gtids \/ (At("gtids") /\ gtids' = Now)
      /\ coords' = coords \/ (At("coords") /\ coords' \in {NoPoint, Now})
      /\ At("gtids") => gtids' = Now
  BY DEF Reading, CheckAutoIncrement, ReadGtids, ReadCoordinates, CopyObjects, At
<1>4. CpTypeOK'
  BY <1>1, <1>2, <1>3, SameCall DEF CpTypeOK, OptPoints
<1>5. PastInv' /\ DataInv' /\ EndInv'
  BY <1>1, <1>2, SameCall DEF PastInv, DataInv, EndInv
<1>6. LockInv'
  <2> SUFFICES ASSUME Locking, Held' PROVE /\ srcLock # "none" /\ view' \in {NoPoint, Now}
                                          /\ \A t \in Tables : data[t] \in {NoPoint, Now}
    BY <1>1, <1>2, SameCall DEF LockInv
  <2>1. Held
    BY <1>1, SameCall DEF Held
  <2> QED
    BY <2>1, <1>1, <1>2 DEF LockInv
<1>7. ViewInv'
  BY <1>1, <1>2, SameCall DEF ViewInv, DataInv
<1>8. ExportInv'
  <2> SUFFICES ASSUME cpConf.kind = "export", Locking
               PROVE  /\ ~(cpStep' = 1) /\ ~(cpStep' = DataStep + 2)
                      /\ gtids' \in {NoPoint, Now} /\ coords' \in {NoPoint, Now}
                      /\ cpStep' >= 4 => gtids' = Now
    BY <1>1, <1>2, SameCall DEF ExportInv
  <2>1. Held /\ cpStep \in 2..4
    BY <1>1 DEF Held
  <2>2. /\ gtids \in {NoPoint, Now} /\ coords \in {NoPoint, Now}
        /\ cpStep >= 4 => gtids = Now
    BY <2>1 DEF ExportInv
  <2> QED
    BY <2>1, <2>2, <1>1, <1>3
<1> QED
  BY <1>4, <1>5, <1>6, <1>7, <1>8

\* The lock ends the connection's view: what it opens then, it opens Now.
LEMMA LockStepHolds ==
  ASSUME CpInv, TakeLock
  PROVE  CpInv'
<1> USE PlanFacts, HistoryFacts DEF CpInv
<1>1. /\ cpStep = LockStep /\ cpStep' = cpStep + 1
      /\ UNCHANGED <<cpConf, history, data, gtids, coords>> /\ Now' = Now
  BY DEF TakeLock, Advance, Now
<1>2. LockKind \in {"flush", "lock-all", "snapshot", "no-locks"}
  BY DEF LockKind, CpCalls
<1>3. /\ srcLock' \in {"none", "ftwrl", "tables"} /\ view' \in {NoPoint, Now, view}
      /\ Locking => srcLock' # "none" /\ view' = NoPoint
  BY <1>2 DEF TakeLock, Locking
<1>4. CpTypeOK'
  BY <1>1, <1>3, SameCall DEF CpTypeOK, OptPoints
<1>5. PastInv' /\ DataInv' /\ EndInv'
  BY <1>1, <1>3, SameCall DEF PastInv, DataInv, EndInv
<1>6. LockInv' /\ ViewInv'
  BY <1>1, <1>3, SameCall DEF LockInv, ViewInv, DataInv
<1>7. ExportInv'
  <2> SUFFICES ASSUME cpConf.kind = "export", Locking
               PROVE  /\ ~(cpStep' = 1) /\ ~(cpStep' >= 4) /\ ~(cpStep' = DataStep + 2)
                      /\ gtids' \in {NoPoint, Now} /\ coords' \in {NoPoint, Now}
    BY <1>1, SameCall DEF ExportInv
  <2>1. cpStep = 1 /\ DataStep = 5
    BY <1>1
  <2> QED
    BY <2>1, <1>1 DEF ExportInv
<1> QED
  BY <1>4, <1>5, <1>6, <1>7

LEMMA TableStep ==
  ASSUME CpInv, NEW t \in Tables, CopyTable(t)
  PROVE  CpInv'
<1> USE PlanFacts, HistoryFacts DEF CpInv
<1>1. /\ cpStep = DataStep /\ data[t] = NoPoint
      /\ UNCHANGED <<cpConf, cpStep, history, srcLock, gtids, coords>> /\ Now' = Now
  BY DEF CopyTable, Now
<1>2. Opened \in 0..Now /\ Opened \in {view, Now}
  BY DEF Opened, PastInv
<1>3. PICK k \in {Now, Opened} : data' = [data EXCEPT ![t] = k]
  BY DEF CopyTable
<1>4. /\ view' \in {view, Opened, NoPoint}
      /\ OneView => k = Opened /\ view' = Opened
  <2>1. CASE cpConf.workers \/ cpConf.kind = "clone"
    BY <2>1 DEF CopyTable, OneView
  <2>2. CASE ~(cpConf.workers \/ cpConf.kind = "clone") /\ cpConf.ansi /\ cpConf.kind = "copy"
    BY <2>2 DEF CopyTable, OneView
  <2>3. CASE ~(cpConf.workers \/ cpConf.kind = "clone") /\ ~(cpConf.ansi /\ cpConf.kind = "copy")
    <3>1. data' = [data EXCEPT ![t] = Opened] /\ view' = Opened
      BY <2>3 DEF CopyTable
    <3>2. k = Opened
      BY <3>1, <1>3 DEF CpTypeOK
    <3> QED
      BY <3>1, <3>2
  <2> QED
    BY <2>1, <2>2, <2>3
<1>5. \A u \in Tables : data'[u] = IF u = t THEN k ELSE data[u]
  BY <1>3 DEF CpTypeOK
<1>6. CpTypeOK'
  BY <1>1, <1>2, <1>3, <1>4, SameCall DEF CpTypeOK, OptPoints
<1>7. PastInv' /\ DataInv' /\ EndInv'
  BY <1>1, <1>2, <1>4, <1>5, SameCall DEF PastInv, DataInv, EndInv
<1>8. LockInv'
  BY <1>1, <1>2, <1>4, <1>5, SameCall DEF LockInv, Held
<1>9. ViewInv'
  <2> SUFFICES ASSUME OneView, ~Locking, NEW u \in Tables
               PROVE  data'[u] \in {NoPoint, Opened}
    BY <1>1, <1>4, SameCall DEF ViewInv
  <2>1. data[u] \in {NoPoint, view}
    BY <1>1 DEF ViewInv
  <2>2. data[u] = NoPoint \/ Opened = data[u]
    BY <2>1 DEF Opened
  <2> QED
    BY <2>2, <1>4, <1>5
<1>10. ExportInv'
  <2> SUFFICES ASSUME cpConf.kind = "export", Locking
               PROVE  /\ ~(cpStep' = 1) /\ ~(cpStep' = DataStep + 2)
                      /\ gtids' \in {NoPoint, Now} /\ coords' \in {NoPoint, Now} /\ gtids' = Now
    BY <1>1, SameCall DEF ExportInv
  <2>1. Held /\ cpStep = 5 /\ DataStep = 5
    BY <1>1 DEF Held
  <2> QED
    BY <2>1, <1>1 DEF ExportInv
<1> QED
  BY <1>6, <1>7, <1>8, <1>9, <1>10

LEMMA CopiedStep ==
  ASSUME CpInv, DataCopied
  PROVE  CpInv'
<1> USE PlanFacts, HistoryFacts DEF CpInv
<1>1. /\ cpStep = DataStep /\ cpStep' = cpStep + 1
      /\ UNCHANGED <<cpConf, history, srcLock, view, data, gtids, coords>> /\ Now' = Now
      /\ \A t \in Tables : data[t] # NoPoint
  BY DEF DataCopied, Advance, Now
<1>2. CpTypeOK' /\ PastInv' /\ DataInv' /\ EndInv'
  BY <1>1, SameCall DEF CpTypeOK, PastInv, DataInv, EndInv
<1>3. LockInv' /\ ViewInv' /\ ExportInv'
  BY <1>1, SameCall DEF LockInv, ViewInv, ExportInv, Held
<1> QED
  BY <1>2, <1>3

\* The end: nothing is read any more, and the lock is released.
LEMMA EndStep ==
  ASSUME CpInv, CopyEnds
  PROVE  CpInv'
<1> USE PlanFacts, HistoryFacts DEF CpInv
<1>1. /\ cpStep = DataStep + 1 /\ cpStep' = cpStep + 1
      /\ UNCHANGED <<cpConf, history, data, gtids, coords>> /\ Now' = Now
      /\ srcLock' = "none" /\ view' = NoPoint
      /\ \A t \in Tables : data[t] # NoPoint
  BY DEF CopyEnds, Advance, Now, DataInv
<1>2. CpTypeOK' /\ PastInv' /\ DataInv' /\ LockInv' /\ ViewInv'
  BY <1>1, SameCall DEF CpTypeOK, PastInv, DataInv, LockInv, ViewInv, Held, OptPoints
<1>3. ExportInv'
  <2> SUFFICES ASSUME cpConf.kind = "export", Locking
               PROVE  /\ ~Held' /\ cpStep' # 1
                      /\ \A t \in Tables : data[t] = gtids /\ coords \in {NoPoint, data[t]}
    BY <1>1, SameCall DEF ExportInv
  <2>1. Held /\ cpStep = 6
    BY <1>1 DEF Held
  <2>2. gtids = Now /\ coords \in {NoPoint, Now}
    BY <2>1 DEF ExportInv
  <2>3. \A t \in Tables : data[t] = Now
    BY <2>1, <1>1 DEF LockInv
  <2>4. ~Held' /\ cpStep' # 1
    BY <2>1, <1>1, SameCall DEF Held
  <2> QED
    BY <2>2, <2>3, <2>4
<1>4. EndInv'
  <2>1. CASE Locking
    BY <2>1, <1>1, SameCall DEF LockInv, EndInv, Held
  <2>2. CASE ~Locking /\ OneView
    <3>1. \A t \in Tables : data[t] = view
      BY <2>2, <1>1 DEF ViewInv
    <3>2. CASE Tables = {}
      BY <3>2, <1>1 DEF EndInv
    <3>3. CASE Tables # {}
      BY <3>1, <3>3, <1>1 DEF EndInv, PastInv
    <3> QED
      BY <3>2, <3>3
  <2>3. CASE ~Locking /\ ~OneView
    BY <2>3, <1>1, SameCall DEF EndInv
  <2> QED
    BY <2>1, <2>2, <2>3
<1> QED
  BY <1>2, <1>3, <1>4

LEMMA FailStep ==
  ASSUME CpInv, CopyFails
  PROVE  CpInv'
<1>1. /\ cpStep' = 0 /\ srcLock' = "none" /\ view' = NoPoint /\ Now' = Now
      /\ UNCHANGED <<cpConf, history, data, gtids, coords>>
  BY DEF CopyFails, Now
<1> QED
  BY <1>1, PlanFacts, SameCall
  DEF CpInv, CpTypeOK, PastInv, DataInv, LockInv, ViewInv, ExportInv, EndInv, Held, OptPoints

\* A client commits: no lock is held, and what was read is still in the past.
LEMMA ClientStep ==
  ASSUME CpInv, NEW t \in Tables, ClientCommits(t)
  PROVE  CpInv'
<1> USE PlanFacts, HistoryFacts DEF CpInv
<1>1. /\ history' = Append(history, t) /\ srcLock = "none" /\ Now < MaxHistory
      /\ UNCHANGED <<cpConf, cpStep, srcLock, view, data, gtids, coords>>
  BY DEF ClientCommits
<1>2. Now' = Now + 1 /\ history' \in Seq(Tables)
  BY <1>1 DEF Now, CpTypeOK
<1>3a. CpTypeOK'
  BY <1>1, <1>2, SameCall, CpAssumption DEF CpTypeOK
<1>3b. PastInv' /\ LockInv'
  BY <1>1, <1>2, SameCall, CpAssumption DEF CpTypeOK, PastInv, LockInv, Held, OptPoints
<1>3c. DataInv' /\ ViewInv'
  BY <1>1, <1>2, SameCall, CpAssumption DEF CpTypeOK, DataInv, ViewInv, Held, OptPoints
<1>3. CpTypeOK' /\ PastInv' /\ DataInv' /\ LockInv' /\ ViewInv'
  BY <1>3a, <1>3b, <1>3c
<1>4. ExportInv'
  BY <1>1, <1>2, SameCall DEF ExportInv, LockInv, Held
<1>5. EndInv'
  <2>1. DataStep' = DataStep /\ Locking' = Locking /\ OneView' = OneView
    BY <1>1, SameCall
  <2>2. \A k \in 0..Now : k \in 0..Now'
    BY <1>2
  <2>3. EndInv
    OBVIOUS
  <2> QED
    BY ONLY <1>1, <2>1, <2>2, <2>3 DEF EndInv
<1> QED
  BY <1>3, <1>4, <1>5

LEMMA CpStepHolds == CpInv /\ [CpNext]_cpVars => CpInv'
<1> SUFFICES ASSUME CpInv, [CpNext]_cpVars PROVE CpInv'
  OBVIOUS
<1>1. CASE Reading
  BY <1>1, ReadingStep
<1>2. CASE TakeLock
  BY <1>2, LockStepHolds
<1>3. CASE \E t \in Tables : CopyTable(t)
  BY <1>3, TableStep
<1>4. CASE DataCopied
  BY <1>4, CopiedStep
<1>5. CASE CopyEnds
  BY <1>5, EndStep
<1>6. CASE CopyFails
  BY <1>6, FailStep
<1>7. CASE \E t \in Tables : ClientCommits(t)
  BY <1>7, ClientStep
<1>8. CASE UNCHANGED cpVars
  <2>1. Now' = Now /\ UNCHANGED cpConf
    BY <1>8 DEF cpVars, Now
  <2> QED
    BY <1>8, <2>1, SameCall
    DEF cpVars, CpInv, CpTypeOK, PastInv, DataInv, LockInv, ViewInv, ExportInv, EndInv, Held
<1> QED
  BY <1>1, <1>2, <1>3, <1>4, <1>5, <1>6, <1>7, <1>8 DEF CpNext, CpTool, Reading

----------------------------------------------------------------------------
\* A point holds the data that are of it.
LEMMA SamePoint ==
  ASSUME NEW t \in Tables, NEW k \in Nat, data[t] = k PROVE SameData(t, k)
BY DEF SameData, Writes

\* The tables of a copy made under locks, or in one view, are of one point.
THEOREM CopyFromOnePoint == CpSpec => []TablesFromOnePoint
<1>1. CpInv => TablesFromOnePoint
  <2> SUFFICES ASSUME CpInv, CopyComplete, cpConf.locking = "lock-all" \/ OneView
               PROVE  \E k \in 0..Now : \A t \in Tables : SameData(t, k)
    BY DEF TablesFromOnePoint
  <2>1. cpStep = DataStep + 2 /\ Now \in Nat /\ cpConf \in CpCalls
    BY PlanFacts, HistoryFacts DEF CopyComplete, CpInv
  <2>2. cpConf.locking = "lock-all" => Locking
    BY <2>1 DEF Locking, LockKind, CpCalls
  <2>3. PICK k \in 0..Now : \A t \in Tables : data[t] = k
    BY <2>1, <2>2 DEF CpInv, EndInv
  <2>4. k \in Nat
    BY <2>1
  <2> QED
    BY <2>3, <2>4, SamePoint
<1> QED
  BY <1>1, CpInitially, CpStepHolds, PTL DEF CpSpec

\* A locked export's GTID set and coordinates are of the point of its tables.
THEOREM ExportIsExact == CpSpec => []LockedExportIsExact
<1>1. CpInv => LockedExportIsExact
  <2> SUFFICES ASSUME CpInv, CopyComplete, cpConf.kind = "export",
                      LockKind \in {"flush", "lock-all"}, NEW t \in Tables
               PROVE  SameData(t, gtids) /\ (coords # NoPoint => SameData(t, coords))
    BY DEF LockedExportIsExact
  <2>1. cpStep = DataStep + 2 /\ DataStep = 5 /\ Now \in Nat
    <3>1. CpTypeOK /\ cpStep = Len(Plan) + 1
      BY DEF CopyComplete, CpInv
    <3>2. Len(Plan) = DataStep + 1 /\ DataStep = 5
      BY <3>1, PlanFacts
    <3> QED
      BY <3>1, <3>2, HistoryFacts
  <2>2. data[t] = gtids /\ coords \in {NoPoint, data[t]}
    BY <2>1 DEF CpInv, ExportInv, Locking
  <2>3. data[t] \in Nat
    BY <2>1 DEF CpInv, DataInv, PastInv
  <2> QED
    BY <2>2, <2>3, SamePoint
<1> QED
  BY <1>1, CpInitially, CpStepHolds, PTL DEF CpSpec

----------------------------------------------------------------------------
(***************************************************************************)
(* For every set of views, whatever they name: the stack of the search for  *)
(* an order loses none, and above a view that has been looked at lies only   *)
(* what it depends on.                                                       *)
(***************************************************************************)

\* Everything a view depends on, directly or through others.
ClosedUnder(T, v) ==
  DependentViews(v) \subseteq T /\ \A b \in T : DependentViews(b) \subseteq T
Below(v) == {b \in VoSet : \A T \in SUBSET VoSet : ClosedUnder(T, v) => b \in T}

\* No view is lost, and what is sorted is what was processed.
KeptInv ==
  /\ processedViews = ToSet(sortedViews) /\ IsInjective(sortedViews)
  /\ processedViews \subseteq visitedViews
  /\ VoSet \subseteq processedViews \cup ToSet(viewStack)

\* What lies on the stack above a view that has been looked at is there because
\* of this view, and what it depends on is processed or lies there.
OpenAt(v, p) ==
  /\ viewStack[p] = v
  /\ \A q \in DOMAIN viewStack : q > p => viewStack[q] \in Below(v)
  /\ \A b \in DependentViews(v) \ processedViews :
       \E q \in DOMAIN viewStack : q > p /\ viewStack[q] = b
OpenInv ==
  \A v \in visitedViews \ processedViews : \E p \in DOMAIN viewStack : OpenAt(v, p)

SortedInv ==
  \A i \in DOMAIN sortedViews :
    DependentViews(sortedViews[i]) \subseteq {sortedViews[j] : j \in 1..(i - 1)}

VoInv == VoTypeOK /\ KeptInv /\ (NoCircle => OpenInv /\ SortedInv)

----------------------------------------------------------------------------
LEMMA DependentFacts ==
  ASSUME VoTypeOK, NEW v \in VoSet
  PROVE  DependentViews(v) \in SUBSET VoSet
<1>1. definition[v] \in Seq(SUBSET VoSet)
  BY VoAssumption DEF VoTypeOK
<1>0. definition[v] # <<>>
  BY VoAssumption DEF VoTypeOK
<1>2. Last(definition[v]) \in SUBSET VoSet
  BY <1>0, <1>1 DEF Last
<1>. QED
  BY <1>2 DEF DependentViews

LEMMA BelowFacts ==
  ASSUME VoTypeOK, NEW v \in VoSet
  PROVE  /\ Below(v) \in SUBSET VoSet /\ DependentViews(v) \subseteq Below(v)
         /\ \A b \in Below(v) : DependentViews(b) \subseteq Below(v)
         /\ Below(v) \subseteq DependentViews(v) \cup UNION {Below(b) : b \in DependentViews(v)}
<1>1. Below(v) \in SUBSET VoSet /\ DependentViews(v) \subseteq Below(v)
  BY DependentFacts DEF Below, ClosedUnder
<1>2. ASSUME NEW b \in Below(v), NEW c \in DependentViews(b)
      PROVE  c \in Below(v)
  <2>1. c \in VoSet
    BY <1>1, DependentFacts
  <2>2. ASSUME NEW T \in SUBSET VoSet, ClosedUnder(T, v)
        PROVE  c \in T
    BY <2>2 DEF Below, ClosedUnder
  <2>. QED
    BY <2>1, <2>2 DEF Below
<1>3. Below(v) \subseteq DependentViews(v) \cup UNION {Below(b) : b \in DependentViews(v)}
  <2>. DEFINE T == DependentViews(v) \cup UNION {Below(b) : b \in DependentViews(v)}
  <2>1. \A b \in VoSet : DependentViews(b) \subseteq Below(b) /\ Below(b) \subseteq VoSet
    BY DependentFacts DEF Below, ClosedUnder
  <2>2. T \in SUBSET VoSet
    BY <2>1, DependentFacts
  <2>3. ASSUME NEW b \in T
        PROVE  DependentViews(b) \subseteq T
    <3>1. CASE b \in DependentViews(v)
      BY <3>1, <2>1, DependentFacts
    <3>2. ASSUME NEW c \in DependentViews(v), b \in Below(c)
          PROVE  DependentViews(b) \subseteq T
      <4>1. c \in VoSet
        BY DependentFacts
      <4>2. ASSUME NEW d \in DependentViews(b)
            PROVE  d \in Below(c)
        <5>1. d \in VoSet
          BY <2>2, DependentFacts
        <5>2. ASSUME NEW U \in SUBSET VoSet, ClosedUnder(U, c)
              PROVE  d \in U
          BY <3>2, <5>2 DEF Below, ClosedUnder
        <5>. QED
          BY <5>1, <5>2 DEF Below
      <4>. QED
        BY <4>2
    <3>. QED
      BY <3>1, <3>2
  <2>4. ClosedUnder(T, v)
    BY <2>3 DEF ClosedUnder
  <2>. HIDE DEF T
  <2>5. Below(v) \subseteq T
    BY <2>2, <2>4 DEF Below
  <2>. QED
    BY <2>5 DEF T
<1>. QED
  BY <1>1, <1>2, <1>3

\* Where nothing goes round in a circle, no view lies below itself.
LEMMA NotBelowItself == VoTypeOK /\ NoCircle => \A v \in VoSet : v \notin Below(v)
<1>. SUFFICES ASSUME VoTypeOK, NoCircle, NEW v \in VoSet, v \in Below(v)
              PROVE  FALSE
  OBVIOUS
<1>. DEFINE S == {b \in Below(v) : v \in Below(b)}
<1>1. S \in (SUBSET VoSet) \ {{}}
  <2>1. S \subseteq VoSet
    BY BelowFacts
  <2>2. v \in S
    OBVIOUS
  <2>. QED
    BY <2>1, <2>2
<1>2. PICK b \in S : DependentViews(b) \cap S = {}
  BY <1>1, Zenon DEF NoCircle
<1>3. b \in VoSet /\ b \in Below(v) /\ v \in Below(b)
  BY <1>1, <1>2
<1>4. DependentViews(b) \subseteq Below(v)
  BY <1>3, BelowFacts
<1>5. CASE v \in DependentViews(b)
  BY <1>2, <1>5
<1>6. CASE \E c \in DependentViews(b) : v \in Below(c)
  BY <1>2, <1>4, <1>6
<1>. QED
  BY <1>3, <1>5, <1>6, BelowFacts

LEMMA ViewsFinite ==
  ASSUME VoTypeOK, NEW v \in VoSet, NEW bases \in SetToSeqs(DependentViews(v) \ processedViews)
  PROVE  /\ bases \in Seq(VoSet)
         /\ ToSet(bases) = DependentViews(v) \ processedViews
<1>. DEFINE S == DependentViews(v) \ processedViews
            n == Cardinality(S)
<1>1. IsFiniteSet(VoSet)
  <2>. DEFINE f == [i \in 1..Len(VoViews) |-> VoViews[i]]
  <2>1. IsFiniteSet(1..Len(VoViews))
    BY FS_Interval, VoAssumption
  <2>2. VoSet = {VoViews[i] : i \in 1..Len(VoViews)}
    BY VoAssumption DEF VoSet, ToSet
  <2>3. f \in Surjection(1..Len(VoViews), VoSet)
    BY <2>2 DEF Surjection
  <2>. QED
    BY <2>1, <2>3, FS_Surjection
<1>2. S \in SUBSET VoSet /\ IsFiniteSet(S) /\ n \in Nat
  BY <1>1, DependentFacts, FS_Subset, FS_CardinalityType
<1>3. bases \in [1..n -> S] /\ \A i, j \in 1..n : i # j => bases[i] # bases[j]
  BY DEF SetToSeqs
<1>4. bases \in Injection(1..n, S)
  BY <1>3 DEF Injection, IsInjective
<1>5. IsFiniteSet(1..n) /\ Cardinality(1..n) = n
  BY <1>2, FS_Interval
<1>6. bases \in Surjection(1..n, S)
  BY <1>2, <1>4, <1>5, FS_Injection
<1>. HIDE DEF S, n
<1>7. bases \in Seq(S) /\ DOMAIN bases = 1..n
  BY <1>2, <1>3
<1>8. ToSet(bases) = S
  BY <1>3, <1>6, <1>7 DEF ToSet, Surjection
<1>. QED
  BY <1>2, <1>7, <1>8 DEF S

LEMMA PushFacts ==
  ASSUME NEW S, NEW s \in Seq(S), NEW t \in Seq(S)
  PROVE  /\ s \o t \in Seq(S) /\ DOMAIN (s \o t) = 1..(Len(s) + Len(t))
         /\ \A q \in 1..Len(s) : (s \o t)[q] = s[q]
         /\ \A q \in DOMAIN (s \o t) : q > Len(s) => (s \o t)[q] \in ToSet(t)
         /\ \A b \in ToSet(t) : \E q \in DOMAIN (s \o t) : q > Len(s) /\ (s \o t)[q] = b
         /\ ToSet(s) \subseteq ToSet(s \o t)
<1>1. /\ s \o t \in Seq(S) /\ DOMAIN (s \o t) = 1..(Len(s) + Len(t))
      /\ \A q \in 1..Len(s) : (s \o t)[q] = s[q]
      /\ \A q \in 1..(Len(s) + Len(t)) : q > Len(s) => (s \o t)[q] = t[q - Len(s)]
      /\ Len(s) \in Nat /\ Len(t) \in Nat /\ DOMAIN s = 1..Len(s) /\ DOMAIN t = 1..Len(t)
  OBVIOUS
<1>. DEFINE st == s \o t
            m == Len(s)
            n == Len(t)
<1>. HIDE DEF st, m, n
<1>2. /\ DOMAIN st = 1..(m + n) /\ DOMAIN s = 1..m /\ DOMAIN t = 1..n /\ m \in Nat /\ n \in Nat
      /\ \A q \in 1..m : st[q] = s[q]
      /\ \A q \in 1..(m + n) : q > m => st[q] = t[q - m]
  BY <1>1 DEF st, m, n
<1>3. \A q \in DOMAIN st : q > m => st[q] \in ToSet(t)
  BY <1>2 DEF ToSet
<1>4. ASSUME NEW b \in ToSet(t)
      PROVE  \E q \in DOMAIN st : q > m /\ st[q] = b
  <2>1. PICK i \in 1..n : t[i] = b
    BY <1>2 DEF ToSet
  <2>2. m + i \in 1..(m + n) /\ m + i > m /\ (m + i) - m = i
    BY <1>2
  <2>. QED
    BY <1>2, <2>1, <2>2
<1>5. ToSet(s) \subseteq ToSet(st)
  BY <1>2 DEF ToSet
<1>. QED
  BY <1>1, <1>3, <1>4, <1>5 DEF st, m, n

----------------------------------------------------------------------------
LEMMA VoInitially == VoInit => VoInv
<1>. SUFFICES ASSUME VoInit PROVE VoInv
  OBVIOUS
<1>1. VoTypeOK /\ KeptInv
  BY VoAssumption DEF VoInit, VoTypeOK, KeptInv, VoSet, ToSet, IsInjective
<1>2. OpenInv /\ SortedInv
  BY DEF VoInit, OpenInv, SortedInv
<1>. QED
  BY <1>1, <1>2 DEF VoInv

\* The view on top is looked at: what it depends on comes to lie above it.
LEMMA LookAtKeeps == VoInv /\ LookAt => VoInv'
<1>. SUFFICES ASSUME VoInv, LookAt PROVE VoInv'
  OBVIOUS
<1>. USE DEF VoTypeOK
<1>b. PICK u \in VoSet, n \in Nat \ {0} : u = Last(viewStack) /\ n = Len(viewStack)
  BY DEF LookAt, VoInv, Last
<1>. DEFINE new == DependentViews(u) \ processedViews
<1>1. /\ VoTypeOK /\ viewStack \in Seq(VoSet) /\ n \in Nat \ {0} /\ viewStack[n] = u
      /\ u \in VoSet /\ u \notin visitedViews /\ visitedViews' = visitedViews \cup {u}
      /\ UNCHANGED <<definition, processedViews, sortedViews>>
  BY <1>b DEF LookAt, VoInv, Last
<1>2. PICK bases \in SetToSeqs(new) : viewStack' = viewStack \o bases
  BY <1>b DEF LookAt, Stacked
<1>3. bases \in Seq(VoSet) /\ ToSet(bases) = new
  BY <1>1, <1>2, ViewsFinite
<1>4. /\ viewStack' \in Seq(VoSet) /\ DOMAIN viewStack = 1..n
      /\ DOMAIN viewStack' = 1..(n + Len(bases)) /\ Len(bases) \in Nat
      /\ \A q \in 1..n : viewStack'[q] = viewStack[q]
      /\ \A q \in DOMAIN viewStack' : q > n => viewStack'[q] \in new
      /\ \A b \in new : \E q \in DOMAIN viewStack' : q > n /\ viewStack'[q] = b
      /\ ToSet(viewStack) \subseteq ToSet(viewStack')
  BY <1>b, <1>1, <1>2, <1>3, PushFacts
<1>5. VoTypeOK'
  BY <1>1, <1>4 DEF VoInv
<1>6. KeptInv'
  BY <1>1, <1>4 DEF VoInv, KeptInv
<1>a. new = DependentViews(u) \ processedViews
  OBVIOUS
<1>. HIDE DEF new, VoTypeOK
<1>7. ASSUME NEW v
      PROVE  DependentViews(v)' = DependentViews(v) /\ Below(v)' = Below(v)
  BY <1>1 DEF DependentViews, Below, ClosedUnder
<1>8. ASSUME NoCircle' PROVE NoCircle /\ OpenInv' /\ SortedInv'
  <2>1. NoCircle
    BY <1>8, <1>1 DEF NoCircle, DependentViews
  <2>2. OpenInv /\ SortedInv
    BY <2>1 DEF VoInv
  <2>3. SortedInv'
    BY <2>2, <1>1, <1>7 DEF SortedInv
  <2>4. ASSUME NEW v \in visitedViews \ processedViews
        PROVE  \E p \in DOMAIN viewStack' : OpenAt(v, p)'
    <3>1. PICK p \in DOMAIN viewStack : OpenAt(v, p)
      BY <2>2 DEF OpenInv
    <3>2. v \in VoSet /\ p \in 1..n /\ p # n /\ p \in DOMAIN viewStack'
      BY <1>1, <1>4, <3>1 DEF OpenAt, VoInv
    <3>3. u \in Below(v)
      BY <1>1, <1>4, <3>1, <3>2 DEF OpenAt
    <3>4. new \subseteq Below(v)
      BY <1>a, <1>1, <3>2, <3>3, BelowFacts
    <3>5. \A q \in DOMAIN viewStack' : q > p => viewStack'[q] \in Below(v)
      BY <1>1, <1>4, <3>1, <3>2, <3>4 DEF OpenAt
    <3>6. \A b \in DependentViews(v) \ processedViews :
            \E q \in DOMAIN viewStack' : q > p /\ viewStack'[q] = b
      BY <1>1, <1>4, <3>1, <3>2 DEF OpenAt
    <3>7. viewStack'[p] = v
      BY <1>4, <3>1, <3>2 DEF OpenAt
    <3>. QED
      BY <1>1, <1>7, <3>2, <3>5, <3>6, <3>7 DEF OpenAt
  <2>5. OpenAt(u, n)'
    <3>1. n \in DOMAIN viewStack' /\ viewStack'[n] = u
      BY <1>1, <1>4
    <3>2. \A q \in DOMAIN viewStack' : q > n => viewStack'[q] \in Below(u)
      BY <1>a, <1>1, <1>4, BelowFacts
    <3>3. \A b \in new : \E q \in DOMAIN viewStack' : q > n /\ viewStack'[q] = b
      BY <1>4
    <3>. QED
      BY <1>a, <1>1, <1>7, <3>1, <3>2, <3>3 DEF OpenAt
  <2>6. OpenInv'
    BY <1>1, <1>4, <2>4, <2>5 DEF OpenInv
  <2>. QED
    BY <2>1, <2>3, <2>6
<1>. QED
  BY <1>5, <1>6, <1>8 DEF VoInv

\* The view on top is popped: nothing lies above the place it was looked at, so
\* all it depends on has been processed.
LEMMA PopViewKeeps == VoInv /\ PopView => VoInv'
<1>. SUFFICES ASSUME VoInv, PopView PROVE VoInv'
  OBVIOUS
<1>. USE DEF VoTypeOK
<1>b. PICK u \in VoSet, n \in Nat \ {0} : u = Last(viewStack) /\ n = Len(viewStack)
  BY DEF PopView, VoInv, Last
<1>1. /\ VoTypeOK /\ KeptInv /\ viewStack \in Seq(VoSet) /\ n \in Nat \ {0} /\ viewStack[n] = u
      /\ u \in VoSet /\ u \in visitedViews
      /\ UNCHANGED <<definition, visitedViews>>
      /\ processedViews' = processedViews \cup {u}
      /\ sortedViews \in Seq(VoSet)
      /\ sortedViews' = IF u \in processedViews THEN sortedViews ELSE Append(sortedViews, u)
  BY <1>b DEF PopView, VoInv, Last
<1>2. /\ viewStack' \in Seq(VoSet) /\ DOMAIN viewStack = 1..n /\ DOMAIN viewStack' = 1..(n - 1)
      /\ \A q \in 1..(n - 1) : viewStack'[q] = viewStack[q]
  BY <1>b, <1>1 DEF PopView, Front
<1>3. VoTypeOK'
  BY <1>1, <1>2
<1>4. ToSet(sortedViews') = ToSet(sortedViews) \cup {u}
  <2>1. CASE u \in processedViews
    BY <1>1, <2>1 DEF KeptInv
  <2>2. CASE u \notin processedViews
    BY <1>1, <2>2 DEF ToSet
  <2>. QED
    BY <2>1, <2>2
<1>5. IsInjective(sortedViews')
  <2>1. CASE u \in processedViews
    BY <1>1, <2>1 DEF KeptInv
  <2>2. CASE u \notin processedViews
    <3>1. \A i \in DOMAIN sortedViews : sortedViews[i] # u
      BY <1>1, <2>2 DEF KeptInv, ToSet
    <3>2. /\ DOMAIN sortedViews = 1..Len(sortedViews)
          /\ DOMAIN sortedViews' = 1..(Len(sortedViews) + 1)
          /\ sortedViews'[Len(sortedViews) + 1] = u
          /\ \A i \in DOMAIN sortedViews : sortedViews'[i] = sortedViews[i]
      BY <1>1, <2>2
    <3>3. IsInjective(sortedViews)
      BY <1>1 DEF KeptInv
    <3>. QED
      BY <1>1, <3>1, <3>2, <3>3 DEF IsInjective
  <2>. QED
    BY <2>1, <2>2
<1>6. KeptInv'
  <2>1. ToSet(viewStack) \subseteq ToSet(viewStack') \cup {u}
    <3>1. \A q \in 1..n : viewStack[q] = u \/ (q \in 1..(n - 1) /\ viewStack'[q] = viewStack[q])
      BY <1>1, <1>2
    <3>. QED
      BY <1>2, <3>1 DEF ToSet
  <2>. QED
    BY <1>1, <1>4, <1>5, <2>1 DEF KeptInv
<1>. HIDE DEF VoTypeOK
<1>7. ASSUME NEW v
      PROVE  DependentViews(v)' = DependentViews(v) /\ Below(v)' = Below(v)
  BY <1>1 DEF DependentViews, Below, ClosedUnder
<1>8. ASSUME NoCircle' PROVE OpenInv' /\ SortedInv'
  <2>1. NoCircle
    BY <1>8, <1>1 DEF NoCircle, DependentViews
  <2>2. OpenInv /\ SortedInv
    BY <2>1 DEF VoInv
  <2>3. u \notin processedViews => DependentViews(u) \subseteq processedViews
    <3>. SUFFICES ASSUME u \notin processedViews PROVE DependentViews(u) \subseteq processedViews
      OBVIOUS
    <3>1. PICK p \in DOMAIN viewStack : OpenAt(u, p)
      BY <1>1, <2>2 DEF OpenInv
    <3>2. u \notin Below(u)
      BY <1>1, <2>1, NotBelowItself
    <3>3. p = n
      BY <1>1, <1>2, <3>1, <3>2 DEF OpenAt
    <3>. QED
      BY <1>1, <1>2, <3>1, <3>3 DEF OpenAt
  <2>4. ASSUME NEW v \in visitedViews' \ processedViews'
        PROVE  \E p \in DOMAIN viewStack' : OpenAt(v, p)'
    <3>1. v \in visitedViews \ processedViews /\ v # u /\ v \in VoSet
      BY <1>1 DEF VoTypeOK
    <3>2. PICK p \in DOMAIN viewStack : OpenAt(v, p)
      BY <2>2, <3>1 DEF OpenInv
    <3>3. p \in 1..(n - 1) /\ viewStack'[p] = v
      BY <1>1, <1>2, <3>1, <3>2 DEF OpenAt
    <3>4. \A q \in DOMAIN viewStack' : q > p => viewStack'[q] \in Below(v)
      BY <1>1, <1>2, <3>2 DEF OpenAt
    <3>5. \A b \in DependentViews(v) \ processedViews' :
            \E q \in DOMAIN viewStack' : q > p /\ viewStack'[q] = b
      BY <1>1, <1>2, <3>2 DEF OpenAt
    <3>. QED
      BY <1>2, <1>7, <3>1, <3>3, <3>4, <3>5 DEF OpenAt
  <2>5. SortedInv'
    <3>1. CASE u \in processedViews
      BY <1>1, <1>7, <2>2, <3>1 DEF SortedInv
    <3>2. CASE u \notin processedViews
      <4>1. /\ DOMAIN sortedViews = 1..Len(sortedViews)
            /\ DOMAIN sortedViews' = 1..(Len(sortedViews) + 1)
            /\ sortedViews'[Len(sortedViews) + 1] = u
            /\ \A i \in DOMAIN sortedViews : sortedViews'[i] = sortedViews[i]
        BY <1>1, <3>2
      <4>2. ASSUME NEW i \in DOMAIN sortedViews
            PROVE  DependentViews(sortedViews[i]) \subseteq {sortedViews'[j] : j \in 1..(i - 1)}
        <5>1. DependentViews(sortedViews[i]) \subseteq {sortedViews[j] : j \in 1..(i - 1)}
          BY <2>2 DEF SortedInv
        <5>2. \A j \in 1..(i - 1) : sortedViews'[j] = sortedViews[j]
          BY <1>1, <4>1
        <5>. QED
          BY <5>1, <5>2
      <4>3. DependentViews(u) \subseteq {sortedViews'[j] : j \in 1..Len(sortedViews)}
        BY <1>1, <2>3, <3>2, <4>1 DEF KeptInv, ToSet
      <4>4. ASSUME NEW i \in DOMAIN sortedViews', NEW v, v = sortedViews'[i]
            PROVE  DependentViews(v) \subseteq {sortedViews'[j] : j \in 1..(i - 1)}
        <5>1. CASE i \in DOMAIN sortedViews
          BY <4>1, <4>2, <4>4, <5>1
        <5>2. CASE i = Len(sortedViews) + 1
          <6>1. i - 1 = Len(sortedViews) /\ v = u
            BY <1>1, <4>1, <4>4, <5>2
          <6>. QED
            BY <4>3, <6>1
        <5>. QED
          BY <1>1, <4>1, <5>1, <5>2
      <4>. QED
        BY <1>7, <4>4 DEF SortedInv
    <3>. QED
      BY <3>1, <3>2
  <2>. QED
    BY <2>4, <2>5 DEF OpenInv
<1>. QED
  BY <1>3, <1>6, <1>8 DEF VoInv

\* The views are sorted one by one.
LEMMA VoInvariance == VoSpec => []VoInv
<1>1. VoInv /\ UNCHANGED voVars => VoInv'
  <2>. SUFFICES ASSUME VoInv, UNCHANGED voVars PROVE VoInv'
    OBVIOUS
  <2>1. \A v : DependentViews(v)' = DependentViews(v) /\ Below(v)' = Below(v)
    BY DEF DependentViews, Below, ClosedUnder, voVars
  <2>2. \A v, p : OpenAt(v, p)' <=> OpenAt(v, p)
    BY <2>1 DEF OpenAt, voVars
  <2>. QED
    BY <2>1, <2>2 DEF VoInv, VoTypeOK, KeptInv, OpenInv, SortedInv, NoCircle, voVars
<1>2. VoInv /\ [VoNext]_voVars => VoInv'
  BY <1>1, LookAtKeeps, PopViewKeeps DEF VoNext
<1>. QED
  BY <1>2, VoInitially, PTL DEF VoSpec

\* Copy, export and clone create the views of a database, whatever they are and
\* in whatever order the dictionary gives them, each once, none left out, and
\* none before a view it was found to depend on.
THEOREM ViewsInOrder == VoSpec => []BasesFirst
<1>1. VoInv => BasesFirst
  <2>. SUFFICES ASSUME VoInv PROVE BasesFirst
    OBVIOUS
  <2>1. viewStack = <<>> => ToSet(sortedViews) = VoSet
    BY DEF VoInv, VoTypeOK, KeptInv, ToSet
  <2>. QED
    BY <2>1 DEF VoInv, KeptInv, SortedInv, BasesFirst
<1>. QED
  BY <1>1, VoInvariance, PTL
=============================================================================
