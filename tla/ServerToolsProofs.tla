-------------------------- MODULE ServerToolsProofs --------------------------
(***************************************************************************)
(* Three tools that look at servers and tidy them up.                       *)
(*                                                                          *)
(* The binary log tools, for every number of logs, every set of slaves and  *)
(* every call: the index names the logs where they lie, no log that a slave *)
(* needs is purged, and, while the sequence numbers keep their width, the   *)
(* log the server writes is not moved.                                      *)
(*                                                                          *)
(* mysqlindexcheck, for every table: which of the indexes that it reports   *)
(* can be dropped together.                                                 *)
(*                                                                          *)
(* mysqlrplshow, for every topology: each master is expanded once, and a    *)
(* walk that lost nobody has the whole map.                                 *)
(***************************************************************************)
EXTENDS BinlogAdmin, IndexCheck, TopologyMap, TLAPS

\* Nothing lies, or is expected, beyond the active log.
BoundInv ==
  /\ inUse <= active
  /\ \A n \in Logs : n > active =>
       files[n] = "none" /\ indexed[n] = "none" /\ newIndex[n] = "none"
  /\ \A s \in PurgeSlaves : reading[s] <= active

\* What is to be moved is older than the active log, which stays.
ActiveInv ==
  /\ \A n \in todo : n <= active
  /\ MaxLog <= Wrap => files[active] = "base" /\ \A n \in todo : n < active

\* Only the log the tool is at may lie elsewhere than the index says.
MoveInv ==
  /\ \A n \in Logs :
       IF Turn(n) /\ blPhase \in Updating
         THEN files[n] = "moved" /\ indexed[n] \in {"none", "base"}
         ELSE indexed[n] \in {"none", files[n]}
  /\ blPhase = "rename" => \A n \in Logs : newIndex[n] \in {"none", files[n]}

\* No slave reads a log older than the one the tool purges to.
PurgeInv ==
  blConf.tool = "purge" /\ blConf.target = 0 =>
    /\ Needed
    /\ blPhase = "purge" => \A s \in PurgeSlaves : inUse <= reading[s]

BlInv == BlTypeOK /\ BoundInv /\ ActiveInv /\ MoveInv /\ PurgeInv

----------------------------------------------------------------------------
LEMMA BlInitially == BlInit => BlInv
BY BlAssumption
DEF BlInit, BlInv, BlTypeOK, BoundInv, ActiveInv, MoveInv, Updating, PurgeInv, Needed, Logs,
    Places

\* The logs to move: a log that is sorted before another one.
LEMMA ListStep == ASSUME BlInv, ListLogs PROVE BlInv'
<1> USE BlAssumption DEF BlInv
<1>1. PICK S \in SUBSET LogsToMove :
        todo' = S /\ blPhase' = IF S = {} THEN "done" ELSE "moving"
  BY DEF ListLogs
<1>2. /\ blPhase = "start" /\ blPhase' \in {"done", "moving"}
      /\ UNCHANGED <<blConf, newIndex, inUse, active, files, indexed, reading, dumping>>
  BY <1>1 DEF ListLogs, blServer, blSlaves
<1>3. BlTypeOK' /\ BoundInv' /\ MoveInv' /\ PurgeInv'
  BY <1>1, <1>2 DEF BlTypeOK, BoundInv, MoveInv, Updating, PurgeInv, Needed, LogsToMove
<1>4. ActiveInv'
  <2>1. \A n \in todo' : n \in Logs /\ n <= active
    BY <1>1 DEF LogsToMove, BoundInv, BlTypeOK, Logs
  <2>2. ASSUME MaxLog <= Wrap, NEW n \in todo' PROVE n < active
    <3>1. PICK m \in Logs : files[m] = "base" /\ SortsBefore(n, m)
      BY <1>1 DEF LogsToMove
    <3>2. m <= active /\ n < m
      BY <2>1, <2>2, <3>1 DEF SortsBefore, BoundInv, BlTypeOK, Logs
    <3> QED
      BY <2>1, <3>2 DEF BlTypeOK, Logs
  <2> QED
    BY <1>2, <2>1, <2>2 DEF ActiveInv
<1> QED
  BY <1>3, <1>4

\* The moving of one log, and its entry in the index.
LEMMA MoveStep ==
  ASSUME BlInv, NEW n \in Logs,
         \/ MoveFile(n) \/ PrepareIndex(n) \/ IndexError(n)
         \/ ReplaceIndex(n) \/ ReplaceFails(n)
  PROVE  BlInv'
<1> USE BlAssumption DEF BlInv
<1>1. /\ Turn(n) /\ n <= active
      /\ MaxLog <= Wrap => n < active
      /\ \A m \in Logs : Turn(m) => m = n
  BY DEF MoveFile, PrepareIndex, IndexError, ReplaceIndex, ReplaceFails, Turn, ActiveInv, BlTypeOK, Logs
<1>2. UNCHANGED <<blConf, inUse, active, reading, dumping>>
  BY DEF MoveFile, PrepareIndex, IndexError, ReplaceIndex, ReplaceFails, BlEnd, blServer, blSlaves
<1>3. CASE MoveFile(n)
  <2>1. UNCHANGED <<todo, newIndex, indexed>> /\ \A m \in Logs : Turn(m)' = Turn(m)
    BY <1>3 DEF MoveFile, Turn
  <2>2. /\ blPhase = "moving"
        /\ \/ files' = files /\ blPhase' = "error"
           \/ /\ files[n] = "base" /\ blPhase' = "index"
              /\ files' = [files EXCEPT ![n] = "moved"]
    BY <1>3 DEF MoveFile
  <2>3. BlTypeOK'
    BY <1>2, <2>1, <2>2 DEF BlTypeOK, Places
  <2>4. BoundInv'
    BY <1>1, <1>2, <2>1, <2>2 DEF BoundInv, BlTypeOK, Logs
  <2>5. ActiveInv'
    <3>1. MaxLog <= Wrap => files'[active] = files[active]
      BY <1>1, <2>2 DEF BlTypeOK, Logs
    <3> QED
      BY <1>2, <2>1, <3>1 DEF ActiveInv
  <2>6. PurgeInv'
    <3>1. \A m \in Logs : files[m] # "none" => files'[m] # "none"
      BY <2>2 DEF BlTypeOK
    <3>2. \A s \in PurgeSlaves : \A m \in reading[s]..active : m \in Logs
      BY DEF BlTypeOK, Logs
    <3> QED
      BY <1>2, <2>2, <3>1, <3>2 DEF PurgeInv, Needed
  <2>7. MoveInv'
    BY <1>1, <2>1, <2>2 DEF MoveInv, Updating, BlTypeOK
  <2> QED
    BY <2>3, <2>4, <2>5, <2>6, <2>7
<1>4. CASE PrepareIndex(n)
  <2>1. UNCHANGED <<todo, files, indexed>> /\ \A m \in Logs : Turn(m)' = Turn(m)
    BY <1>4 DEF PrepareIndex, Turn, blServer
  <2>2. BlTypeOK' /\ BoundInv' /\ ActiveInv' /\ PurgeInv'
    BY <1>1, <1>2, <1>4, <2>1
    DEF PrepareIndex, BlTypeOK, BoundInv, ActiveInv, PurgeInv, Needed, Logs, Places
  <2>3. MoveInv'
    BY <1>1, <1>4, <2>1 DEF PrepareIndex, MoveInv, Updating, BlTypeOK
  <2> QED
    BY <2>2, <2>3
<1>5. CASE IndexError(n)
  <2>1. UNCHANGED <<todo, newIndex, indexed>> /\ \A m \in Logs : Turn(m)' = Turn(m)
    BY <1>5 DEF IndexError, BlEnd, Turn
  <2>2. /\ blPhase' \in {"error", "undoFailed"}
        /\ files' = files \/ files' = [files EXCEPT ![n] = "base"]
    BY <1>5 DEF IndexError, BlEnd
  <2>4. BlTypeOK'
    BY <1>2, <2>1, <2>2 DEF BlTypeOK, Places
  <2>5. BoundInv'
    BY <1>1, <1>2, <2>1, <2>2 DEF BoundInv, BlTypeOK, Logs
  <2>6. ActiveInv'
    <3>1. files'[active] \in {files[active], "base"}
      BY <2>2 DEF BlTypeOK
    <3> QED
      BY <1>2, <2>1, <3>1 DEF ActiveInv
  <2>7. PurgeInv'
    <3>1. \A m \in Logs : files[m] # "none" => files'[m] # "none"
      BY <2>2 DEF BlTypeOK
    <3>2. \A s \in PurgeSlaves : \A m \in reading[s]..active : m \in Logs
      BY DEF BlTypeOK, Logs
    <3> QED
      BY <1>2, <2>2, <3>1, <3>2 DEF PurgeInv, Needed
  <2>3. MoveInv'
    BY <1>1, <1>5, <2>1 DEF IndexError, BlEnd, MoveInv, Updating, BlTypeOK
  <2> QED
    BY <2>3, <2>4, <2>5, <2>6, <2>7
<1>6. CASE ReplaceIndex(n)
  <2>1. UNCHANGED <<files, newIndex>> /\ indexed' = newIndex /\ todo' = todo \ {n}
    BY <1>6 DEF ReplaceIndex
  <2>2. BlTypeOK' /\ BoundInv' /\ ActiveInv' /\ PurgeInv'
    BY <1>2, <1>6, <2>1
    DEF ReplaceIndex, BlTypeOK, BoundInv, ActiveInv, PurgeInv, Needed, Logs, Places
  <2>3. MoveInv'
    BY <1>6, <2>1 DEF ReplaceIndex, MoveInv, Updating, BlTypeOK
  <2> QED
    BY <2>2, <2>3
<1>7. CASE ReplaceFails(n)
  <2>1. /\ UNCHANGED <<todo, newIndex, active, files, indexed>>
        /\ blPhase = "rename" /\ blPhase' = "replaceFailed"
        /\ \A m \in Logs : Turn(m)' = Turn(m)
    BY <1>7 DEF ReplaceFails, BlEnd, blServer, Turn
  <2>2. BlTypeOK' /\ BoundInv' /\ ActiveInv' /\ PurgeInv'
    BY <1>2, <2>1 DEF BlTypeOK, BoundInv, ActiveInv, PurgeInv, Needed
  <2>3. MoveInv'
    BY <2>1 DEF MoveInv, Updating
  <2> QED
    BY <2>2, <2>3
<1> QED
  BY <1>3, <1>4, <1>5, <1>6, <1>7

\* A new log: nobody has heard of it yet.
LEMMA RotateStep ==
  ASSUME BlInv, Rotated, UNCHANGED <<blConf, newIndex, inUse, todo, reading, dumping>>,
         \/ UNCHANGED blPhase
         \/ blPhase' = "done" /\ blPhase \notin Updating
  PROVE  BlInv'
<1> USE BlAssumption DEF BlInv
<1>1. /\ active + 1 \in Logs /\ active' = active + 1
      /\ files' = [files EXCEPT ![active + 1] = "base"]
      /\ indexed' = [indexed EXCEPT ![active + 1] = "base"]
      /\ \A m \in Logs : Turn(m)' = Turn(m)
  BY DEF Rotated, BlTypeOK, Logs, Turn
<1>2. BlTypeOK' /\ BoundInv' /\ ActiveInv'
  BY <1>1 DEF BlTypeOK, BoundInv, ActiveInv, Logs, Places
<1>3. PurgeInv'
  BY <1>1 DEF PurgeInv, Needed, BlTypeOK, Logs
<1>4. ~Turn(active + 1)
  BY DEF Turn, ActiveInv, BlTypeOK, Logs
<1>5. MoveInv'
  BY <1>1, <1>4 DEF MoveInv, Updating, BoundInv, BlTypeOK, Logs
<1> QED
  BY <1>2, <1>3, <1>5

LEMMA PurgeStep ==
  ASSUME BlInv, Purge PROVE BlInv'
<1> USE BlAssumption DEF BlInv
<1> DEFINE to == IF blConf.target = 0 THEN inUse ELSE blConf.target
           gone == IF indexed[to] = "none" THEN {} ELSE PurgedTo(to)
<1>1. /\ blPhase = "purge" /\ blPhase' = "done"
      /\ UNCHANGED <<blConf, newIndex, inUse, todo, active, reading, dumping>>
      /\ files' = [k \in Logs |-> IF k \in gone THEN "none" ELSE files[k]]
      /\ indexed' = [k \in Logs |-> IF k \in gone THEN "none" ELSE indexed[k]]
  BY DEF Purge, BlEnd, blSlaves
<1>2. to \in Logs
  BY DEF BlTypeOK, Logs
<1>3. \A k \in gone : k < active
  BY <1>2 DEF PurgedTo, BoundInv, BlTypeOK, Logs
<1>4. blConf.tool = "purge" /\ blConf.target = 0 =>
        \A k \in gone : \A s \in PurgeSlaves : k < reading[s]
  <2> SUFFICES ASSUME blConf.tool = "purge", blConf.target = 0,
                      NEW k \in gone, NEW s \in PurgeSlaves
               PROVE  k < reading[s]
    OBVIOUS
  <2>1. k \in Logs /\ k < inUse
    BY DEF PurgedTo
  <2>2. inUse <= reading[s]
    BY <1>1 DEF PurgeInv
  <2> QED
    BY <2>1, <2>2 DEF BlTypeOK, Logs
<1> HIDE DEF to, gone
<1>5. BlTypeOK' /\ BoundInv' /\ ActiveInv'
  BY <1>1, <1>3 DEF BlTypeOK, BoundInv, ActiveInv, Logs, Places
<1>6. MoveInv'
  BY <1>1 DEF MoveInv, Updating, BlTypeOK
<1>7. PurgeInv'
  BY <1>1, <1>4 DEF PurgeInv, Needed, BlTypeOK, BoundInv, Logs
<1> QED
  BY <1>5, <1>6, <1>7

\* The steps that look at the servers.
LEMMA LookStep ==
  ASSUME BlInv, PurgeStart \/ VerifySlaves \/ DeterminePurgeable
  PROVE  BlInv'
<1> USE BlAssumption DEF BlInv
<1>1. /\ UNCHANGED <<blConf, newIndex, active, files, indexed, reading, dumping>>
      /\ todo' \in {todo, {}} /\ inUse' \in Logs /\ inUse' <= active
      /\ blPhase' \in {"verify", "status", "error", "purge"}
      /\ blPhase \in {"start", "verify", "status"}
  BY DEF PurgeStart, VerifySlaves, DeterminePurgeable, BlEnd, blServer, blSlaves,
         BlTypeOK, BoundInv, Logs
<1>2. BlTypeOK' /\ BoundInv' /\ ActiveInv' /\ MoveInv'
  BY <1>1 DEF BlTypeOK, BoundInv, ActiveInv, MoveInv, Updating
<1>3. blPhase' = "purge" /\ blConf.tool = "purge" => \A s \in PurgeSlaves : inUse' <= reading[s]
  BY DEF PurgeStart, VerifySlaves, DeterminePurgeable, BlEnd
<1>4. PurgeInv'
  BY <1>1, <1>3 DEF PurgeInv, Needed
<1> QED
  BY <1>2, <1>4

LEMMA SlaveStep ==
  ASSUME BlInv, NEW s \in PurgeSlaves, SlaveReads(s) \/ SlaveConnects(s)
  PROVE  BlInv'
<1> USE BlAssumption DEF BlInv
<1>1. /\ UNCHANGED <<blPhase, blConf, newIndex, inUse, todo, active, files, indexed>>
      /\ dumping' \subseteq PurgeSlaves
      /\ \A m \in Logs : Turn(m)' = Turn(m)
  BY DEF SlaveReads, SlaveConnects, blTool, blServer, BlTypeOK, Turn
<1>2. /\ reading' \in [PurgeSlaves -> Logs]
      /\ \A r \in PurgeSlaves : reading'[r] <= active /\ reading[r] <= reading'[r]
  <2>1. CASE SlaveReads(s)
    <3>1. reading[s] < active /\ reading' = [reading EXCEPT ![s] = reading[s] + 1]
      BY <2>1 DEF SlaveReads
    <3>2. reading[s] + 1 \in Logs /\ reading[s] + 1 <= active
      BY <3>1 DEF BlTypeOK, Logs
    <3> QED
      BY <3>1, <3>2 DEF BlTypeOK, BoundInv, Logs
  <2>2. CASE SlaveConnects(s)
    BY <2>2 DEF SlaveConnects, BlTypeOK, BoundInv, Logs
  <2> QED
    BY <2>1, <2>2
<1>3. BlTypeOK' /\ BoundInv' /\ ActiveInv' /\ MoveInv'
  BY <1>1, <1>2 DEF BlTypeOK, BoundInv, ActiveInv, MoveInv
<1>4. PurgeInv'
  BY <1>1, <1>2 DEF PurgeInv, Needed, BlTypeOK, Logs
<1> QED
  BY <1>3, <1>4

LEMMA BlStep == BlInv /\ [BlNext]_blVars => BlInv'
<1> SUFFICES ASSUME BlInv, [BlNext]_blVars PROVE BlInv'
  OBVIOUS
<1>1. CASE ListLogs
  BY <1>1, ListStep
<1>2. CASE \E n \in Logs : \/ MoveFile(n) \/ PrepareIndex(n) \/ IndexError(n)
                           \/ ReplaceIndex(n) \/ ReplaceFails(n)
  BY <1>2, MoveStep
<1>3. CASE FlushAfterMove \/ RotateLog \/ ServerRotates
  <2>1. CASE Rotated
    BY <1>3, <2>1, RotateStep
    DEF FlushAfterMove, RotateLog, ServerRotates, BlEnd, blTool, blSlaves, Updating
  <2>2. CASE ~Rotated
    <3>1. /\ UNCHANGED <<blConf, newIndex, inUse, todo, active, files, indexed, reading, dumping>>
          /\ blPhase' = "done" /\ blPhase \in {"start", "moving"}
      BY <1>3, <2>2 DEF FlushAfterMove, RotateLog, ServerRotates, BlEnd, blServer, blSlaves
    <3> QED
      BY <3>1 DEF BlInv, BlTypeOK, BoundInv, ActiveInv, MoveInv, Updating, PurgeInv, Needed
  <2> QED
    BY <2>1, <2>2
<1>4. CASE PurgeStart \/ VerifySlaves \/ DeterminePurgeable
  BY <1>4, LookStep
<1>5. CASE Purge
  BY <1>5, PurgeStep
<1>6. CASE \E s \in PurgeSlaves : SlaveReads(s) \/ SlaveConnects(s)
  BY <1>6, SlaveStep
<1>7. CASE UNCHANGED blVars
  <2>1. \A m \in Logs : Turn(m)' = Turn(m)
    BY <1>7 DEF Turn, blVars, blTool
  <2> QED
    BY <1>7, <2>1 DEF blVars, blTool, blServer, blSlaves, BlInv, BlTypeOK, BoundInv,
                      ActiveInv, MoveInv, PurgeInv, Needed
<1> QED
  BY <1>1, <1>2, <1>3, <1>4, <1>5, <1>6, <1>7 DEF BlNext

----------------------------------------------------------------------------
\* move_binary_log: the index names no log where it does not lie, but the one
\* that is being moved or whose move was broken off without an undo.
THEOREM IndexIsRight == BlSpec => []IndexMatchesFiles
<1>1. BlInv => IndexMatchesFiles
  BY DEF BlInv, MoveInv, IndexMatchesFiles
<1> QED
  BY <1>1, BlInitially, BlStep, PTL DEF BlSpec

\* mysqlbinlogpurge without a target keeps every log that a slave needs.
THEOREM NeededAreKept == BlSpec => []NeededLogsKept
<1>1. BlInv => NeededLogsKept
  BY DEF BlInv, PurgeInv, NeededLogsKept
<1> QED
  BY <1>1, BlInitially, BlStep, PTL DEF BlSpec

\* mysqlbinlogmove leaves the active log alone as long as no sequence number
\* has more digits than the others.
THEOREM ActiveIsLeft ==
  ASSUME MaxLog <= Wrap PROVE BlSpec => []ActiveLogStays
<1>1. BlInv => ActiveLogStays
  BY DEF BlInv, ActiveInv, ActiveLogStays
<1> QED
  BY <1>1, BlInitially, BlStep, PTL DEF BlSpec

----------------------------------------------------------------------------
(***************************************************************************)
(* mysqlindexcheck.  An index that has been marked is nobody's cover from    *)
(* then on: whoever relied on it relies on the index it was reported for.    *)
(***************************************************************************)

Listed == masterList \cup foundNow
Whole == \A x \in Ixs : ~ColumnSubparts(x)

\* In one round an index is found where it is visited, or is the round's own.
FoundInv == \A x \in foundNow : x < ixInner \/ (x = ixOuter /\ ixInner > 1)

\* Whatever is listed has been marked, or was listed for PRIMARY in its round.
MarkedInv ==
  /\ \A x \in masterList : x \in compared \/ (x < ixOuter /\ ForPrimary(x))
  /\ \A x \in foundNow : x \in compared \/ (x = ixOuter /\ ForPrimary(x))

\* Whatever is listed has another index that serves its lookups.
CoveredBy(x, y) ==
  IF ForPrimary(x) THEN y = 1
  ELSE IsDuplicate(x, y) /\ (y \notin Listed \/ ForPrimary(y))
CoverInv == \A x \in Listed : \E y \in Ixs \ {x} : CoveredBy(x, y)

IxInv == IxTypeOK /\ FoundInv /\ (Whole => MarkedInv /\ CoverInv)

----------------------------------------------------------------------------
LEMMA TableIs ==
  ASSUME IxTypeOK
  PROVE  /\ Len(ixTable.indexes) \in Nat \ {0, 1} /\ Ixs = 1..Len(ixTable.indexes)
         /\ \A x \in Ixs : Len(Cols(x)) \in Nat /\ DOMAIN Cols(x) = 1..Len(Cols(x))
BY IxAssumption DEF IxTypeOK, Ixs, Cols

\* Without prefixes columns are compared by their names alone.
LEMMA DuplicateOfDuplicate ==
  ASSUME IxTypeOK, Whole, NEW x \in Ixs, NEW y \in Ixs, NEW z \in Ixs,
         IsDuplicate(x, y), IsDuplicate(y, z)
  PROVE  IsDuplicate(x, z)
<1>. DEFINE a == Cols(x)
            b == Cols(y)
            c == Cols(z)
            Same(p, q) == \A i \in (DOMAIN p) \cap (DOMAIN q) : CmpColumns(p[i], q[i])
            In(p, q) == \A i \in DOMAIN p : \E j \in DOMAIN q : CmpColumns(p[i], q[j])
<1>1. /\ Len(a) \in Nat /\ DOMAIN a = 1..Len(a) /\ Len(b) \in Nat /\ DOMAIN b = 1..Len(b)
      /\ Len(c) \in Nat /\ DOMAIN c = 1..Len(c)
  BY TableIs
<1>2. /\ \A i \in DOMAIN a : a[i].sub = 0
      /\ \A i \in DOMAIN b : b[i].sub = 0
      /\ \A i \in DOMAIN c : c[i].sub = 0
  BY DEF Whole, ColumnSubparts
<1>3. /\ \A i \in DOMAIN a, j \in DOMAIN b : CmpColumns(a[i], b[j]) <=> a[i].col = b[j].col
      /\ \A i \in DOMAIN b, j \in DOMAIN c : CmpColumns(b[i], c[j]) <=> b[i].col = c[j].col
      /\ \A i \in DOMAIN a, j \in DOMAIN c : CmpColumns(a[i], c[j]) <=> a[i].col = c[j].col
  BY <1>2 DEF CmpColumns
<1>. HIDE DEF a, b, c
<1>4. CASE ixTable.type = "BTREE"
  <2>1. Same(a, b) /\ Len(a) <= Len(b) /\ Same(b, c) /\ Len(b) <= Len(c)
    BY <1>4 DEF IsDuplicate, CheckColumnList, a, b, c
  <2>2. Same(a, c) /\ Len(a) <= Len(c)
    BY <1>1, <1>3, <2>1
  <2>. QED
    BY <1>4, <2>2 DEF IsDuplicate, CheckColumnList, a, c
<1>5. CASE ixTable.type = "FULLTEXT"
  <2>1. In(a, b) /\ In(b, c)
    BY <1>5 DEF IsDuplicate, CheckColumnList, a, b, c
  <2>2. In(a, c)
    BY <1>3, <2>1
  <2>. QED
    BY <1>5, <2>2 DEF IsDuplicate, CheckColumnList, a, c
<1>6. CASE ixTable.type \notin {"BTREE", "FULLTEXT"}
  <2>1. Same(a, b) /\ Len(a) = Len(b) /\ Same(b, c) /\ Len(b) = Len(c)
    BY <1>6 DEF IsDuplicate, CheckColumnList, a, b, c
  <2>2. Same(a, c) /\ Len(a) = Len(c)
    BY <1>1, <1>3, <2>1
  <2>. QED
    BY <1>6, <2>2 DEF IsDuplicate, CheckColumnList, a, c
<1>. QED
  BY <1>4, <1>5, <1>6

LEMMA IxInitially == IxInit => IxInv
<1>. SUFFICES ASSUME IxInit PROVE IxInv
  OBVIOUS
<1>1. Len(ixTable.indexes) \in Nat \ {0, 1} /\ Ixs = 1..Len(ixTable.indexes)
  BY IxAssumption DEF IxInit, Ixs
<1>2. IxTypeOK
  BY <1>1 DEF IxInit, IxTypeOK
<1>. QED
  BY <1>2 DEF IxInit, IxInv, FoundInv, MarkedInv, CoverInv, Listed

\* One pair: what it finds is found once, and is covered by an index that has
\* not been marked.
LEMMA PairKeeps == IxInv /\ CheckPair => IxInv'
<1>. SUFFICES ASSUME IxInv, CheckPair PROVE IxInv'
  OBVIOUS
<1>1. IxTypeOK /\ FoundInv
  BY DEF IxInv
<1>2. PICK o \in Ixs, i \in Ixs : o = ixOuter /\ i = ixInner
  BY <1>1 DEF CheckPair, IxTypeOK
<1>3. PICK n \in Nat \ {0, 1} : n = Len(ixTable.indexes) /\ Ixs = 1..n
  BY <1>1, TableIs
<1>4. /\ UNCHANGED ixTable
      /\ Ixs' = Ixs /\ \A x : Cols(x)' = Cols(x) /\ Primary(x)' = Primary(x)
      /\ \A x, y : IsDuplicate(x, y)' <=> IsDuplicate(x, y)
      /\ \A x : ColumnSubparts(x)' <=> ColumnSubparts(x)
  BY DEF CheckPair, Ixs, Cols, Primary, IsDuplicate, CheckColumnList, ColumnSubparts
<1>5. PICK loser \in {o, i}, keeper \in {o, i}, hit \in BOOLEAN, new \in BOOLEAN :
        /\ hit = (o # i /\ o \notin compared /\ IsDuplicate(i, o))
        /\ new = (hit /\ i \notin masterList)
        /\ IF Primary(i) THEN loser = o /\ keeper = i ELSE loser = i /\ keeper = o
        /\ compared' = IF hit THEN MarkCompared(i) ELSE compared
        /\ duplicateOf' = IF new THEN [duplicateOf EXCEPT ![loser] = keeper] ELSE duplicateOf
        /\ IF i = n THEN /\ ixOuter' = o + 1 /\ ixInner' = 1 /\ foundNow' = {}
                         /\ masterList' = masterList \cup foundNow \cup {x \in {loser} : new}
           ELSE /\ ixInner' = i + 1 /\ foundNow' = foundNow \cup {x \in {loser} : new}
                /\ ixOuter' = o /\ masterList' = masterList
  <2>. DEFINE hit == o # i /\ o \notin compared /\ IsDuplicate(i, o)
              loser == IF Primary(i) THEN o ELSE i
              keeper == IF Primary(i) THEN i ELSE o
              new == hit /\ i \notin masterList
  <2>1. /\ compared' = IF hit THEN MarkCompared(i) ELSE compared
        /\ duplicateOf' = IF new THEN [duplicateOf EXCEPT ![loser] = keeper] ELSE duplicateOf
        /\ IF i = n THEN /\ ixOuter' = o + 1 /\ ixInner' = 1 /\ foundNow' = {}
                         /\ masterList' = masterList \cup foundNow \cup {x \in {loser} : new}
           ELSE /\ ixInner' = i + 1 /\ foundNow' = foundNow \cup {x \in {loser} : new}
                /\ ixOuter' = o /\ masterList' = masterList
    BY <1>2, <1>3, <1>4 DEF CheckPair
  <2>2. hit \in BOOLEAN /\ new \in BOOLEAN /\ loser \in {o, i} /\ keeper \in {o, i}
    BY DEF IsDuplicate, CheckColumnList
  <2>3. IF Primary(i) THEN loser = o /\ keeper = i ELSE loser = i /\ keeper = o
    OBVIOUS
  <2>. QED
    BY <2>1, <2>2, <2>3
<1>6. Listed' = Listed \cup {x \in {loser} : new}
  BY <1>5 DEF Listed
<1>7. compared \subseteq compared' /\ compared' \subseteq compared \cup {i}
  BY <1>5 DEF MarkCompared
<1>8. IxTypeOK'
  <2>1. /\ ixOuter' \in 1..(n + 1) /\ ixInner' \in Ixs
    BY <1>2, <1>3, <1>5
  <2>2. duplicateOf' \in [Ixs -> Ixs \cup {0}]
    BY <1>1, <1>5 DEF IxTypeOK
  <2>3. compared' \subseteq Ixs /\ foundNow' \subseteq Ixs /\ masterList' \subseteq Ixs
    BY <1>1, <1>5, <1>7 DEF IxTypeOK
  <2>. QED
    BY <1>1, <1>3, <1>4, <2>1, <2>2, <2>3 DEF IxTypeOK
<1>9. FoundInv'
  <2>1. \A x \in foundNow : x \in Ixs /\ (x < i \/ (x = o /\ i > 1))
    BY <1>1, <1>2 DEF FoundInv, IxTypeOK
  <2>2. new => loser = i \/ loser = o
    BY <1>5
  <2>3. i > 1 \/ i = 1
    BY <1>3
  <2>. QED
    BY <1>2, <1>3, <1>5, <2>1, <2>2, <2>3 DEF FoundInv
<1>10. ASSUME Whole' PROVE MarkedInv' /\ CoverInv'
  <2>1. Whole /\ MarkedInv /\ CoverInv
    BY <1>10, <1>4 DEF Whole, IxInv
  <2>2. hit => i \in compared'
    BY <1>5, <2>1 DEF MarkCompared, Whole
  \* What is found is new.
  <2>3. new => loser \notin Listed /\ loser # keeper
    <3>1. CASE new /\ Primary(i)
      <4>1. i = 1 /\ loser = o /\ keeper = i /\ o # i /\ o \notin compared
        BY <1>5, <3>1 DEF Primary
      <4>2. o \notin masterList
        BY <1>2, <2>1, <4>1 DEF MarkedInv
      <4>3. o \notin foundNow
        BY <1>1, <1>2, <1>3, <4>1 DEF FoundInv
      <4>. QED
        BY <4>1, <4>2, <4>3 DEF Listed
    <3>2. CASE new /\ ~Primary(i)
      <4>1. loser = i /\ keeper = o /\ o # i /\ i \notin masterList
        BY <1>5, <3>2
      <4>2. i \notin foundNow
        BY <1>1, <1>2, <1>3, <4>1 DEF FoundInv
      <4>. QED
        BY <4>1, <4>2 DEF Listed
    <3>. QED
      BY <1>5, <3>1, <3>2
  <2>4. ASSUME NEW x \in Ixs, ~new \/ x # loser
        PROVE  ForPrimary(x)' <=> ForPrimary(x)
    BY <1>1, <1>4, <1>5, <2>4 DEF ForPrimary, IxTypeOK
  <2>5. new => duplicateOf'[loser] = keeper
    BY <1>1, <1>5 DEF IxTypeOK
  <2>6. new /\ Primary(i) => ForPrimary(loser)'
    BY <1>4, <1>5, <2>5 DEF ForPrimary, Primary
  <2>7. Listed \subseteq Ixs
    BY <1>1 DEF Listed, IxTypeOK
  <2>8. MarkedInv'
    <3>1. ASSUME NEW x \in masterList
          PROVE  x \in compared' \/ (x < o /\ ForPrimary(x)')
      BY <1>2, <1>7, <2>1, <2>3, <2>4, <2>7 DEF MarkedInv, Listed
    <3>2. ASSUME NEW x \in foundNow
          PROVE  x \in compared' \/ (x = o /\ ForPrimary(x)')
      BY <1>2, <1>7, <2>1, <2>3, <2>4, <2>7 DEF MarkedInv, Listed
    <3>3. new => loser \in compared' \/ (loser = o /\ ForPrimary(loser)')
      BY <1>5, <2>2, <2>6
    <3>4. o < o + 1
      BY <1>3
    <3>5. \A x \in Ixs : x < o => x < o + 1
      BY <1>3
    <3>6. CASE i = n
      <4>1. /\ ixOuter' = o + 1 /\ foundNow' = {}
            /\ masterList' = masterList \cup foundNow \cup {x \in {loser} : new}
        BY <1>5, <3>6
      <4>. QED
        BY <2>7, <3>1, <3>2, <3>3, <3>4, <3>5, <4>1 DEF MarkedInv, Listed
    <3>7. CASE i # n
      <4>1. /\ ixOuter' = o /\ masterList' = masterList
            /\ foundNow' = foundNow \cup {x \in {loser} : new}
        BY <1>5, <3>7
      <4>. QED
        BY <3>1, <3>2, <3>3, <4>1 DEF MarkedInv
    <3>. QED
      BY <3>6, <3>7
  <2>9. CoverInv'
    <3>1. ASSUME NEW x \in Listed
          PROVE  \E y \in Ixs \ {x} : CoveredBy(x, y)'
      <4>1. PICK y \in Ixs \ {x} : CoveredBy(x, y)
        BY <2>1 DEF CoverInv
      <4>2. x \in Ixs /\ (ForPrimary(x)' <=> ForPrimary(x))
        BY <2>3, <2>4, <2>7
      <4>3. CASE ForPrimary(x) \/ ~new \/ y # loser
        <5>1. ForPrimary(x) => CoveredBy(x, y)'
          BY <4>1, <4>2 DEF CoveredBy
        <5>2. ~ForPrimary(x) /\ (~new \/ y # loser) => CoveredBy(x, y)'
          BY <1>4, <1>6, <2>4, <4>1, <4>2 DEF CoveredBy
        <5>. QED
          BY <4>1, <4>3, <5>1, <5>2
      <4>4. CASE ~ForPrimary(x) /\ new /\ y = loser /\ Primary(i)
        BY <1>4, <2>6, <4>1, <4>2, <4>4 DEF CoveredBy
      <4>5. CASE ~ForPrimary(x) /\ new /\ y = loser /\ ~Primary(i)
        <5>1. y = i /\ IsDuplicate(x, i) /\ IsDuplicate(i, o) /\ o \notin compared /\ o # i
          BY <1>5, <4>1, <4>5 DEF CoveredBy
        <5>2. x \in compared
          BY <2>1, <4>5 DEF MarkedInv, Listed
        <5>3. IsDuplicate(x, o) /\ o \in Ixs \ {x}
          BY <1>1, <2>1, <4>2, <5>1, <5>2, DuplicateOfDuplicate
        <5>4. o \notin Listed \/ ForPrimary(o)
          BY <2>1, <5>1 DEF MarkedInv, Listed
        <5>5. o \notin Listed' \/ ForPrimary(o)'
          BY <1>5, <1>6, <2>4, <4>5, <5>1, <5>4
        <5>. QED
          BY <1>4, <4>2, <4>5, <5>3, <5>5 DEF CoveredBy
      <4>. QED
        BY <4>3, <4>4, <4>5
    <3>2. ASSUME new PROVE \E y \in Ixs \ {loser} : CoveredBy(loser, y)'
      <4>1. CASE Primary(i)
        BY <1>4, <1>5, <2>3, <2>6, <3>2, <4>1 DEF CoveredBy, Primary
      <4>2. CASE ~Primary(i)
        <5>1. loser = i /\ keeper = o /\ o # i /\ o \notin compared /\ IsDuplicate(i, o)
          BY <1>5, <3>2, <4>2
        <5>2. o \notin Listed' \/ ForPrimary(o)'
          BY <1>6, <2>1, <2>4, <5>1 DEF MarkedInv, Listed
        <5>3. ForPrimary(i)' => o = 1
          BY <2>5, <3>2, <5>1 DEF ForPrimary
        <5>. QED
          BY <1>4, <5>1, <5>2, <5>3 DEF CoveredBy
      <4>. QED
        BY <4>1, <4>2
    <3>. QED
      BY <1>4, <1>6, <3>1, <3>2 DEF CoverInv
  <2>. QED
    BY <2>8, <2>9
<1>. QED
  BY <1>8, <1>9, <1>10 DEF IxInv

\* What has been reported is covered, pair by pair.
LEMMA IxInvariance == IxSpec => []IxInv
<1>1. IxInv /\ UNCHANGED ixVars => IxInv'
  BY DEF IxInv, IxTypeOK, FoundInv, MarkedInv, CoverInv, CoveredBy, Listed, Whole, ixVars,
         Ixs, Cols, Primary, IsDuplicate, CheckColumnList, ColumnSubparts, ForPrimary
<1>2. IxInv /\ [CheckPair]_ixVars => IxInv'
  BY <1>1, PairKeeps
<1>. QED
  BY <1>2, IxInitially, PTL DEF IxSpec

\* mysqlindexcheck: executing all that it suggests leaves, for each index that is
\* dropped, one that serves the same lookups, unless a DROP/ADD reorders one.
THEOREM DropsKeepCover == IxSpec => []CoverKept
<1>1. ASSUME IxInv, ixOuter \notin Ixs, \A y \in Ixs : Unharmed(y), NEW x \in masterList
      PROVE  \E y \in Ixs \ {x} :
               IF ForPrimary(x) THEN y = 1 ELSE
                 \/ CheckColumnList(Cols(x), LeftOf(y))
                 \/ IsDuplicate(x, y) /\ ForPrimary(y)
  <2>1. x \in Ixs /\ CoverInv
    BY <1>1 DEF IxInv, IxTypeOK, Unharmed, Whole
  <2>2. PICK y \in Ixs \ {x} : CoveredBy(x, y)
    BY <1>1, <2>1 DEF CoverInv, Listed
  <2>3. y \notin masterList => LeftOf(y) = Cols(y)
    BY <1>1 DEF LeftOf, Unharmed
  <2>4. ~ForPrimary(x) /\ ~ForPrimary(y) => CheckColumnList(Cols(x), LeftOf(y))
    BY <2>2, <2>3 DEF CoveredBy, Listed, IsDuplicate
  <2>. QED
    BY <2>2, <2>4 DEF CoveredBy
<1>2. IxInv => CoverKept
  BY <1>1 DEF CoverKept
<1>. QED
  BY <1>2, IxInvariance, PTL

----------------------------------------------------------------------------
\* mysqlrplshow.

Found == ToSet(mastersFound)
Met == Found \cup ({entering} \ {NoHost})

\* Nobody is entered who has been found.
OnceInv ==
  /\ IsInjective(mastersFound) /\ entering \notin Found
  /\ tmPhase = "done" => tmStack = <<>> /\ entering = NoHost

\* A call works for a master that was found, and visits slaves with an address.
FrameInv ==
  \A k \in DOMAIN tmStack :
    /\ tmStack[k].master \in Found
    /\ \A i \in tmStack[k].left : /\ i \in DOMAIN listing[tmStack[k].master]
                                 /\ listing[tmStack[k].master][i] # NoHost

\* A walk in which nothing is left out.
Unhindered ==
  /\ tmConf.recurse /\ tmConf.maxDepth = -1 /\ tmDown = {}
  /\ \A m \in TmReach : ~Contains(listing[m], NoHost)

\* Everyone met belongs to the topology, and is on the map or still to be visited
\* by the call for its master.
ReachedInv == TmSeed \in Met /\ Met \subseteq TmReach
MapInv ==
  \A m, s : <<m, s>> \in mapped => m \in Found /\ s \in Told(m) /\ s \in Met
LeftInv ==
  \A m \in Found : \A i \in DOMAIN listing[m] :
    \/ <<m, listing[m][i]>> \in mapped
    \/ \E k \in DOMAIN tmStack : tmStack[k].master = m /\ i \in tmStack[k].left
WalkInv == ReachedInv /\ MapInv /\ LeftInv

TmInv == TmTypeOK /\ OnceInv /\ FrameInv /\ (Unhindered => WalkInv)

----------------------------------------------------------------------------
LEMMA ListingIs ==
  ASSUME TmTypeOK
  PROVE  \A m \in TmHosts : /\ listing[m] \in Seq(TmHosts \cup {NoHost})
                            /\ DOMAIN listing[m] = 1..Len(listing[m]) /\ Len(listing[m]) \in Nat
                            /\ Told(m) \subseteq TmHosts
<1>1. ASSUME NEW m \in TmHosts PROVE listing[m] \in Seq(TmHosts \cup {NoHost})
  BY TmAssumption DEF TmTypeOK
<1>2. ASSUME NEW m \in TmHosts PROVE Told(m) \subseteq TmHosts
  BY <1>1 DEF Told, ToSet
<1>. QED
  BY <1>1, <1>2

\* The topology is closed: a slave of a member is a member.
LEMMA ReachClosed ==
  ASSUME TmTypeOK
  PROVE  /\ TmSeed \in TmReach /\ TmReach \subseteq TmHosts
         /\ \A m \in TmReach : Told(m) \subseteq TmReach
<1>1. TmSeed \in TmReach /\ TmReach \subseteq TmHosts
  BY TmAssumption DEF TmReach
<1>2. ASSUME NEW m \in TmReach, NEW s \in Told(m)
      PROVE  s \in TmReach
  BY <1>1, ListingIs DEF TmReach
<1>. QED
  BY <1>1, <1>2

\* In such a walk all the slaves of a master are visited.
LEMMA AllSlaves ==
  ASSUME TmTypeOK, Unhindered, NEW m \in TmReach
  PROVE  /\ GetSlaves(m) = DOMAIN listing[m]
         /\ \A i \in DOMAIN listing[m] : listing[m][i] \in Told(m)
<1>1. m \in TmHosts
  BY DEF TmReach
<1>2. \A i \in DOMAIN listing[m] : listing[m][i] # NoHost
  BY <1>1, ListingIs DEF Unhindered, Contains
<1>3. GetSlaves(m) = DOMAIN listing[m]
  BY <1>1, <1>2, ListingIs DEF GetSlaves, Unhindered
<1>. QED
  BY <1>2, <1>3 DEF Told, ToSet

LEMMA TmInitially == TmInit => TmInv
<1>. SUFFICES ASSUME TmInit PROVE TmInv
  OBVIOUS
<1>1. TmTypeOK
  BY TmAssumption DEF TmInit, TmTypeOK
<1>2. OnceInv /\ Found = {} /\ Met = {TmSeed}
  BY TmAssumption DEF TmInit, OnceInv, Found, Met, ToSet, IsInjective
<1>3. WalkInv
  BY <1>1, <1>2, ReachClosed DEF TmInit, WalkInv, ReachedInv, MapInv, LeftInv
<1>4. FrameInv
  BY DEF TmInit, FrameInv
<1>. QED
  BY <1>1, <1>2, <1>3, <1>4 DEF TmInv

\* What does not change with the walk.
LEMMA SameTopology ==
  ASSUME UNCHANGED <<tmConf, listing>>
  PROVE  /\ TmReach' = TmReach /\ \A m : Told(m)' = Told(m)
         /\ tmDown \subseteq tmDown' /\ Unhindered' => Unhindered
<1>1. TmReach' = TmReach /\ \A m : Told(m)' = Told(m)
  BY DEF TmReach, Told
<1>. QED
  BY <1>1 DEF Unhindered

LEMMA ConnectKeeps == TmInv /\ ConnectMaster => TmInv'
<1>. SUFFICES ASSUME TmInv, ConnectMaster PROVE TmInv'
  OBVIOUS
<1>1. PICK e \in TmHosts : e = entering /\ e # NoHost
  BY TmAssumption DEF TmInv, TmTypeOK, ConnectMaster
<1>2. /\ TmTypeOK /\ OnceInv /\ FrameInv /\ tmPhase = "walking" /\ entering' = NoHost
      /\ UNCHANGED <<tmConf, listing, tmDown, mapped>>
      /\ mastersFound \in Seq(TmHosts) /\ tmStack \in Seq(TmFrames)
  BY DEF TmInv, TmTypeOK, ConnectMaster
<1>3. CASE e \in tmDown
  <2>1. tmPhase' = "error" /\ UNCHANGED <<tmStack, mastersFound>>
    BY <1>1, <1>3 DEF ConnectMaster
  <2>2. TmTypeOK'
    BY <1>2, <2>1 DEF TmTypeOK
  <2>3. OnceInv'
    BY <1>2, <2>1, TmAssumption DEF OnceInv, Found, ToSet
  <2>4. ~Unhindered'
    BY <1>2, <1>3 DEF Unhindered
  <2>5. FrameInv'
    BY <1>2, <2>1 DEF FrameInv, Found
  <2>. QED
    BY <2>2, <2>3, <2>4, <2>5 DEF TmInv
<1>4. CASE e \notin tmDown
  <2>. DEFINE f == [master |-> e, left |-> GetSlaves(e), depth |-> 0]
  <2>1. /\ mastersFound' = Append(mastersFound, e) /\ tmStack' = <<f>> \o tmStack
        /\ tmPhase' = tmPhase
    BY <1>1, <1>4 DEF ConnectMaster
  <2>2. f \in TmFrames /\ f.master = e /\ f.left = GetSlaves(e)
    BY <1>2, ListingIs DEF TmFrames, GetSlaves
  <2>. HIDE DEF f
  <2>3. TmTypeOK'
    <3>1. tmStack' \in Seq(TmFrames) /\ mastersFound' \in Seq(TmHosts)
      BY <1>2, <2>1, <2>2
    <3>. QED
      BY <1>2, <2>1, <3>1 DEF TmTypeOK
  <2>4. /\ DOMAIN tmStack = 1..Len(tmStack) /\ DOMAIN tmStack' = 1..(Len(tmStack) + 1)
        /\ Len(tmStack) \in Nat /\ tmStack'[1] = f
        /\ \A k \in DOMAIN tmStack : tmStack'[k + 1] = tmStack[k]
        /\ \A k \in DOMAIN tmStack' : k = 1 \/ (k - 1 \in DOMAIN tmStack /\ tmStack'[k] = tmStack[k - 1])
    BY <1>2, <2>1, <2>2
  <2>5. Found' = Found \cup {e} /\ IsInjective(mastersFound')
    <3>1. /\ DOMAIN mastersFound = 1..Len(mastersFound) /\ Len(mastersFound) \in Nat
          /\ DOMAIN mastersFound' = 1..(Len(mastersFound) + 1)
          /\ mastersFound'[Len(mastersFound) + 1] = e
          /\ \A i \in DOMAIN mastersFound : mastersFound'[i] = mastersFound[i]
      BY <1>2, <2>1
    <3>2. IsInjective(mastersFound) /\ \A i \in DOMAIN mastersFound : mastersFound[i] # e
      BY <1>1, <1>2 DEF OnceInv, Found, ToSet
    <3>3. IsInjective(mastersFound')
      BY <3>1, <3>2 DEF IsInjective
    <3>4. Found' = Found \cup {e}
      BY <3>1 DEF Found, ToSet
    <3>. QED
      BY <3>3, <3>4
  <2>6. OnceInv'
    <3>1. Found \subseteq TmHosts
      BY <1>2 DEF Found, ToSet
    <3>. QED
      BY <1>2, <2>1, <2>5, <3>1, TmAssumption DEF OnceInv
  <2>8. FrameInv'
    <3>1. \A i \in f.left : i \in DOMAIN listing[e] /\ listing[e][i] # NoHost
      BY <1>2, <2>2, ListingIs DEF GetSlaves
    <3>. QED
      BY <1>2, <2>2, <2>4, <2>5, <3>1 DEF FrameInv
  <2>7. ASSUME Unhindered' PROVE WalkInv'
    <3>1. Unhindered /\ WalkInv /\ TmReach' = TmReach /\ \A m : Told(m)' = Told(m)
      BY <1>2, <2>7, SameTopology DEF TmInv
    <3>2. Met' = Met /\ e \in Met /\ e \in TmReach
      BY <1>1, <1>2, <2>5, <3>1 DEF Met, WalkInv, ReachedInv
    <3>3. ReachedInv'
      BY <3>1, <3>2 DEF WalkInv, ReachedInv
    <3>4. f.left = DOMAIN listing[e]
      BY <1>2, <2>2, <3>1, <3>2, AllSlaves
    <3>6. MapInv'
      BY <1>2, <2>5, <3>1, <3>2 DEF WalkInv, MapInv
    <3>7. LeftInv'
      <4>1. ASSUME NEW m \in Found, NEW i \in DOMAIN listing[m]
            PROVE  \/ <<m, listing[m][i]>> \in mapped
                   \/ \E k \in DOMAIN tmStack' : tmStack'[k].master = m /\ i \in tmStack'[k].left
        <5>1. CASE \E k \in DOMAIN tmStack : tmStack[k].master = m /\ i \in tmStack[k].left
          <6>1. PICK k \in DOMAIN tmStack : tmStack[k].master = m /\ i \in tmStack[k].left
            BY <5>1
          <6>2. k + 1 \in DOMAIN tmStack' /\ tmStack'[k + 1] = tmStack[k]
            BY <2>4
          <6>. QED
            BY <6>1, <6>2
        <5>. QED
          BY <3>1, <5>1 DEF WalkInv, LeftInv
      <4>2. \A i \in DOMAIN listing[e] :
              1 \in DOMAIN tmStack' /\ tmStack'[1].master = e /\ i \in tmStack'[1].left
        BY <2>2, <2>4, <3>4
      <4>. QED
        BY <1>2, <2>5, <4>1, <4>2 DEF LeftInv
    <3>. QED
      BY <3>3, <3>6, <3>7 DEF WalkInv
  <2>. QED
    BY <2>3, <2>6, <2>7, <2>8 DEF TmInv
<1>. QED
  BY <1>3, <1>4

LEMMA FoundIs == \A h : Contains(mastersFound, h) <=> h \in Found
  BY DEF Contains, Found, ToSet

\* The call on top of the stack and the calls below it.
LEMMA TopAndRest ==
  ASSUME NEW S, NEW q \in Seq(S), q # <<>>
  PROVE  /\ 1 \in DOMAIN q /\ Head(q) = q[1] /\ Head(q) \in S
         /\ Tail(q) \in Seq(S)
         /\ \A k \in DOMAIN Tail(q) : k + 1 \in DOMAIN q /\ Tail(q)[k] = q[k + 1]
         /\ \A k \in DOMAIN q : k = 1 \/ (k - 1 \in DOMAIN Tail(q) /\ Tail(q)[k - 1] = q[k])
  OBVIOUS

LEMMA VisitKeeps == TmInv /\ VisitSlave => TmInv'
<1>. SUFFICES ASSUME TmInv, VisitSlave PROVE TmInv'
  OBVIOUS
<1>1. /\ TmTypeOK /\ OnceInv /\ tmPhase = "walking" /\ entering = NoHost
      /\ UNCHANGED <<tmConf, listing, tmDown, tmPhase, mastersFound>>
      /\ mastersFound \in Seq(TmHosts) /\ tmStack \in Seq(TmFrames) /\ tmStack # <<>>
  BY DEF TmInv, TmTypeOK, VisitSlave
<1>2. PICK f : f = Head(tmStack)
  OBVIOUS
<1>3. f \in TmFrames /\ f = tmStack[1] /\ f.master \in TmHosts /\ f.left \subseteq Nat /\ f.depth \in Nat
  <2>1. f \in TmFrames /\ f = tmStack[1]
    BY <1>1, <1>2, TopAndRest
  <2>. QED
    BY <2>1 DEF TmFrames
<1>4. PICK i, d, s :
        /\ i \in f.left /\ d \in BOOLEAN
        /\ s = listing[f.master][i] /\ d = Recurses(f, s)
        /\ mapped' = mapped \cup {<<f.master, s>>}
        /\ entering' = IF d THEN s ELSE NoHost
        /\ tmStack' = <<[f EXCEPT !.left = @ \ {i}, !.depth = IF d THEN @ + 1 ELSE @]>>
                        \o Tail(tmStack)
  BY <1>2 DEF VisitSlave, Recurses
<1>5. PICK g : g = [f EXCEPT !.left = @ \ {i}, !.depth = IF d THEN @ + 1 ELSE @]
  OBVIOUS
<1>6. g \in TmFrames /\ g.master = f.master /\ g.left = f.left \ {i}
  <2>1. f.left \ {i} \in SUBSET Nat /\ (IF d THEN f.depth + 1 ELSE f.depth) \in Nat
    BY <1>3
  <2>2. g = [f EXCEPT !.left = f.left \ {i}, !.depth = IF d THEN f.depth + 1 ELSE f.depth]
    BY <1>3, <1>5 DEF TmFrames
  <2>. QED
    BY <1>3, <2>1, <2>2 DEF TmFrames
<1>7. tmStack' = <<g>> \o Tail(tmStack)
  BY <1>4, <1>5
<1>8. /\ tmStack' \in Seq(TmFrames) /\ DOMAIN tmStack' = DOMAIN tmStack /\ tmStack'[1] = g
      /\ 1 \in DOMAIN tmStack /\ \A k \in DOMAIN tmStack : k # 1 => tmStack'[k] = tmStack[k]
  BY <1>1, <1>6, <1>7
<1>9. /\ f.master \in Found /\ i \in DOMAIN listing[f.master] /\ s # NoHost
      /\ s \in TmHosts /\ s \in Told(f.master)
  <2>1. f.master \in Found /\ i \in DOMAIN listing[f.master] /\ s # NoHost
    BY <1>3, <1>4, <1>8 DEF TmInv, FrameInv
  <2>2. s \in Told(f.master)
    BY <1>4, <2>1 DEF Told, ToSet
  <2>. QED
    BY <1>1, <1>3, <2>1, <2>2, ListingIs
<1>10. Found' = Found
  BY <1>1 DEF Found
<1>11. TmTypeOK'
  BY <1>1, <1>3, <1>4, <1>8, <1>9 DEF TmTypeOK
<1>12. OnceInv'
  <2>1. d => s \notin Found
    BY <1>4, FoundIs DEF Recurses
  <2>2. NoHost \notin Found
    BY <1>1, TmAssumption DEF Found, ToSet
  <2>. QED
    BY <1>1, <1>4, <1>10, <2>1, <2>2 DEF OnceInv
<1>13. FrameInv'
  BY <1>1, <1>3, <1>6, <1>8, <1>10 DEF TmInv, FrameInv
<1>14. ASSUME Unhindered' PROVE WalkInv'
  <2>1. /\ Unhindered /\ WalkInv /\ TmReach' = TmReach /\ \A m : Told(m)' = Told(m)
    BY <1>1, <1>14, SameTopology DEF TmInv
  <2>2. d <=> s \notin Found
    BY <1>4, <2>1, FoundIs DEF Unhindered, Recurses
  <2>3. Met' = Found \cup {s} /\ Met = Found
    BY <1>1, <1>4, <1>9, <1>10, <2>2 DEF Met
  <2>4. ReachedInv'
    BY <1>1, <1>9, <2>1, <2>3, ReachClosed DEF WalkInv, ReachedInv
  <2>5. MapInv'
    BY <1>4, <1>9, <1>10, <2>1, <2>3 DEF WalkInv, MapInv
  <2>6. LeftInv'
    <3>1. ASSUME NEW m \in Found, NEW j \in DOMAIN listing[m]
          PROVE  \/ <<m, listing[m][j]>> \in mapped'
                 \/ \E k \in DOMAIN tmStack' : tmStack'[k].master = m /\ j \in tmStack'[k].left
      <4>1. CASE <<m, listing[m][j]>> \in mapped
        BY <1>4, <4>1
      <4>2. ASSUME NEW k \in DOMAIN tmStack, tmStack[k].master = m, j \in tmStack[k].left
            PROVE  \/ <<m, listing[m][j]>> \in mapped'
                   \/ tmStack'[k].master = m /\ j \in tmStack'[k].left
        <5>1. CASE k # 1
          BY <1>8, <4>2, <5>1
        <5>2. CASE k = 1
          BY <1>3, <1>4, <1>6, <1>8, <4>2, <5>2
        <5>. QED
          BY <5>1, <5>2
      <4>. QED
        BY <1>8, <2>1, <4>1, <4>2 DEF WalkInv, LeftInv
    <3>. QED
      BY <1>1, <1>10, <3>1 DEF LeftInv
  <2>. QED
    BY <2>4, <2>5, <2>6 DEF WalkInv
<1>. QED
  BY <1>11, <1>12, <1>13, <1>14 DEF TmInv

LEMMA ReturnKeeps == TmInv /\ ReturnTopology => TmInv'
<1>. SUFFICES ASSUME TmInv, ReturnTopology PROVE TmInv'
  OBVIOUS
<1>1. /\ TmTypeOK /\ OnceInv /\ FrameInv /\ tmPhase = "walking" /\ entering = NoHost
      /\ UNCHANGED <<tmConf, listing, tmDown, entering, mastersFound, mapped>>
      /\ tmStack \in Seq(TmFrames) /\ tmStack # <<>> /\ Head(tmStack).left = {}
      /\ tmStack' = Tail(tmStack)
  BY DEF TmInv, TmTypeOK, ReturnTopology
<1>2. tmPhase' \in {"walking", "done"} /\ (tmPhase' = "done" => tmStack' = <<>>)
  BY <1>1 DEF ReturnTopology
<1>3. /\ tmStack' \in Seq(TmFrames) /\ tmStack[1].left = {}
      /\ \A k \in DOMAIN tmStack' : k + 1 \in DOMAIN tmStack /\ tmStack'[k] = tmStack[k + 1]
      /\ \A k \in DOMAIN tmStack : k = 1 \/ (k - 1 \in DOMAIN tmStack' /\ tmStack'[k - 1] = tmStack[k])
  <2>1. PICK q : q = tmStack
    OBVIOUS
  <2>. QED
    BY <1>1, <2>1, TopAndRest
<1>4. Found' = Found /\ Met' = Met
  BY <1>1 DEF Found, Met
<1>5. TmTypeOK' /\ OnceInv'
  BY <1>1, <1>2, <1>3, <1>4 DEF TmTypeOK, OnceInv
<1>6. FrameInv'
  BY <1>1, <1>3, <1>4 DEF FrameInv
<1>7. ASSUME Unhindered' PROVE WalkInv'
  <2>1. /\ Unhindered /\ WalkInv /\ TmReach' = TmReach /\ \A m : Told(m)' = Told(m)
    BY <1>1, <1>7, SameTopology DEF TmInv
  <2>2. ReachedInv' /\ MapInv'
    BY <1>1, <1>4, <2>1 DEF WalkInv, ReachedInv, MapInv
  <2>3. ASSUME NEW m \in Found, NEW j \in DOMAIN listing[m]
        PROVE  \/ <<m, listing[m][j]>> \in mapped
               \/ \E k \in DOMAIN tmStack' : tmStack'[k].master = m /\ j \in tmStack'[k].left
    <3>1. CASE <<m, listing[m][j]>> \in mapped
      BY <3>1
    <3>2. ASSUME NEW k \in DOMAIN tmStack, tmStack[k].master = m, j \in tmStack[k].left
          PROVE  \E l \in DOMAIN tmStack' : tmStack'[l].master = m /\ j \in tmStack'[l].left
      <4>1. k # 1
        BY <1>3, <3>2
      <4>. QED
        BY <1>3, <3>2, <4>1
    <3>. QED
      BY <2>1, <3>1, <3>2 DEF WalkInv, LeftInv
  <2>4. LeftInv'
    <3>1. listing' = listing /\ mapped' = mapped /\ Found' = Found
      BY <1>1, <1>4
    <3>. QED
      BY <2>3, <3>1 DEF LeftInv
  <2>. QED
    BY <2>2, <2>4 DEF WalkInv
<1>. QED
  BY <1>5, <1>6, <1>7 DEF TmInv

LEMMA LostKeeps ==
  ASSUME TmInv, NEW h \in TmHosts, ServerLost(h)
  PROVE  TmInv'
<1>1. /\ TmTypeOK /\ OnceInv /\ FrameInv /\ tmDown' = tmDown \cup {h}
      /\ UNCHANGED <<tmConf, listing, tmPhase, entering, tmStack, mastersFound, mapped>>
  BY DEF TmInv, ServerLost
<1>2. TmTypeOK'
  BY <1>1 DEF TmTypeOK
<1>3. OnceInv' /\ FrameInv'
  BY <1>1 DEF OnceInv, FrameInv, Found
<1>4. ~Unhindered'
  BY <1>1 DEF Unhindered
<1>. QED
  BY <1>2, <1>3, <1>4 DEF TmInv

LEMMA TmStutters == TmInv /\ UNCHANGED tmVars => TmInv'
<1>. SUFFICES ASSUME TmInv, UNCHANGED tmVars PROVE TmInv'
  OBVIOUS
<1>1. Found' = Found /\ Met' = Met
  BY DEF tmVars, Found, Met
<1>2. TmTypeOK' /\ OnceInv' /\ FrameInv'
  BY <1>1 DEF tmVars, TmInv, TmTypeOK, OnceInv, FrameInv
<1>3. ASSUME Unhindered' PROVE WalkInv'
  BY <1>1, <1>3, SameTopology
     DEF tmVars, TmInv, WalkInv, ReachedInv, MapInv, LeftInv
<1>. QED
  BY <1>2, <1>3 DEF TmInv

\* When the walk ends nobody is left to visit, so what was found is closed under
\* "is a slave of", and the topology is the least such set.
LEMMA MapIsWhole == TmInv => TopologyMapped
<1>. SUFFICES ASSUME TmInv PROVE TopologyMapped
  OBVIOUS
<1>1. TmTypeOK /\ OnceInv
  BY DEF TmInv
<1>2. ASSUME tmPhase = "done", Unhindered
      PROVE  mapped = {link \in TmReach \X TmHosts : link[2] \in Told(link[1])}
  <2>1. WalkInv /\ tmStack = <<>> /\ entering = NoHost
    BY <1>1, <1>2 DEF TmInv, OnceInv
  <2>2. Met = Found /\ TmSeed \in Found /\ Found \subseteq TmReach
    BY <2>1 DEF WalkInv, ReachedInv, Met
  <2>3. \A m \in Found : \A s \in Told(m) : <<m, s>> \in mapped
    BY <2>1 DEF WalkInv, LeftInv, Told, ToSet
  <2>4. \A m \in Found : Told(m) \subseteq Found
    BY <2>1, <2>2, <2>3 DEF WalkInv, MapInv
  <2>5. Found = TmReach
    BY <1>1, <2>2, <2>4, ReachClosed DEF TmReach
  <2>6. mapped \subseteq TmHosts \X TmHosts
    BY <1>1 DEF TmTypeOK
  <2>7. \A m, s : <<m, s>> \in mapped => m \in TmReach /\ s \in Told(m)
    BY <2>1, <2>5 DEF WalkInv, MapInv
  <2>. QED
    BY <2>3, <2>5, <2>6, <2>7
<1>. QED
  BY <1>1, <1>2 DEF TopologyMapped, OnceInv, Unhindered

\* A walk that has not ended knows what it has still to visit.
LEMMA TmInvariance == TmSpec => []TmInv
<1>1. TmInv /\ [TmNext]_tmVars => TmInv'
  BY ConnectKeeps, VisitKeeps, ReturnKeeps, LostKeeps, TmStutters DEF TmNext
<1>. QED
  BY TmInitially, <1>1, PTL DEF TmSpec

\* TopologyMapped holds for every set of hosts and all their listings, circles and
\* joins included: _get_slaves asks each master once, and what it has on its stack
\* when a server is found is what the map still lacks.
THEOREM MapIsComplete == TmSpec => []TopologyMapped
BY TmInvariance, MapIsWhole, PTL
=============================================================================
