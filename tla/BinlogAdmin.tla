----------------------------- MODULE BinlogAdmin -----------------------------
(***************************************************************************)
(* The binary log utilities (mysqlbinlogmove, mysqlbinlogpurge and          *)
(* mysqlbinlogrotate: binlog_admin.py, binlog.py, binary_log_file.py) on a  *)
(* server that goes on writing and rotating its logs while slaves read      *)
(* them.  A log is its sequence number.                                     *)
(***************************************************************************)
EXTENDS Integers, FiniteSets

CONSTANTS
  PurgeSlaves,    \* the slaves of the server
  MaxLog,         \* bound on the sequence numbers
  Wrap,           \* the last sequence number with the usual number of digits
  BlConfs         \* the calls: [tool, target], target 0 when none is given

ASSUME BlAssumption ==
  /\ MaxLog \in Nat \ {0} /\ Wrap \in Nat \ {0}
  /\ BlConfs \subseteq [tool : {"move", "purge", "standalone", "rotate"}, target : 0..MaxLog]

Logs == 1..MaxLog
Places == {"none", "base", "moved"}

VARIABLES
  blPhase,        \* where the tool stands
  blConf,         \* the call
  active,         \* the log the server writes
  files,          \* [Logs -> Places] where each log lies
  indexed,        \* [Logs -> Places] where the index file says it lies
  reading,        \* [PurgeSlaves -> Logs] log the slave reads
  dumping,        \* slaves connected to the server
  todo,           \* logs left to move
  newIndex,       \* the index the tool is about to write
  inUse           \* index_last_in_use

blTool == <<blPhase, blConf, todo, newIndex, inUse>>
blServer == <<active, files, indexed>>
blSlaves == <<reading, dumping>>
blVars == <<blTool, blServer, blSlaves>>

BlTypeOK ==
  /\ blPhase \in {"start", "moving", "index", "rename", "verify", "status",
                  "purge", "done", "error", "undoFailed", "replaceFailed"}
  /\ blConf \in BlConfs
  /\ active \in Logs /\ inUse \in Logs
  /\ files \in [Logs -> Places]
  /\ indexed \in [Logs -> Places] /\ newIndex \in [Logs -> Places]
  /\ reading \in [PurgeSlaves -> Logs] /\ dumping \subseteq PurgeSlaves
  /\ todo \subseteq Logs

BlInit ==
  /\ blPhase = "start" /\ blConf \in BlConfs
  /\ active \in {n \in Logs : n < MaxLog}
  /\ files = [n \in Logs |-> IF n <= active THEN "base" ELSE "none"]
  /\ indexed = files /\ newIndex = files
  /\ reading \in [PurgeSlaves -> 1..active] /\ dumping \in SUBSET PurgeSlaves
  /\ todo = {} /\ inUse = active

BlEnd(from, how) ==
  blPhase = from /\ blPhase' = how /\ UNCHANGED <<blConf, newIndex, inUse>>

\* FLUSH BINARY LOGS: the server goes on in the next log.
Rotated ==
  /\ active < MaxLog
  /\ active' = active + 1
  /\ files' = [files EXCEPT ![active + 1] = "base"]
  /\ indexed' = [indexed EXCEPT ![active + 1] = "base"]

\* The tool moves its logs in their order.
Turn(n) == n \in todo /\ \A m \in todo : n <= m

----------------------------------------------------------------------------
\* mysqlbinlogmove

\* The order of sorted(): by text, where a longer number may come first.
SortsBefore(a, b) == IF (a > Wrap) = (b > Wrap) THEN a < b ELSE a > Wrap

\* Fault: the newest file is not skipped.
LogsToMoveAll ==
  {n \in Logs : files[n] = "base"}

\* The directory's logs except the last of the sorted list.
LogsToMove ==
  {n \in Logs : files[n] = "base" /\ \E m \in Logs : files[m] = "base" /\
                                                     SortsBefore(n, m)}

\* _move_binlogs: a filter (sequence, date) may leave any of them.
ListLogs ==
  /\ blPhase = "start" /\ blConf.tool = "move"
  /\ \E S \in SUBSET LogsToMove :
       /\ todo' = S
       /\ blPhase' = IF S = {} THEN "done" ELSE "moving"
  /\ UNCHANGED <<blConf, newIndex, inUse, blServer, blSlaves>>

\* move_binary_log, shutil.move to the destination.
MoveFile(n) ==
  /\ blPhase = "moving" /\ Turn(n)
  /\ IF files[n] = "base"
     THEN /\ blPhase' = "index" /\ files' = [files EXCEPT ![n] = "moved"]
     ELSE /\ blPhase' = "error" /\ UNCHANGED files
  /\ UNCHANGED <<blConf, todo, newIndex, inUse, active, indexed, blSlaves>>

\* The index is read, the log's entry replaced, and a temporary file written.
PrepareIndex(n) ==
  /\ blPhase = "index" /\ Turn(n) /\ indexed[n] # "none"
  /\ blPhase' = "rename"
  /\ newIndex' = [indexed EXCEPT ![n] = "moved"]
  /\ UNCHANGED <<blConf, todo, inUse, blServer, blSlaves>>

\* Fault: an error leaves the file where it was moved.
IndexErrorNoUndo(n) ==
  /\ BlEnd("index", "error") /\ Turn(n)
  /\ UNCHANGED <<todo, blServer, blSlaves>>

\* No entry, or an error of reading or writing: _move_file_back, which may
\* fail itself.
IndexError(n) ==
  /\ Turn(n)
  /\ \/ BlEnd("index", "error") /\ files' = [files EXCEPT ![n] = "base"]
     \/ BlEnd("index", "undoFailed") /\ UNCHANGED files
  /\ UNCHANGED <<todo, active, indexed, blSlaves>>

\* os.rename of the temporary file.
ReplaceIndex(n) ==
  /\ blPhase = "rename" /\ Turn(n)
  /\ blPhase' = "moving"
  /\ indexed' = newIndex
  /\ todo' = todo \ {n}
  /\ UNCHANGED <<blConf, newIndex, inUse, active, files, blSlaves>>

\* The rename stands outside the try: its error undoes nothing.
ReplaceFails(n) ==
  /\ BlEnd("rename", "replaceFailed") /\ Turn(n)
  /\ UNCHANGED <<todo, blServer, blSlaves>>

\* All are moved: the logs are flushed, unless --skip-flush-binlogs.
FlushAfterMove ==
  /\ BlEnd("moving", "done") /\ todo = {}
  /\ Rotated \/ UNCHANGED blServer
  /\ UNCHANGED <<todo, blSlaves>>

----------------------------------------------------------------------------
\* mysqlbinlogpurge

\* get_binlog_info; a server purged on its own may have no slave connected.
PurgeStart ==
  /\ blPhase = "start" /\ blConf.tool \in {"purge", "standalone"}
  /\ blPhase' = IF blConf.tool = "purge" THEN "verify"
                ELSE IF dumping # {} THEN "error" ELSE "purge"
  /\ inUse' = active
  /\ UNCHANGED <<blConf, todo, newIndex, blServer, blSlaves>>

\* RPLBinaryLogPurge.purge: the slaves of --slaves must be connected.
VerifySlaves ==
  /\ BlEnd("verify", IF dumping = PurgeSlaves THEN "status" ELSE "error")
  /\ todo' = {} /\ UNCHANGED <<blServer, blSlaves>>

\* Fault: the newest log any slave reads.
DetermineHighest ==
  /\ blPhase = "status" /\ blPhase' = "purge"
  /\ inUse' = CHOOSE n \in {reading[s] : s \in PurgeSlaves} :
                \A s \in PurgeSlaves : reading[s] <= n
  /\ UNCHANGED <<blConf, todo, newIndex, blServer, blSlaves>>

\* determine_purgeable_binlogs: the lowest Master_Log_File of the slaves.
DeterminePurgeable ==
  /\ blPhase = "status" /\ blPhase' = "purge"
  /\ inUse' \in {inUse} \cup {reading[s] : s \in PurgeSlaves}
  /\ inUse' <= inUse /\ \A s \in PurgeSlaves : inUse' <= reading[s]
  /\ UNCHANGED <<blConf, todo, newIndex, blServer, blSlaves>>

\* PURGE BINARY LOGS TO: the server stops at a log a connected slave reads.
PurgedTo(n) ==
  {k \in Logs : k < n /\ \A s \in dumping : k < reading[s]}

\* _purge and purge: the target replaces the log found, even when it is newer.
Purge ==
  /\ BlEnd("purge", "done")
  /\ LET to == IF blConf.target = 0 THEN inUse ELSE blConf.target
         gone == IF indexed[to] = "none" THEN {} ELSE PurgedTo(to)
     IN  /\ files' = [k \in Logs |-> IF k \in gone THEN "none" ELSE files[k]]
         /\ indexed' = [k \in Logs |-> IF k \in gone THEN "none"
                                       ELSE indexed[k]]
  /\ UNCHANGED <<todo, active, blSlaves>>

\* mysqlbinlogrotate: the log is flushed, unless it is too small.
RotateLog ==
  /\ BlEnd("start", "done") /\ blConf.tool = "rotate"
  /\ Rotated \/ UNCHANGED blServer
  /\ UNCHANGED <<todo, blSlaves>>

----------------------------------------------------------------------------
\* The server and its slaves.

ServerRotates == Rotated /\ UNCHANGED <<blTool, blSlaves>>

SlaveReads(s) ==
  /\ s \in dumping /\ reading[s] < active /\ files[reading[s] + 1] # "none"
  /\ reading' = [reading EXCEPT ![s] = @ + 1]
  /\ UNCHANGED <<blTool, blServer, dumping>>

SlaveConnects(s) ==
  /\ dumping' = IF s \in dumping THEN dumping \ {s} ELSE dumping \cup {s}
  /\ UNCHANGED <<blTool, blServer, reading>>

----------------------------------------------------------------------------
BlNext ==
  \/ ListLogs
  \/ \E n \in Logs : \/ MoveFile(n) \/ PrepareIndex(n) \/ IndexError(n)
                     \/ ReplaceIndex(n) \/ ReplaceFails(n)
  \/ FlushAfterMove \/ PurgeStart \/ VerifySlaves \/ DeterminePurgeable
  \/ Purge \/ RotateLog \/ ServerRotates
  \/ \E s \in PurgeSlaves : SlaveReads(s) \/ SlaveConnects(s)

BlSpec == BlInit /\ [][BlNext]_blVars

----------------------------------------------------------------------------
\* Properties.

\* The log the server writes is never taken away from under it, whatever the
\* rotations between the listing and the move.
ActiveLogStays == files[active] = "base"

\* From the move of a file to its entry in the index.
Updating == {"index", "rename", "undoFailed", "replaceFailed"}

\* At most the log at hand, moved and not yet entered or left so by an error of
\* the undo or of the rename, lies elsewhere than the index says: whatever the
\* server has rotated meanwhile, each log that was moved before it and each that
\* was moved back lies where the index names it.
IndexMatchesFiles ==
  \A n \in Logs : indexed[n] \notin {"none", files[n]} =>
    /\ Turn(n) /\ blPhase \in Updating
    /\ files[n] = "moved" /\ indexed[n] = "base"

\* The docstring of move_binary_log: "if the undo_on_error=True (default) then
\* the file is moved back to the source directory if an error occurred while
\* updating the index file".
MovedBackOnError ==
  blPhase \in {"error", "replaceFailed"} => \A n \in Logs : indexed[n] \in {"none", files[n]}

Needed == \A s \in PurgeSlaves : \A n \in reading[s]..active : files[n] # "none"

\* Slaves that disconnect while the tool runs find, when they come back, every
\* log from the one they were reading.
NeededLogsKept == blConf.tool = "purge" /\ blConf.target = 0 => Needed

\* The same with a target: "The given binlog name is required for one or more
\* slaves, the Utilitiy will purge to binlog ... instead".
TargetIsCapped == blConf.tool = "purge" => Needed
=============================================================================
