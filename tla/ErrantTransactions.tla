-------------------------- MODULE ErrantTransactions --------------------------
(***************************************************************************)
(* Errant transactions, executed by one slave only: Topology's              *)
(* find_errant_transactions, which the failover console runs at every       *)
(* interval and which asks one slave after another, and skip_slaves_trx     *)
(* (mysqlslavetrx, a process of its own), which injects an empty transaction *)
(* on every slave for each GTID it is given.                                *)
(*                                                                          *)
(* A GTID is a pair <<uuid, n>>.  GTID_SUBTRACT returns text: the uuids in  *)
(* their order, each with its intervals, and the code compares the start of *)
(* the whole text with the master's uuid.  A search that raises, a slave    *)
(* being lost between is_alive and the query, returns nothing: it stops.    *)
(***************************************************************************)
EXTENDS Integers, Sequences, FiniteSets

CONSTANTS
  EtSlaves,       \* self.slaves
  Uuids,          \* the uuids, in the order of a GTID set's text
  MasterUuid,     \* the current master's
  MaxSeq,         \* transactions of each uuid
  EtStarts,       \* what the slaves may have executed at first
  EtGiven,        \* the sets mysqlslavetrx may be given
  DryRuns         \* the values of --dryrun

EtSet == {EtSlaves[i] : i \in DOMAIN EtSlaves}
UuidSet == {Uuids[i] : i \in DOMAIN Uuids}
Gtids == UuidSet \X (1..MaxSeq)

ASSUME EtAssumption ==
  /\ EtSlaves \in Seq(EtSet) /\ EtSlaves # <<>> /\ Uuids \in Seq(UuidSet)
  /\ EtStarts \subseteq [EtSet -> SUBSET Gtids] /\ EtGiven \subseteq SUBSET Gtids

VARIABLES
  etPhase,        \* mysqlslavetrx: "watch", "subtract", "skip", "skipped"
  gtidSet,        \* [EtSet -> SUBSET Gtids] : GTID_EXECUTED
  up,             \* [EtSet -> BOOLEAN]
  etAt,           \* the search: index of slave_dict, 0 when none runs
  etOther,        \* index of others_slave_dic, 0 before tnx_set is read
  tnxSet,         \* tnx_set
  slaveSet,       \* slave_set
  report,         \* [EtSet -> SUBSET Gtids] : res
  since,          \* history: etPhase when the search of report began, or "none"
  given,          \* --gtid-set
  toSkip,         \* [EtSet -> SUBSET Gtids] : what is still to be injected
  subtracted,     \* the slaves whose toSkip has been computed, in their order
  dryRun

serverVars == <<gtidSet, up>>
searchVars == <<etAt, etOther, tnxSet, slaveSet, report, since>>
skipVars == <<etPhase, given, toSkip, subtracted, dryRun>>
etVars == <<serverVars, searchVars, skipVars>>

EtTypeOK ==
  /\ etPhase \in {"watch", "subtract", "skip", "skipped"}
  /\ gtidSet \in [EtSet -> SUBSET Gtids] /\ up \in [EtSet -> BOOLEAN]
  /\ etAt \in 0..Len(EtSlaves) /\ etOther \in 0..(Len(EtSlaves) + 1)
  /\ tnxSet \subseteq Gtids /\ slaveSet \subseteq Gtids
  /\ report \in [EtSet -> SUBSET Gtids]
  /\ since \in {"none", "watch", "subtract", "skip", "skipped"}
  /\ toSkip \in [EtSet -> SUBSET Gtids] /\ given \subseteq Gtids
  /\ subtracted \in 0..Len(EtSlaves) /\ dryRun \in DryRuns

EtInit ==
  /\ etPhase = "watch" /\ gtidSet \in EtStarts
  /\ up = [s \in EtSet |-> TRUE]
  /\ etAt = 0 /\ etOther = 0 /\ tnxSet = {} /\ slaveSet = {}
  /\ report = [s \in EtSet |-> {}] /\ since = "none"
  /\ toSkip = [s \in EtSet |-> {}] /\ subtracted = 0
  /\ given = {} /\ dryRun \in DryRuns

----------------------------------------------------------------------------
\* find_errant_transactions.

\* The text of a set starts with the master's uuid.
StartsWithMaster(set) ==
  \E i \in DOMAIN Uuids :
    /\ Uuids[i] = MasterUuid /\ \E t \in set : t[1] = MasterUuid
    /\ \A t \in set : \A j \in 1..(i - 1) : t[1] # Uuids[j]

\* What one comparison adds: all of the difference, or nothing of it when the
\* text starts with the master's uuid.
ErrantSet(other) ==
  LET diff == tnxSet \ gtidSet[other]
  IN IF StartsWithMaster(diff) THEN {} ELSE diff

BeginSearch ==
  /\ etAt = 0
  /\ etAt' = 1 /\ etOther' = 0 /\ since' = etPhase
  /\ report' = [s \in EtSet |-> {}]
  /\ UNCHANGED <<serverVars, skipVars, tnxSet, slaveSet>>

NextSlave == etAt' = IF etAt = Len(EtSlaves) THEN 0 ELSE etAt + 1

\* The next slave's GTID_EXECUTED; a slave that is gone is left out.
ReadSlave ==
  /\ etAt # 0 /\ etOther = 0
  /\ LET s == EtSlaves[etAt] IN
     \/ up[s] /\ tnxSet' = gtidSet[s] /\ slaveSet' = {} /\ etOther' = 1
        /\ UNCHANGED etAt
     \/ ~up[s] /\ NextSlave /\ UNCHANGED <<tnxSet, slaveSet, etOther>>
  /\ UNCHANGED <<serverVars, skipVars, report, since>>

\* Fault: the loop ends at a slave that is gone.
CompareOtherUntilDead ==
  /\ etAt # 0 /\ etOther \in DOMAIN EtSlaves
  /\ LET r == EtSlaves[etOther] IN
     IF r = EtSlaves[etAt]
       THEN etOther' = etOther + 1 /\ UNCHANGED slaveSet
       ELSE /\ etOther' = IF ~up[r] \/ ErrantSet(r) = {} THEN Len(EtSlaves) + 1
                          ELSE etOther + 1
            /\ slaveSet' = IF up[r] THEN slaveSet \cup ErrantSet(r) ELSE slaveSet
  /\ UNCHANGED <<serverVars, skipVars, etAt, tnxSet, report, since>>

\* tnx_set against what another slave has by now.  The loop over the others
\* ends at the first that adds nothing.
CompareOther ==
  /\ etAt # 0 /\ etOther \in DOMAIN EtSlaves
  /\ LET r == EtSlaves[etOther] IN
     IF r = EtSlaves[etAt] \/ ~up[r]
       THEN etOther' = etOther + 1 /\ UNCHANGED slaveSet
       ELSE /\ etOther' = IF ErrantSet(r) = {} THEN Len(EtSlaves) + 1 ELSE etOther + 1
            /\ slaveSet' = slaveSet \cup ErrantSet(r)
  /\ UNCHANGED <<serverVars, skipVars, etAt, tnxSet, report, since>>

StoreResult ==
  /\ etAt # 0 /\ etOther = Len(EtSlaves) + 1
  /\ report' = [report EXCEPT ![EtSlaves[etAt]] = slaveSet]
  /\ NextSlave /\ etOther' = 0 /\ tnxSet' = {} /\ slaveSet' = {}
  /\ UNCHANGED <<serverVars, skipVars, since>>

----------------------------------------------------------------------------
\* skip_slaves_trx.

\* mysqlslavetrx is given what was found, or a set of its user's.
StartSkip(set) ==
  /\ etPhase = "watch" /\ set # {}
  /\ etPhase' = "subtract" /\ given' = set
  /\ UNCHANGED <<serverVars, searchVars, toSkip, subtracted, dryRun>>

\* Fault: what is missing on the first slave is injected on all.
SubtractOnce ==
  /\ etPhase = "subtract"
  /\ subtracted' = subtracted + 1
  /\ LET s == EtSlaves[subtracted'] IN
     toSkip' = [toSkip EXCEPT ![s] = IF up[s] THEN given \ gtidSet[EtSlaves[1]] ELSE {}]
  /\ etPhase' = IF subtracted' = Len(EtSlaves) THEN "skip" ELSE "subtract"
  /\ UNCHANGED <<serverVars, searchVars, given, dryRun>>

\* What the next slave misses; one that does not answer was not connected.
Subtract ==
  /\ etPhase = "subtract"
  /\ subtracted' = subtracted + 1
  /\ LET s == EtSlaves[subtracted'] IN
     toSkip' = [toSkip EXCEPT ![s] = IF up[s] THEN given \ gtidSet[s] ELSE {}]
  /\ etPhase' = IF subtracted' = Len(EtSlaves) THEN "skip" ELSE "subtract"
  /\ UNCHANGED <<serverVars, searchVars, given, dryRun>>

\* inject_empty_trx: SET GTID_NEXT, BEGIN, COMMIT.  A GTID that the slave has
\* executed since is committed again without effect.  A slave lost meanwhile
\* ends the tool with an error.
InjectEmptyTrx(s, t) ==
  /\ etPhase = "skip" /\ t \in toSkip[s] /\ up[s]
  /\ \A i, j \in DOMAIN EtSlaves :
       EtSlaves[j] = s /\ i < j => EtSlaves[i] = s \/ toSkip[EtSlaves[i]] = {}
  /\ toSkip' = [toSkip EXCEPT ![s] = @ \ {t}]
  /\ gtidSet' = IF dryRun THEN gtidSet
                ELSE [gtidSet EXCEPT ![s] = @ \cup {t}]
  /\ UNCHANGED <<up, searchVars, etPhase, given, subtracted, dryRun>>

SkipDone ==
  /\ etPhase = "skip" /\ \A s \in EtSet : toSkip[s] = {}
  /\ etPhase' = "skipped"
  /\ UNCHANGED <<serverVars, searchVars, given, toSkip, subtracted, dryRun>>

----------------------------------------------------------------------------
\* The servers: a slave applies the master's next transaction, or is lost.
ApplyMasters(s) ==
  LET t == <<MasterUuid, Cardinality({u \in gtidSet[s] : u[1] = MasterUuid}) + 1>>
  IN /\ up[s] /\ t \in Gtids
     /\ gtidSet' = [gtidSet EXCEPT ![s] = @ \cup {t}]
     /\ UNCHANGED <<up, searchVars, skipVars>>

LoseSlave(s) ==
  /\ \A r \in EtSet : up[r]
  /\ up' = [up EXCEPT ![s] = FALSE]
  /\ UNCHANGED <<gtidSet, searchVars, skipVars>>

EtNext ==
  \/ BeginSearch \/ ReadSlave \/ CompareOther \/ StoreResult
  \/ Subtract \/ SkipDone
  \/ etAt = 0 /\ StartSkip(UNION {report[s] : s \in EtSet})
  \/ \E set \in EtGiven : StartSkip(set)
  \/ \E s \in EtSet : \/ ApplyMasters(s) \/ LoseSlave(s)
                      \/ \E t \in Gtids : InjectEmptyTrx(s, t)

EtSpec == EtInit /\ [][EtNext]_etVars

----------------------------------------------------------------------------
\* Properties.

\* A transaction of one slave only, whose uuid comes before the master's in the
\* text, while another slave answers.
LoneBeforeMaster(s, t) ==
  /\ t \in gtidSet[s] /\ up[s] /\ \E r \in EtSet \ {s} : up[r]
  /\ \A r \in EtSet \ {s} : t \notin gtidSet[r]
  /\ \E k \in DOMAIN Uuids :
       Uuids[k] = t[1] /\ \A m \in DOMAIN Uuids : Uuids[m] = MasterUuid => k < m

FoundBeforeSkip ==
  since = "watch" /\ etPhase = "watch" /\ etAt = 0 =>
    \A s \in EtSet : \A t \in Gtids : LoneBeforeMaster(s, t) => t \in report[s]

NotFoundAfterSkip ==
  since = "skipped" /\ ~dryRun => \A s \in EtSet : report[s] \cap given = {}

\* find_errant_transactions, which asks one slave after another while they
\* apply and fail, reports a transaction only one slave has, if its uuid comes
\* before the master's in the text; and no search begun after mysqlslavetrx
\* ended reports a GTID that it was given.
FoundUntilSkipped == FoundBeforeSkip /\ NotFoundAfterSkip

\* After mysqlslavetrx every slave that answers has each GTID it was given,
\* whatever was replicated meanwhile; a dry run injects nothing.
SkippedOnAll ==
  etPhase = "skipped" /\ ~dryRun =>
    \A s \in EtSet : up[s] => given \subseteq gtidSet[s]

\* The docstring of find_errant_transactions: "executed transactions that are
\* not found on the other slaves (only on one slave) and not from the current
\* master".
ErrantAsDocumented ==
  since = "watch" /\ etPhase = "watch" /\ etAt = 0 =>
    \A s \in EtSet : up[s] =>
      report[s] = {t \in gtidSet[s] : /\ t[1] # MasterUuid
                                      /\ \A r \in EtSet \ {s} : up[r] => t \notin gtidSet[r]}
=============================================================================
