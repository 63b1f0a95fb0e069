----------------------------- MODULE MCReplTools -----------------------------
(* The tools that watch replication or keep it going, one of them at a time.  *)
EXTENDS RplSync, MultiSource, ErrantTransactions, GtidSets

CONSTANTS r1, r2, a, b, x, y, z, uo, um

VARIABLE tool   \* the tool that runs
rtVars == <<tool, syncVars, msVars, etVars, gsVars>>

----------------------------------------------------------------------------
MCSyncSlaves == <<r1, r2>>
Quiet == [master |-> TRUE, stopped |-> {}, strayed |-> {}, gtidOff |-> {}, raises |-> FALSE]
MCSyncConfs ==
  {[c EXCEPT !.master = m] :
     m \in BOOLEAN,
     c \in {Quiet, [Quiet EXCEPT !.stopped = {r1}], [Quiet EXCEPT !.strayed = {r2}],
            [Quiet EXCEPT !.raises = TRUE], [Quiet EXCEPT !.gtidOff = {r1}]}}

MCMasters == <<a, b>>
MCMsConfs == {[gtid |-> g, rplUser |-> {a}] : g \in BOOLEAN}

MCEtSlaves == <<x, y, z>>
MCUuids == <<uo, um>>
\* One of the slaves, or two of them, have executed what is not the master's.
MCEtStart(lone) ==
  [s \in EtSet |-> IF s \in lone THEN {<<uo, 1>>, <<um, 1>>} ELSE {<<um, 1>>}]
MCEtStarts == {MCEtStart(lone) : lone \in {{x}, {y, z}}}
MCEtGiven == {{<<uo, 1>>, <<um, 2>>}}

\* Every set of transactions that a uuid may have in a line, as intervals.
MCSeqs == UNION {[1..n -> Intervals] : n \in 1..((GsMax + 1) \div 2)}
MCLines(u) == {[uuid |-> u, set |-> s] : s \in {seq \in MCSeqs : Normal(seq)}}
MCGsStarts ==
  {<<l1, l2>> : l1, l2 \in MCLines(um)}
    \cup {<<l1, [uuid |-> uo, set |-> <<<<1, 1>>>>], l2, [uuid |-> um, set |-> <<<<t, t>>>>]>> :
              l1, l2 \in MCLines(um), t \in {2, GsMax}}
    \cup {<<l1, [uuid |-> uo, set |-> <<<<2, 2>>>>], l2>> : l1, l2 \in MCLines(uo)}

----------------------------------------------------------------------------
\* A tool that does not run is in one of its initial states.
SyncIdle == conf = Quiet /\ SyncInit
MsIdleTool == msConf = [gtid |-> TRUE, rplUser |-> {a}] /\ MsInit
EtIdle == gtidSet = MCEtStart({x}) /\ dryRun = FALSE /\ EtInit
GsIdle ==
  /\ gsRead = <<[uuid |-> um, set |-> <<<<1, 1>>>>], [uuid |-> um, set |-> <<<<1, 1>>>>]>>
  /\ GsInit

RtInit ==
  \/ tool = "sync" /\ SyncInit /\ MsIdleTool /\ EtIdle /\ GsIdle
  \/ tool = "multiSource" /\ MsInit /\ SyncIdle /\ EtIdle /\ GsIdle
  \/ tool = "errant" /\ EtInit /\ SyncIdle /\ MsIdleTool /\ GsIdle
  \/ tool = "syncPoint" /\ GsInit /\ SyncIdle /\ MsIdleTool /\ EtIdle

RtNext ==
  \/ tool = "sync" /\ SyncNext /\ UNCHANGED <<tool, msVars, etVars, gsVars>>
  \/ tool = "multiSource" /\ MsNext /\ UNCHANGED <<tool, syncVars, etVars, gsVars>>
  \/ tool = "errant" /\ EtNext /\ UNCHANGED <<tool, syncVars, msVars, gsVars>>
  \/ tool = "syncPoint" /\ GsNext /\ UNCHANGED <<tool, syncVars, msVars, etVars>>

\* Each tool's own fairness, when it is the one that runs.
RtFairness ==
  /\ WF_syncVars(tool = "sync" /\ SyncStep)
  /\ WF_msVars(tool = "multiSource" /\ MsStep)
  /\ \A m \in MasterSet :
       /\ SF_msVars(tool = "multiSource" /\ FetchNext /\ msSource = m)
       /\ SF_msVars(tool = "multiSource" /\ ApplyRelay /\ msSource = m)

RtSpec == RtInit /\ [][RtNext]_rtVars /\ RtFairness

\* Every variable of every tool keeps to its type.
TypeOK ==
  /\ tool \in {"sync", "multiSource", "errant", "syncPoint"}
  /\ SyncTypeOK /\ MsTypeOK /\ EtTypeOK /\ GsTypeOK
=============================================================================
