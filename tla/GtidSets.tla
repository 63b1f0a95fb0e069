------------------------------- MODULE GtidSets -------------------------------
(***************************************************************************)
(* GTID sets as mysqlrplsync handles them: lines of one uuid with intervals  *)
(* of transaction numbers.  _compute_sync_point of rpl_sync.py joins, without *)
(* a master, the lines of all slaves' GTID_EXECUTED, one line at a time, with *)
(* gtid_set_union of gtid.py, whose loop over the sorted intervals is Merge.  *)
(*                                                                         *)
(* A line is what a server returns: its intervals ascend and never touch.   *)
(* Bound: a uuid's transactions are numbered 1..GsMax.                      *)
(***************************************************************************)
EXTENDS Integers, Sequences

CONSTANTS
  GsUuids,        \* the servers' uuids
  GsMax,
  GsStarts        \* the lists of lines that may be read

Intervals == {iv \in (1..GsMax) \X (1..GsMax) : iv[1] <= iv[2]}

\* The transactions of a set of intervals, and of a sequence of them.
Covered(ivs) == UNION {iv[1]..iv[2] : iv \in ivs}
Elements(seq) == {seq[i] : i \in DOMAIN seq}

\* A GTID set as servers write it.
Normal(seq) == \A i, j \in DOMAIN seq : i < j => seq[i][2] + 1 < seq[j][1]

GsLines == {line \in [uuid : GsUuids, set : Seq(Intervals)] :
              line.set # <<>> /\ Normal(line.set)}

ASSUME GsAssumption ==
  GsMax \in Nat /\ \A lines \in GsStarts : lines \in Seq(GsLines) /\ lines # <<>>

VARIABLES
  gsRead,         \* the lines of all slaves
  gsNext,         \* index of the line the loop is at
  gsUuid,         \* uuid of the last line taken
  gsTodo,         \* intervals_list: SUBSET Intervals, what is still to be merged
  gsBy            \* gtid_sets_by_uuid; <<>> for a uuid that has no entry

gsVars == <<gsRead, gsNext, gsUuid, gsTodo, gsBy>>

GsTypeOK ==
  /\ gsRead \in Seq(GsLines) /\ gsNext \in 1..(Len(gsRead) + 1)
  /\ gsUuid \in GsUuids /\ gsTodo \subseteq Intervals
  /\ gsBy \in [GsUuids -> Seq(Intervals)]

GsInit ==
  /\ gsRead \in GsStarts /\ gsNext = 1 /\ gsUuid = gsRead[1].uuid /\ gsTodo = {}
  /\ gsBy = [u \in GsUuids |-> <<>>]

----------------------------------------------------------------------------
\* The next line: it is the entry of a uuid met first, otherwise it is joined
\* with the entry, whose intervals go back into the list.
TakeLine ==
  /\ gsTodo = {} /\ gsNext \in DOMAIN gsRead
  /\ LET line == gsRead[gsNext] IN
     /\ gsUuid' = line.uuid
     /\ IF gsBy[line.uuid] = <<>>
          THEN /\ gsBy' = [gsBy EXCEPT ![line.uuid] = line.set]
               /\ gsTodo' = {}
          ELSE /\ gsBy' = [gsBy EXCEPT ![line.uuid] = <<>>]
               /\ gsTodo' = Elements(gsBy[line.uuid]) \cup Elements(line.set)
  /\ gsNext' = gsNext + 1
  /\ UNCHANGED gsRead

\* The order of tuples.
SortsFirst(iv, ivs) ==
  \A other \in ivs : iv[1] < other[1] \/ (iv[1] = other[1] /\ iv[2] <= other[2])

\* What an interval becomes in union_set, after all that sort before it.
Joined(seq, iv) ==
  LET last == seq[Len(seq)] IN
  IF seq # <<>> /\ iv[1] <= last[2] + 1
    THEN IF last[2] < iv[2] THEN [seq EXCEPT ![Len(seq)] = <<last[1], iv[2]>>] ELSE seq
    ELSE Append(seq, iv)

\* Fault: the end of the interval is taken although the last one reaches further.
JoinedToItsEnd(seq, iv) ==
  LET last == seq[Len(seq)] IN
  IF seq # <<>> /\ iv[1] <= last[2] + 1
    THEN [seq EXCEPT ![Len(seq)] = <<last[1], iv[2]>>]
    ELSE Append(seq, iv)
MergeToItsEnd(iv) ==
  /\ iv \in gsTodo /\ SortsFirst(iv, gsTodo)
  /\ gsTodo' = gsTodo \ {iv}
  /\ gsBy' = [gsBy EXCEPT ![gsUuid] = JoinedToItsEnd(@, iv)]
  /\ UNCHANGED <<gsRead, gsNext, gsUuid>>

Merge(iv) ==
  /\ iv \in gsTodo /\ SortsFirst(iv, gsTodo)
  /\ gsTodo' = gsTodo \ {iv}
  /\ gsBy' = [gsBy EXCEPT ![gsUuid] = Joined(@, iv)]
  /\ UNCHANGED <<gsRead, gsNext, gsUuid>>

GsNext == TakeLine \/ \E iv \in Intervals : Merge(iv)

GsSpec == GsInit /\ [][GsNext]_gsVars

----------------------------------------------------------------------------
\* Properties.

\* The transactions of a uuid in some lines.
InLines(u, lines) ==
  {t \in 1..GsMax : \E i \in lines : gsRead[i].uuid = u /\ t \in Covered(Elements(gsRead[i].set))}

\* _compute_sync_point without a master, "the union of the GTID_EXECUTED sets
\* among all active slaves": whenever a line has been dealt with, each entry is
\* what the lines so far have of its uuid, no transaction more or less, and is
\* written as servers write it, so that the next union and
\* get_last_server_gtid read it right.
SyncPointIsUnion ==
  gsTodo = {} =>
    \A u \in GsUuids : /\ Covered(Elements(gsBy[u])) = InLines(u, 1..(gsNext - 1))
                       /\ Normal(gsBy[u])
=============================================================================
