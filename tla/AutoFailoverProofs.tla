-------------------------- MODULE AutoFailoverProofs --------------------------
(***************************************************************************)
(* The registration of the consoles of mysqlfailover, for any number of     *)
(* instances, servers, crashes and restarts: as long as the servers are one *)
(* topology and no two registrations overlap, at most one console is able   *)
(* to fail over, its row is the only one, and it moves only slaves of its   *)
(* own.                                                                     *)
(*                                                                          *)
(* An instance is a newcomer until it has looked for a row.  Only Apart     *)
(* keeps a failover or a second newcomer out meanwhile, and only the row of *)
(* the engaged instance stops the newcomer: so the invariant says whose row *)
(* a newcomer will find, and that nothing it clears before is that row.     *)
(***************************************************************************)
EXTENDS AutoFailover, TLAPS

\* Registering for the first time, the table not looked at yet.
Newcomer(i) == pc[i] \in {"clean", "select"} /\ ~joined[i]

\* Running and not blocked, from the SELECT on that found no row.
Engaged(i) == pc[i] # "down" /\ mode[i] = "auto" /\ ~Newcomer(i)

PlaceInv ==
  \A i \in Instances :
    /\ pc[i] \notin {"drop", "exited"}
    /\ pc[i] \in Registering => mode[i] = "auto"
    /\ pc[i] \in Monitoring => joined[i]

OneEngaged == \A i, j \in Instances : Engaged(i) /\ Engaged(j) => i = j

NewcomerInv ==
  \A i, j \in Instances :
    /\ Newcomer(i) /\ pc[j] \in Registering => i = j
    /\ Newcomer(i) /\ Engaged(j) => master[j] = master[i] /\ rows[master[j]] = {j}

RowInv ==
  \A i \in Instances :
    /\ Active(i) => rows[master[i]] = {i}
    /\ pc[i] = "insert" => rows[master[i]] = {}

\* The slaves an instance lists have a source, and are not its master.
ListInv ==
  /\ \A s \in Servers : source[s] # s
  /\ \A i \in Instances :
       Newcomer(i) \/ Engaged(i) =>
         /\ master[i] \in Servers \ listed[i]
         /\ \A s \in listed[i] : source[s] # NoServer

RegisterInv == PlaceInv /\ OneEngaged /\ NewcomerInv /\ RowInv /\ ListInv

\* Every instance monitors a server once it has been started.
MonitorsOne == \A i \in Instances : pc[i] # "down" => master[i] \in Servers

IInv == TypeOK /\ MonitorsOne /\ (OnlyConsoles => RegisterInv)

----------------------------------------------------------------------------
LEMMA TypeInit == Init => TypeOK /\ MonitorsOne
BY AutoFailoverAssumption
   DEF Init, TypeOK, MonitorsOne, Places, Registering, Monitoring

LEMMA TypeStep ==
  ASSUME TypeOK, MonitorsOne, [Next]_vars
  PROVE  TypeOK' /\ MonitorsOne'
<1>. USE AutoFailoverAssumption
<1>. USE DEF TypeOK, MonitorsOne, Places, Registering, Monitoring, topology, registry,
             process, bounds, Move
<1>1. ASSUME NEW i \in Instances, Start(i) PROVE TypeOK' /\ MonitorsOne'
  BY <1>1 DEF Start, SlavesOf
<1>2. ASSUME NEW i \in Instances, Register(i) PROVE TypeOK' /\ MonitorsOne'
  <2>1. CASE UnregisterSlaves(i)
    BY <2>1 DEF UnregisterSlaves
  <2>f. ASSUME Fails(i), pc[i] # "down", UNCHANGED bounds PROVE TypeOK' /\ MonitorsOne'
    <3>1. \A j \in Instances : pc'[j] # "down" => pc[j] # "down"
      BY <2>f DEF Fails
    <3>2. pc' \in [Instances -> Places]
      BY <2>f DEF Fails
    <3>3. UNCHANGED <<alive, source, table, rows, mode, master, listed, found, joined,
                     tries, bounds>>
      BY <2>f DEF Fails
    <3>. HIDE DEF Places
    <3>. QED
      BY <3>1, <3>2, <3>3
  <2>2. CASE ClearMaster(i)
    <3>1. CASE ~alive[master[i]]
      BY <2>2, <3>1, <2>f DEF ClearMaster
    <3>2. CASE alive[master[i]]
      <4>1. /\ pc' = [pc EXCEPT ![i] = "select"] /\ pc[i] = "drop"
            /\ table' = [table EXCEPT ![master[i]] = FALSE]
            /\ rows' = [rows EXCEPT ![master[i]] = {}]
            /\ UNCHANGED <<alive, source, mode, master, listed, found, joined, tries, bounds>>
        BY <2>2, <3>2 DEF ClearMaster
      <4>2. table' \in [Servers -> BOOLEAN] /\ rows' \in [Servers -> SUBSET Instances]
        BY <4>1
      <4>3. pc' \in [Instances -> Places] /\ \A j \in Instances : pc'[j] # "down" => pc[j] # "down"
        BY <4>1
      <4>. HIDE DEF Places
      <4>. QED
        BY <4>1, <4>2, <4>3
    <3>. QED
      BY <3>1, <3>2
  <2>3. CASE SelectRow(i)
    <3>1. CASE ~alive[master[i]]
      BY <2>3, <3>1, <2>f DEF SelectRow
    <3>2. CASE alive[master[i]] /\ rows[master[i]] # {}
      <4>1. /\ table' = [table EXCEPT ![master[i]] = TRUE]
            /\ pc[i] = "select" /\ pc' = [pc EXCEPT ![i] = "watch"]
            /\ mode' = [mode EXCEPT ![i] = "fail"]
            /\ joined' = [joined EXCEPT ![i] = TRUE]
            /\ UNCHANGED <<alive, source, rows, master, listed, found, tries, bounds>>
        BY <2>3, <3>2 DEF SelectRow
      <4>. QED
        BY <4>1
    <3>3. CASE alive[master[i]] /\ rows[master[i]] = {}
      <4>1. /\ table' = [table EXCEPT ![master[i]] = TRUE]
            /\ pc[i] = "select" /\ pc' = [pc EXCEPT ![i] = "insert"]
            /\ UNCHANGED <<alive, source, rows, mode, joined, master, listed, found,
                           tries, bounds>>
        BY <2>3, <3>3 DEF SelectRow
      <4>. QED
        BY <4>1
    <3>. QED
      BY <3>1, <3>2, <3>3
  <2>4. CASE InsertRow(i)
    <3>1. CASE ~alive[master[i]] \/ ~table[master[i]]
      BY <2>4, <3>1, <2>f DEF InsertRow
    <3>2. CASE alive[master[i]] /\ table[master[i]]
      <4>1. rows' \in [Servers -> SUBSET Instances]
        BY <2>4, <3>2 DEF InsertRow
      <4>2. /\ pc[i] = "insert" /\ pc' = [pc EXCEPT ![i] = "watch"]
            /\ joined' = [joined EXCEPT ![i] = TRUE]
            /\ UNCHANGED <<alive, source, table, mode, master, listed, found, tries, bounds>>
        BY <2>4, <3>2 DEF InsertRow
      <4>. QED
        BY <4>1, <4>2
    <3>. QED
      BY <3>1, <3>2
  <2>. QED
    BY <1>2, <2>1, <2>2, <2>3, <2>4 DEF Register
<1>3. ASSUME NEW i \in Instances, Monitor(i) PROVE TypeOK' /\ MonitorsOne'
  <2>1. CASE DiscoverSlaves(i)
    BY <2>1 DEF DiscoverSlaves, SlavesOf
  <2>2. CASE Suspect(i)
    BY <2>2 DEF Suspect
  <2>3. CASE Reconnect(i)
    BY <2>3 DEF Reconnect
  <2>4. CASE FailOver(i)
    BY <2>4 DEF FailOver
  <2>5. CASE GiveUp(i)
    BY <2>5 DEF GiveUp
  <2>. QED
    BY <1>3, <2>1, <2>2, <2>3, <2>4, <2>5 DEF Monitor
<1>4. ASSUME NEW i \in Instances, Leave(i) \/ Quit(i) \/ Kill(i)
      PROVE  TypeOK' /\ MonitorsOne'
  <2>1. CASE Unregister(i)
    BY <2>1 DEF Unregister
  <2>2. CASE Cleanup(i)
    <3>1. rows' \in [Servers -> SUBSET Instances]
      BY <2>2 DEF Cleanup
    <3>. QED
      BY <2>2, <3>1 DEF Cleanup
  <2>3. CASE Quit(i) \/ Kill(i)
    BY <2>3 DEF Quit, Kill
  <2>. QED
    BY <1>4, <2>1, <2>2, <2>3 DEF Leave
<1>5. ASSUME NEW s \in Servers, Crash(s) \/ Restart(s) PROVE TypeOK' /\ MonitorsOne'
  <2>1. CASE Crash(s)
    BY <2>1 DEF Crash
  <2>2. CASE Restart(s)
    <3>1. source' \in [Servers -> Servers \cup {NoServer}]
      BY <2>2 DEF Restart
    <3>2. alive' \in [Servers -> BOOLEAN]
      BY <2>2 DEF Restart
    <3>. QED
      BY <2>2, <3>1, <3>2 DEF Restart
  <2>. QED
    BY <1>5, <2>1, <2>2
<1>6. CASE UNCHANGED vars
  BY <1>6 DEF vars
<1>. QED
  BY <1>1, <1>2, <1>3, <1>4, <1>5, <1>6 DEF Next, Step

\* Type correctness: the registry, the instances and the servers keep their
\* types; a failed attempt to reconnect is never counted below zero.
THEOREM TypeCorrect == Spec => []TypeOK
BY TypeInit, TypeStep, PTL DEF Spec

----------------------------------------------------------------------------
\* The registration.  What the steps of an instance leave to the others.

\* A step of i in which the servers' data, its master and its list stay.
Still == UNCHANGED <<source, rows, master, listed, conf>>

\* No other instance's process changes.
Others(i) ==
  \A j \in Instances \ {i} :
    /\ pc'[j] = pc[j] /\ mode'[j] = mode[j] /\ joined'[j] = joined[j]
    /\ master'[j] = master[j] /\ listed'[j] = listed[j]

\* An instance that leaves, or moves on in the main loop, disturbs nobody.
LEMMA MoveStep ==
  ASSUME TypeOK, RegisterInv, NEW i \in Instances, Others(i), Still,
         mode'[i] = mode[i], joined'[i] = joined[i],
         \/ pc[i] \in Monitoring /\ pc'[i] \in Monitoring
         \/ pc[i] # "down" /\ pc'[i] = "down"
         \/ pc[i] \in Monitoring /\ pc'[i] = "exit"
         \/ pc[i] \in Registering /\ joined[i] /\ pc'[i] = "exit"
  PROVE  RegisterInv'
<1>. USE DEF Others, Still, RegisterInv, Registering, Monitoring
<1>1. PlaceInv'
  BY DEF PlaceInv
<1>2. \A j \in Instances : Engaged(j)' => Engaged(j)
  BY DEF PlaceInv, Engaged, Newcomer
<1>3. \A j \in Instances : Newcomer(j)' => Newcomer(j)
  BY DEF Newcomer
<1>4. \A j \in Instances : Active(j)' => Active(j)
  BY DEF Active
<1>5. OneEngaged'
  BY <1>2 DEF OneEngaged
<1>6. NewcomerInv'
  BY <1>2, <1>3 DEF NewcomerInv
<1>7. RowInv'
  BY <1>4 DEF RowInv
<1>8. ListInv'
  BY <1>2, <1>3 DEF ListInv
<1>. QED
  BY <1>1, <1>5, <1>6, <1>7, <1>8

\* A newcomer starts on the master of the engaged instance, if there is one.
LEMMA StartStep ==
  ASSUME TypeOK, RegisterInv, StartsApart, OneTopology, NEW i \in Instances, Start(i)
  PROVE  RegisterInv'
<1>. USE AutoFailoverAssumption DEF RegisterInv
<1>1. PICK s \in Servers :
        /\ source[s] = NoServer /\ SlavesOf(s) # {}
        /\ master'[i] = s /\ listed'[i] = SlavesOf(s)
  BY DEF Start, TypeOK
<1>2. /\ pc[i] = "down" /\ pc'[i] = "clean" /\ mode'[i] = "auto" /\ ~joined'[i]
      /\ Others(i) /\ UNCHANGED <<source, rows>>
  BY DEF Start, TypeOK, Move, Others, topology, registry
<1>3. \A j \in Instances : pc[j] \notin Registering \cup {"exit"}
  BY DEF Start, Apart
<1>4. \A j \in Instances : Newcomer(j)' => j = i
  BY <1>2, <1>3 DEF Newcomer, Others, Registering
<1>5. \A j \in Instances : Engaged(j)' => j # i /\ Engaged(j) /\ Active(j)
  BY <1>2, <1>3 DEF Engaged, Newcomer, Active, Others, Registering, Monitoring,
     PlaceInv, TypeOK, Places
<1>6. \A j \in Instances : Active(j) => j # i /\ master[j] = s /\ rows[s] = {j}
  <2>1. PICK r \in Servers : source[r] = s
    BY <1>1 DEF SlavesOf
  <2>. QED
    BY <2>1, <1>2 DEF OneTopology, RowInv, Active, Monitoring
<1>7. PlaceInv'
  BY <1>2 DEF PlaceInv, Others, Monitoring
<1>8. OneEngaged'
  BY <1>5 DEF OneEngaged
<1>9. NewcomerInv'
  <2>1. \A j \in Instances \ {i} : pc'[j] \notin Registering
    BY <1>2, <1>3 DEF Others
  <2>2. \A j \in Instances : Engaged(j)' => master'[j] = s /\ rows'[s] = {j}
    BY <1>2, <1>5, <1>6 DEF Others
  <2>. QED
    BY <1>1, <1>4, <2>1, <2>2 DEF NewcomerInv
<1>10. RowInv'
  BY <1>2, <1>3 DEF RowInv, Active, Others, Registering, Monitoring
<1>11. ListInv'
  <2>1. /\ master'[i] \in Servers \ listed'[i]
        /\ \A r \in listed'[i] : source'[r] # NoServer
    BY <1>1, <1>2 DEF SlavesOf
  <2>2. ASSUME NEW j \in Instances, Engaged(j)'
        PROVE  /\ master'[j] \in Servers \ listed'[j]
               /\ \A r \in listed'[j] : source'[r] # NoServer
    BY <2>2, <1>2, <1>5 DEF ListInv, Others
  <2>. QED
    BY <1>2, <1>4, <2>1, <2>2 DEF ListInv
<1>. QED
  BY <1>7, <1>8, <1>9, <1>10, <1>11

\* What an instance clears on its slaves is not the row of the engaged one:
\* a newcomer has the same master, and that is none of its slaves.
LEMMA UnregisterSlavesStep ==
  ASSUME TypeOK, RegisterInv, OnlyConsoles, NEW i \in Instances, UnregisterSlaves(i)
  PROVE  RegisterInv'
<1>. USE DEF RegisterInv
<1>1. /\ pc[i] = "clean" /\ pc'[i] = "select"
      /\ Others(i) /\ UNCHANGED <<source, mode, joined, master, listed>>
  BY DEF UnregisterSlaves, OnlyConsoles, TypeOK, Move, Others, topology
<1>2. \A s \in Servers : rows'[s] = rows[s] \/ (s \in listed[i] /\ rows'[s] = {})
  BY DEF UnregisterSlaves
<1>3. \A j \in Instances : /\ Newcomer(j)' <=> Newcomer(j)
                           /\ Engaged(j)' <=> Engaged(j)
                           /\ Active(j)' <=> Active(j)
  BY <1>1 DEF Newcomer, Engaged, Active, Others, Monitoring
<1>4. \A j \in Instances : pc'[j] \in Registering => pc[j] \in Registering
  BY <1>1 DEF Others, Registering
<1>5. Newcomer(i) \/ Engaged(i)
  BY <1>1 DEF Newcomer, Engaged, PlaceInv, Registering
<1>6. ASSUME NEW j \in Instances, Engaged(j), rows[master[j]] = {j}, j # i
      PROVE  rows'[master[j]] = {j}
  <2>1. master[j] = master[i]
    BY <1>5, <1>6 DEF OneEngaged, NewcomerInv
  <2>. QED
    BY <1>2, <1>5, <1>6, <2>1 DEF ListInv
<1>7. PlaceInv'
  BY <1>1 DEF PlaceInv, Others, Registering, Monitoring
<1>8. OneEngaged'
  BY <1>3 DEF OneEngaged
<1>9. NewcomerInv'
  <2>1. \A j, k \in Instances : Newcomer(j) /\ Engaged(k) => k # i
    BY <1>1 DEF NewcomerInv, Engaged, Registering
  <2>. QED
    BY <1>1, <1>3, <1>4, <1>6, <2>1 DEF NewcomerInv
<1>10. RowInv'
  <2>1. ASSUME NEW j \in Instances, Active(j)' PROVE rows'[master'[j]] = {j}
    <3>1. Active(j) /\ Engaged(j) /\ j # i
      BY <2>1, <1>1, <1>3 DEF Active, Engaged, Newcomer, Monitoring, TypeOK
    <3>. QED
      BY <3>1, <1>1, <1>6 DEF RowInv
  <2>2. ASSUME NEW j \in Instances, pc'[j] = "insert" PROVE rows'[master'[j]] = {}
    <3>1. j # i /\ pc[j] = "insert" /\ Engaged(j)
      BY <2>2, <1>1 DEF Others, Engaged, Newcomer, PlaceInv, Registering
    <3>. QED
      BY <3>1, <1>1, <1>2, <1>5 DEF RowInv, ListInv
  <2>. QED
    BY <2>1, <2>2 DEF RowInv
<1>11. ListInv'
  BY <1>1, <1>3 DEF ListInv
<1>. QED
  BY <1>7, <1>8, <1>9, <1>10, <1>11

\* A newcomer that finds no row is the only engaged instance; one that finds a
\* row is out of the competition.
LEMMA SelectRowStep ==
  ASSUME TypeOK, RegisterInv, NEW i \in Instances, SelectRow(i), alive[master[i]]
  PROVE  RegisterInv'
<1>. USE DEF RegisterInv
<1>1. /\ pc[i] = "select" /\ mode[i] = "auto"
      /\ Others(i) /\ UNCHANGED <<source, rows, master, listed>>
  BY DEF SelectRow, TypeOK, Move, Others, topology, PlaceInv, Registering
<1>2. Newcomer(i) \/ Engaged(i)
  BY <1>1 DEF Newcomer, Engaged
<1>3. ASSUME NEW j \in Instances, j # i
      PROVE  /\ Newcomer(j)' <=> Newcomer(j)
             /\ Engaged(j)' <=> Engaged(j)
             /\ Active(j)' <=> Active(j)
             /\ ~Newcomer(j)
  BY <1>1, <1>3 DEF Newcomer, Engaged, Active, Others, NewcomerInv, Registering
<1>4. CASE rows[master[i]] # {}
  <2>1. pc'[i] = "watch" /\ mode'[i] = "fail" /\ joined'[i]
    BY <1>4 DEF SelectRow, TypeOK, Move
  <2>2. ~Newcomer(i)' /\ ~Engaged(i)' /\ ~Active(i)'
    BY <2>1 DEF Newcomer, Engaged, Active
  <2>3. PlaceInv'
    BY <1>1, <2>1 DEF PlaceInv, Others, Registering
  <2>4. OneEngaged'
    BY <1>3, <2>2 DEF OneEngaged
  <2>5. NewcomerInv'
    BY <1>3, <2>2 DEF NewcomerInv
  <2>6. RowInv'
    BY <1>1, <1>3, <2>1, <2>2 DEF RowInv, Others
  <2>7. ListInv'
    BY <1>1, <1>3, <2>2 DEF ListInv
  <2>. QED
    BY <2>3, <2>4, <2>5, <2>6, <2>7
<1>5. CASE rows[master[i]] = {}
  <2>1. pc'[i] = "insert" /\ mode'[i] = "auto" /\ joined'[i] = joined[i]
    BY <1>1, <1>5 DEF SelectRow, Move, TypeOK
  <2>2. ~Newcomer(i)' /\ ~Active(i)'
    BY <2>1 DEF Newcomer, Active, Monitoring
  <2>3. \A j \in Instances : Engaged(j) => j = i
    BY <1>2, <1>5 DEF OneEngaged, NewcomerInv
  <2>4. PlaceInv'
    BY <1>1, <2>1 DEF PlaceInv, Others, Registering, Monitoring
  <2>5. OneEngaged'
    BY <1>3, <2>3 DEF OneEngaged
  <2>6. NewcomerInv'
    BY <1>3, <2>2 DEF NewcomerInv
  <2>7. RowInv'
    BY <1>1, <1>3, <1>5, <2>1, <2>2 DEF RowInv, Others
  <2>8. ListInv'
    BY <1>1, <1>2, <1>3, <2>2 DEF ListInv
  <2>. QED
    BY <2>4, <2>5, <2>6, <2>7, <2>8
<1>. QED
  BY <1>4, <1>5

\* The row an instance inserts is the only one of its master.
LEMMA InsertRowStep ==
  ASSUME TypeOK, MonitorsOne, RegisterInv, NEW i \in Instances, InsertRow(i),
         alive[master[i]], table[master[i]]
  PROVE  RegisterInv'
<1>. USE DEF RegisterInv
<1>1. /\ pc[i] = "insert" /\ pc'[i] = "watch" /\ joined'[i]
      /\ Others(i) /\ UNCHANGED <<source, mode, master, listed>>
      /\ rows' = [rows EXCEPT ![master[i]] = @ \cup {i}]
  BY DEF InsertRow, TypeOK, Move, Others, topology
<1>2. master[i] \in Servers /\ rows[master[i]] = {} /\ rows'[master[i]] = {i}
  BY <1>1 DEF RowInv, TypeOK, MonitorsOne
<1>3. Engaged(i)
  BY <1>1 DEF Engaged, Newcomer, PlaceInv, Registering
<1>4. \A j \in Instances : /\ Newcomer(j)' => Newcomer(j) /\ j # i
                           /\ Engaged(j)' => Engaged(j)
  BY <1>1, <1>3 DEF Newcomer, Engaged, Others
<1>5. \A j \in Instances : Engaged(j) => j = i
  BY <1>3 DEF OneEngaged
<1>6. \A j \in Instances : ~Newcomer(j)
  BY <1>1, <1>3 DEF NewcomerInv, Registering, Newcomer
<1>7. PlaceInv'
  BY <1>1 DEF PlaceInv, Others, Registering
<1>8. OneEngaged'
  BY <1>4 DEF OneEngaged
<1>9. NewcomerInv'
  BY <1>4, <1>6 DEF NewcomerInv
<1>10. RowInv'
  <2>1. \A j \in Instances : Active(j)' => j = i
    <3>1. \A j \in Instances : Active(j)' => Engaged(j)'
      <4>1. mode' \in [Instances -> {"auto", "fail"}]
        BY <1>1 DEF TypeOK
      <4>. QED
        BY <4>1 DEF Active, Engaged, Newcomer, Monitoring
    <3>. QED
      BY <3>1, <1>4, <1>5
  <2>2. \A j \in Instances : pc'[j] # "insert"
    BY <1>1, <1>5 DEF Engaged, Newcomer, Others, PlaceInv, Registering
  <2>. QED
    BY <1>1, <1>2, <2>1, <2>2 DEF RowInv
<1>11. ListInv'
  BY <1>1, <1>4 DEF ListInv
<1>. QED
  BY <1>7, <1>8, <1>9, <1>10, <1>11

\* The engaged instance clears its own row only as it leaves; a blocked one
\* clears nothing.
LEMMA UnregisterStep ==
  ASSUME TypeOK, RegisterInv, OnlyConsoles, NEW i \in Instances, Unregister(i)
  PROVE  RegisterInv'
<1>. USE DEF RegisterInv
<1>1. /\ pc[i] = "exit" /\ pc'[i] = "down"
      /\ Others(i) /\ UNCHANGED <<source, mode, joined, master, listed, conf>>
  BY DEF Unregister, TypeOK, Move, Others, topology, bounds, OnlyConsoles
<1>2. CASE rows' = rows
  BY <1>1, <1>2 DEF RegisterInv, PlaceInv, OneEngaged, NewcomerInv, RowInv, ListInv,
     Newcomer, Engaged, Active, Others, Registering, Monitoring
<1>3. CASE mode[i] # "fail" /\ rows' = [rows EXCEPT ![master[i]] = {}]
  <2>1. Engaged(i)
    BY <1>1, <1>3 DEF Engaged, Newcomer, TypeOK
  <2>2. \A j \in Instances : Engaged(j) => j = i
    BY <2>1 DEF OneEngaged
  <2>3. \A j \in Instances : ~Engaged(j)' /\ (Newcomer(j)' => Newcomer(j) /\ j # i)
    BY <1>1, <2>2 DEF Engaged, Newcomer, Others
  <2>4. \A j \in Instances : ~Active(j)' /\ pc'[j] # "insert"
    <3>1. mode' \in [Instances -> {"auto", "fail"}]
      BY <1>1 DEF TypeOK
    <3>2. PlaceInv'
      BY <1>1 DEF PlaceInv, Others, Registering, Monitoring
    <3>. QED
      BY <2>3, <3>1, <3>2 DEF Active, Engaged, Newcomer, Monitoring, PlaceInv, Registering
  <2>5. PlaceInv'
    BY <1>1 DEF PlaceInv, Others, Registering, Monitoring
  <2>6. OneEngaged' /\ RowInv'
    BY <2>3, <2>4 DEF OneEngaged, RowInv
  <2>7. NewcomerInv'
    BY <1>1, <2>3 DEF NewcomerInv, Others, Registering
  <2>8. ListInv'
    BY <1>1, <2>3 DEF ListInv
  <2>. QED
    BY <2>5, <2>6, <2>7, <2>8
<1>. QED
  BY <1>2, <1>3 DEF Unregister, registry

LEMMA DiscoverSlavesStep ==
  ASSUME TypeOK, MonitorsOne, RegisterInv, NEW i \in Instances, DiscoverSlaves(i)
  PROVE  RegisterInv'
<1>. USE AutoFailoverAssumption DEF RegisterInv
<1>1. /\ pc[i] = "watch" /\ UNCHANGED <<source, rows, pc, mode, joined, master>>
      /\ \A j \in Instances \ {i} : listed'[j] = listed[j]
      /\ listed'[i] \subseteq listed[i] \cup SlavesOf(master[i])
  BY DEF DiscoverSlaves, TypeOK, topology, registry
<1>2. PlaceInv' /\ OneEngaged' /\ NewcomerInv' /\ RowInv'
  BY <1>1 DEF PlaceInv, OneEngaged, NewcomerInv, RowInv, Newcomer, Engaged, Active
<1>3. ASSUME NEW j \in Instances, Newcomer(j)' \/ Engaged(j)'
      PROVE  /\ master'[j] \in Servers \ listed'[j]
             /\ \A s \in listed'[j] : source'[s] # NoServer
  <2>1. Newcomer(j) \/ Engaged(j)
    BY <1>1, <1>3 DEF Newcomer, Engaged
  <2>2. master[i] \in Servers /\ source[master[i]] # master[i]
    BY <1>1 DEF MonitorsOne, ListInv
  <2>3. \A s \in SlavesOf(master[i]) : s # master[i] /\ source[s] # NoServer
    BY <2>2 DEF SlavesOf
  <2>. QED
    BY <1>1, <2>1, <2>3 DEF ListInv
<1>4. ListInv'
  BY <1>1, <1>3 DEF ListInv
<1>. QED
  BY <1>2, <1>4

\* No newcomer is there during a failover, and no other engaged instance: what
\* it does to the sources disturbs no list but its own.
LEMMA FailOverStep ==
  ASSUME TypeOK, RegisterInv, StartsApart, NEW i \in Instances, FailOver(i)
  PROVE  RegisterInv'
<1>. USE AutoFailoverAssumption DEF RegisterInv
<1>. DEFINE Moved(c) == {s \in listed[i] \ {c} : alive[s]}
            Attached(c) == [s \in Servers |-> IF s = c THEN NoServer
                              ELSE IF s \in Moved(c) THEN c ELSE source[s]]
            Kept(c) == listed[i] \ (found[i] \cup {c})
<1>1. PICK c \in listed[i] :
        /\ source' = Attached(c) /\ master'[i] = c
        /\ listed'[i] \subseteq Kept(c) \cup {s \in Servers : Attached(c)[s] = c}
  BY DEF FailOver, TypeOK
<1>2. /\ pc[i] = "failover" /\ pc'[i] = "clean" /\ mode[i] = "auto"
      /\ Others(i) /\ UNCHANGED <<rows, mode, joined>>
  BY DEF FailOver, TypeOK, Move, Others, registry
<1>3. \A j \in Instances : pc[j] \notin Registering \cup {"exit"}
  BY DEF FailOver, Apart
<1>4. Engaged(i) /\ joined[i]
  BY <1>2 DEF Engaged, Newcomer, PlaceInv, Monitoring
<1>5. \A j \in Instances : ~Newcomer(j)' /\ (Engaged(j)' => j = i)
  BY <1>2, <1>3, <1>4 DEF Newcomer, Engaged, Others, OneEngaged, Registering
<1>6. \A j \in Instances : ~Active(j)' /\ pc'[j] # "insert"
  <2>1. \A j \in Instances : Active(j) => Engaged(j)
    BY <1>3 DEF Active, Engaged, Newcomer, Monitoring, Registering, TypeOK
  <2>. QED
    BY <1>2, <1>3, <1>4, <2>1 DEF OneEngaged, Active, Monitoring, Registering, Others
<1>7. PlaceInv'
  BY <1>2 DEF PlaceInv, Others, Registering, Monitoring
<1>8. OneEngaged' /\ NewcomerInv' /\ RowInv'
  BY <1>5, <1>6 DEF OneEngaged, NewcomerInv, RowInv
<1>9. ListInv'
  <2>1. /\ c \in Servers /\ listed[i] \subseteq Servers
        /\ \A s \in listed[i] : source[s] # NoServer
    BY <1>4 DEF TypeOK, ListInv
  <2>2. \A s \in Servers : source'[s] # s
    BY <1>1, <2>1 DEF ListInv
  <2>3. c \notin listed'[i]
    BY <1>1, <2>1
  <2>4. \A s \in listed'[i] : source'[s] # NoServer
    BY <1>1, <2>1
  <2>. QED
    BY <1>1, <1>5, <2>1, <2>2, <2>3, <2>4 DEF ListInv
<1>. QED
  BY <1>7, <1>8, <1>9

LEMMA RestartStep ==
  ASSUME TypeOK, RegisterInv, NEW s \in Servers, Restart(s)
  PROVE  RegisterInv'
<1>. USE AutoFailoverAssumption DEF RegisterInv
<1>1. UNCHANGED <<rows, pc, mode, joined, master, listed>>
  BY DEF Restart, registry, process
<1>2. \A r \in Servers : /\ source'[r] # r
                         /\ source[r] # NoServer => source'[r] # NoServer
  BY DEF Restart, ListInv, TypeOK
<1>3. PlaceInv' /\ OneEngaged' /\ NewcomerInv' /\ RowInv'
  BY <1>1 DEF PlaceInv, OneEngaged, NewcomerInv, RowInv, Newcomer, Engaged, Active
<1>4. ListInv'
  BY <1>1, <1>2 DEF ListInv, Newcomer, Engaged, TypeOK
<1>. QED
  BY <1>3, <1>4

LEMMA RegisterStep ==
  ASSUME TypeOK, MonitorsOne, RegisterInv, OnlyConsoles, StartsApart, OneTopology,
         [Next]_vars
  PROVE  RegisterInv'
<1>1. ASSUME NEW i \in Instances, Start(i) PROVE RegisterInv'
  BY <1>1, StartStep
<1>2. ASSUME NEW i \in Instances, Register(i) PROVE RegisterInv'
  <2>f. ASSUME Fails(i), pc[i] \in {"select", "insert"}, UNCHANGED bounds
        PROVE  RegisterInv'
    <3>1. Others(i) /\ Still /\ mode'[i] = mode[i] /\ joined'[i] = joined[i]
      BY <2>f DEF Fails, TypeOK, Others, Still, topology, registry, bounds
    <3>2. \/ joined[i] /\ pc'[i] = "exit"
          \/ ~joined[i] /\ pc'[i] = "down"
      BY <2>f DEF Fails, TypeOK
    <3>. QED
      BY <2>f, <3>1, <3>2, MoveStep DEF Registering
  <2>1. CASE UnregisterSlaves(i)
    BY <2>1, UnregisterSlavesStep
  <2>2. CASE ClearMaster(i)
    BY <2>2 DEF ClearMaster, RegisterInv, PlaceInv
  <2>3. CASE SelectRow(i)
    BY <2>3, <2>f, SelectRowStep DEF SelectRow
  <2>4. CASE InsertRow(i)
    BY <2>4, <2>f, InsertRowStep DEF InsertRow
  <2>. QED
    BY <1>2, <2>1, <2>2, <2>3, <2>4 DEF Register
<1>3. ASSUME NEW i \in Instances, Suspect(i) \/ Reconnect(i) \/ GiveUp(i) \/ Quit(i) \/ Kill(i)
      PROVE  RegisterInv'
  <2>1. Others(i) /\ Still /\ mode'[i] = mode[i] /\ joined'[i] = joined[i]
    BY <1>3 DEF Suspect, Reconnect, GiveUp, Quit, Kill, Move, TypeOK, Others, Still,
       topology, registry, bounds
  <2>2. \/ pc[i] \in Monitoring /\ pc'[i] \in Monitoring
        \/ pc[i] # "down" /\ pc'[i] = "down"
        \/ pc[i] \in Monitoring /\ pc'[i] = "exit"
    BY <1>3 DEF Suspect, Reconnect, GiveUp, Quit, Kill, Move, TypeOK, Monitoring
  <2>. QED
    BY <2>1, <2>2, MoveStep
<1>4. ASSUME NEW i \in Instances, Monitor(i) PROVE RegisterInv'
  BY <1>3, <1>4, DiscoverSlavesStep, FailOverStep DEF Monitor
<1>5. ASSUME NEW i \in Instances, Leave(i) PROVE RegisterInv'
  BY <1>5, UnregisterStep DEF Leave, Cleanup, Move, RegisterInv, PlaceInv
<1>6. ASSUME NEW s \in Servers, Crash(s) PROVE RegisterInv'
  BY <1>6 DEF Crash, registry, process, RegisterInv, PlaceInv, OneEngaged, NewcomerInv,
     RowInv, ListInv, Newcomer, Engaged, Active
<1>7. ASSUME NEW s \in Servers, Restart(s) PROVE RegisterInv'
  BY <1>7, RestartStep
<1>8. CASE UNCHANGED vars
  BY <1>8 DEF vars, topology, registry, process, RegisterInv, PlaceInv, OneEngaged,
     NewcomerInv, RowInv, ListInv, Newcomer, Engaged, Active
<1>. QED
  BY <1>1, <1>2, <1>3, <1>4, <1>5, <1>6, <1>7, <1>8 DEF Next, Step

----------------------------------------------------------------------------
\* What the registration establishes.
LEMMA Initially == Init => IInv
<1>. SUFFICES ASSUME Init PROVE IInv
  OBVIOUS
<1>1. TypeOK /\ MonitorsOne
  BY TypeInit
<1>2. RegisterInv
  BY AutoFailoverAssumption
  DEF Init, RegisterInv, PlaceInv, OneEngaged, NewcomerInv, RowInv, ListInv,
      Newcomer, Engaged, Active, Registering, Monitoring
<1>. QED
  BY <1>1, <1>2 DEF IInv

LEMMA ConfKept == [Next]_vars => conf' = conf
BY DEF Next, Step, Register, Monitor, Leave, Start, UnregisterSlaves, ClearMaster,
       SelectRow, InsertRow, DiscoverSlaves, Suspect, Reconnect, FailOver, GiveUp,
       Unregister, Cleanup, Quit, Kill, Crash, Restart, vars, bounds

LEMMA IInvStep ==
  ASSUME StartsApart, IInv, OnlyConsoles => OneTopology, [Next]_vars
  PROVE  IInv'
<1>1. TypeOK' /\ MonitorsOne'
  BY TypeStep DEF IInv
<1>2. OnlyConsoles' => RegisterInv'
  BY ConfKept, RegisterStep DEF IInv, OnlyConsoles
<1>. QED
  BY <1>1, <1>2 DEF IInv

LEMMA ActiveIsEngaged ==
  ASSUME TypeOK, RegisterInv, NEW i \in Instances, Active(i)
  PROVE  Engaged(i)
BY DEF TypeOK, RegisterInv, PlaceInv, Active, Engaged, Newcomer, Monitoring

\* As long as the servers that have a master have the one of the active
\* console, the row of an active console is there, and no other row: the next
\* console will be blocked.
THEOREM RowKept ==
  ASSUME StartsApart
  PROVE  Spec /\ []OneTopology => []ActiveIsRegistered
<1>1. IInv /\ OneTopology /\ [Next]_vars => IInv'
  BY IInvStep
<1>2. IInv => ActiveIsRegistered
  BY DEF IInv, ActiveIsRegistered, RegisterInv, RowInv
<1>. QED
  BY <1>1, <1>2, Initially, PTL DEF Spec

\* Under the same premise no two consoles are able to fail over from the same
\* master, although every console may be killed, and every server may stop
\* answering, between the SELECT and the INSERT of a registration.
THEOREM OneActive ==
  ASSUME StartsApart
  PROVE  Spec /\ []OneTopology => []AtMostOneActive
<1>1. IInv /\ OneTopology /\ [Next]_vars => IInv'
  BY IInvStep
<1>2. IInv => AtMostOneActive
  BY ActiveIsEngaged DEF IInv, AtMostOneActive, RegisterInv, OneEngaged
<1>. QED
  BY <1>1, <1>2, Initially, PTL DEF Spec

\* Only the failover of a console takes it from "failover" to its second
\* registration.
LEMMA OnlyFailOver ==
  ASSUME TypeOK, [Next]_vars, NEW i \in Instances, pc[i] = "failover", pc'[i] = "clean"
  PROVE  FailOver(i)
<1>1. ASSUME NEW j \in Instances, Start(j) \/ Register(j) \/ Leave(j) \/ Quit(j) \/ Kill(j)
      PROVE  pc[i] # "failover" \/ pc'[i] # "clean"
  <2>1. CASE Start(j) \/ UnregisterSlaves(j)
    BY <2>1 DEF TypeOK, Start, UnregisterSlaves, Move
  <2>2. CASE ClearMaster(j) \/ SelectRow(j) \/ InsertRow(j)
    BY <2>2 DEF TypeOK, ClearMaster, SelectRow, InsertRow, Fails, Move
  <2>3. CASE Leave(j) \/ Quit(j) \/ Kill(j)
    BY <2>3 DEF TypeOK, Leave, Unregister, Cleanup, Quit, Kill, Move
  <2>. QED
    BY <1>1, <2>1, <2>2, <2>3 DEF Register
<1>2. ASSUME NEW j \in Instances, Monitor(j), ~FailOver(j)
      PROVE  pc[i] # "failover" \/ pc'[i] # "clean"
  BY <1>2 DEF TypeOK, Monitor, DiscoverSlaves, Suspect, Reconnect, GiveUp, Move
<1>3. ASSUME NEW j \in Instances, FailOver(j) PROVE j = i
  BY <1>3 DEF TypeOK, FailOver, Move
<1>4. CASE UNCHANGED pc
  BY <1>4
<1>. QED
  BY <1>1, <1>2, <1>3, <1>4 DEF Next, Step, Crash, Restart, vars, process

\* What FailsOverOwnSlaves says of a step.
OwnSlavesOnly ==
  OnlyConsoles => \A i \in Instances, s \in Servers :
    pc[i] = "failover" /\ pc'[i] = "clean" /\ source'[s] # source[s]
      => source[s] = master[i]

LEMMA MovesOwn ==
  ASSUME IInv, OnlyConsoles => OneTopology, [Next]_vars
  PROVE  OwnSlavesOnly
<1>. SUFFICES ASSUME OnlyConsoles, NEW i \in Instances, NEW s \in Servers,
                     pc[i] = "failover", pc'[i] = "clean", source'[s] # source[s]
              PROVE  source[s] = master[i]
  BY DEF OwnSlavesOnly
<1>1. FailOver(i)
  BY OnlyFailOver DEF IInv
<1>2. s \in listed[i] /\ mode[i] = "auto"
  BY <1>1 DEF FailOver
<1>3. Active(i) /\ Engaged(i)
  BY <1>2, ActiveIsEngaged DEF IInv, Active, Monitoring
<1>4. source[s] # NoServer
  BY <1>2, <1>3 DEF IInv, RegisterInv, ListInv
<1>. QED
  BY <1>3, <1>4 DEF OneTopology

----------------------------------------------------------------------------
(***************************************************************************)
(* The premise itself, where at most one server stops answering during the   *)
(* life of the consoles: then there is one failover at most, it finds every   *)
(* slave alive and in its list, and the servers are one topology before and   *)
(* after it.                                                                  *)
(***************************************************************************)
\* Running and not blocked.
Competes(i) == pc[i] # "down" /\ mode[i] = "auto"

\* The servers replicate from c, but a master that was given up from nobody.
OneMaster(c) ==
  /\ source[c] = NoServer
  /\ \A s \in Servers \ {c} : source[s] = c \/ (s = Master /\ source[s] = NoServer)

\* Who competes monitors c; before the failover it lists every slave.
Monitored(c) ==
  \A i \in Instances :
    Competes(i) => master[i] = c /\ (c = Master => Servers \ {c} \subseteq listed[i])

\* The master is given up only when it is the one server that crashed, and after the
\* failover none is left that could.
OneCrash(c) ==
  /\ crashes = 0 => c = Master /\ \A s \in Servers : alive[s]
  /\ \E d \in Servers : \A s \in Servers \ {d} : alive[s]
  /\ c # Master => \A s \in Servers \ {Master} : alive[s]
  /\ \A i \in Instances :
       Competes(i) /\ pc[i] \in {"retry", "failover"} =>
         /\ c = Master /\ crashes # 0
         /\ \A s \in Servers \ {Master} : alive[s]

Shape(c) == OneMaster(c) /\ Monitored(c) /\ OneCrash(c)

ShapeInv == OnlyConsoles => \E c \in Servers : Shape(c)

LEMMA ShapeInitially == Init => ShapeInv
<1> SUFFICES ASSUME Init PROVE Shape(Master)
  BY AutoFailoverAssumption DEF ShapeInv
<1>1. OneMaster(Master)
  BY AutoFailoverAssumption DEF Init, OneMaster
<1>2. Monitored(Master)
  BY DEF Init, Monitored, Competes
<1>3. OneCrash(Master)
  BY AutoFailoverAssumption DEF Init, OneCrash, Competes
<1> QED
  BY <1>1, <1>2, <1>3 DEF Shape

\* A step of a process that leaves the servers as they are, and brings nobody
\* to give up his master.
LEMMA ProcessKeepsShape ==
  ASSUME NEW c \in Servers, Shape(c), UNCHANGED <<alive, source, crashes>>,
         \A j \in Instances : Competes(j)' =>
           /\ Competes(j) /\ master'[j] = master[j] /\ listed[j] \subseteq listed'[j]
           /\ pc'[j] \in {"retry", "failover"} => pc[j] \in {"retry", "failover"}
  PROVE  Shape(c)'
<1>1. OneMaster(c)'
  BY DEF Shape, OneMaster
<1>2. Monitored(c)'
  BY DEF Shape, Monitored
<1>3. OneCrash(c)'
  BY DEF Shape, OneCrash
<1> QED
  BY <1>1, <1>2, <1>3 DEF Shape

\* A console is started on the one master, with all its slaves.
LEMMA StartKeepsShape ==
  ASSUME TypeOK, NEW c \in Servers, Shape(c), NEW i \in Instances, Start(i)
  PROVE  Shape(c)'
<1>1. PICK s \in Servers :
        /\ source[s] = NoServer /\ SlavesOf(s) # {}
        /\ master' = [master EXCEPT ![i] = s] /\ listed' = [listed EXCEPT ![i] = SlavesOf(s)]
  BY DEF Start
<1>2. /\ pc' = [pc EXCEPT ![i] = "clean"] /\ mode' = [mode EXCEPT ![i] = "auto"]
      /\ UNCHANGED <<alive, source, crashes>>
  BY DEF Start, Move, topology
<1>3. s = c
  <2>1. PICK r \in Servers : source[r] = s
    BY <1>1 DEF SlavesOf
  <2> QED
    BY <2>1, AutoFailoverAssumption DEF Shape, OneMaster
<1>4. c = Master => Servers \ {c} \subseteq SlavesOf(c)
  BY DEF Shape, OneMaster, SlavesOf
<1>5. OneMaster(c)'
  BY <1>2 DEF Shape, OneMaster
<1>6. ASSUME NEW j \in Instances, Competes(j)'
      PROVE  /\ master'[j] = c /\ (c = Master => Servers \ {c} \subseteq listed'[j])
             /\ pc'[j] \in {"retry", "failover"} => j # i /\ Competes(j) /\ pc[j] = pc'[j]
  <2>1. CASE j = i
    BY <1>1, <1>2, <1>3, <1>4, <2>1 DEF TypeOK
  <2>2. CASE j # i
    <3>1. /\ master'[j] = master[j] /\ listed'[j] = listed[j] /\ pc'[j] = pc[j]
          /\ mode'[j] = mode[j]
      BY <1>1, <1>2, <2>2 DEF TypeOK
    <3>2. Competes(j)
      BY <1>6, <3>1 DEF Competes
    <3> QED
      BY <2>2, <3>1, <3>2 DEF Shape, Monitored
  <2> QED
    BY <2>1, <2>2
<1>7. Monitored(c)'
  BY <1>6 DEF Monitored
<1>8. OneCrash(c)'
  BY <1>2, <1>6 DEF Shape, OneCrash
<1> QED
  BY <1>5, <1>7, <1>8 DEF Shape

\* Who misses its master misses the server that crashed, and that is the
\* master the run began with.
LEMMA SuspectKeepsShape ==
  ASSUME TypeOK, NEW c \in Servers, Shape(c), NEW i \in Instances, Suspect(i)
  PROVE  Shape(c)'
<1>1. /\ pc' = [pc EXCEPT ![i] = "retry"] /\ pc[i] = "watch" /\ ~alive[master[i]]
      /\ UNCHANGED <<alive, source, crashes, mode, master, listed>>
  BY DEF Suspect, Move, topology, bounds
<1>2. OneMaster(c)'
  BY <1>1 DEF Shape, OneMaster
<1>3. \A j \in Instances : /\ Competes(j)' => Competes(j)
                           /\ j # i => pc'[j] = pc[j]
  BY <1>1 DEF Competes, TypeOK
<1>4. Monitored(c)'
  BY <1>1, <1>3 DEF Shape, Monitored
<1>5. Competes(i) => c = Master /\ crashes # 0 /\ \A s \in Servers \ {Master} : alive[s]
  BY <1>1 DEF Shape, Monitored, OneCrash
<1>6. OneCrash(c)'
  <2>1. ASSUME NEW j \in Instances, Competes(j)', pc'[j] \in {"retry", "failover"}
        PROVE  c = Master /\ crashes # 0 /\ \A s \in Servers \ {Master} : alive[s]
    <3>1. CASE j = i
      BY <1>3, <1>5, <2>1, <3>1
    <3>2. CASE j # i
      BY <1>3, <2>1, <3>2 DEF Shape, OneCrash
    <3> QED
      BY <3>1, <3>2
  <2> QED
    BY <1>1, <2>1 DEF Shape, OneCrash
<1> QED
  BY <1>2, <1>4, <1>6 DEF Shape

\* The one failover: all slaves are alive and in the list, so that all of them
\* are moved.
LEMMA FailOverKeepsShape ==
  ASSUME StartsApart, TypeOK, MonitorsOne, RegisterInv, NEW c \in Servers, Shape(c),
         NEW i \in Instances, FailOver(i)
  PROVE  \E d \in Servers : Shape(d)'
<1>1. PICK d \in {s \in listed[i] : alive[s]} :
        /\ source' = [s \in Servers |-> IF s = d THEN NoServer
                        ELSE IF s \in {r \in listed[i] \ {d} : alive[r]} THEN d ELSE source[s]]
        /\ master' = [master EXCEPT ![i] = d]
  BY DEF FailOver
<1>2. /\ pc[i] = "failover" /\ pc' = [pc EXCEPT ![i] = "clean"] /\ mode[i] = "auto"
      /\ UNCHANGED <<alive, mode, crashes>>
  BY DEF FailOver, Move, bounds
<1>3. \A j \in Instances : pc[j] \notin Registering
  BY DEF FailOver, Apart
<1>4. Competes(i) /\ Engaged(i)
  BY <1>2 DEF Competes, Engaged, Newcomer
<1>5. /\ c = Master /\ master[i] = Master /\ Servers \ {Master} \subseteq listed[i]
      /\ crashes # 0 /\ \A s \in Servers \ {Master} : alive[s]
  BY <1>2, <1>4 DEF Shape, Monitored, OneCrash
<1>6. Master \notin listed[i] /\ listed[i] \subseteq Servers
  BY <1>4, <1>5 DEF RegisterInv, ListInv, TypeOK
<1>7. d \in Servers \ {Master}
  BY <1>1, <1>6
<1>8. ASSUME NEW j \in Instances, Competes(j)' PROVE j = i
  <2>1. CASE j # i
    <3>1. pc'[j] = pc[j] /\ mode'[j] = mode[j]
      BY <1>2, <2>1 DEF TypeOK
    <3>2. Engaged(j)
      BY <1>3, <1>8, <3>1 DEF Competes, Engaged, Newcomer, Registering
    <3> QED
      BY <1>4, <3>2 DEF RegisterInv, OneEngaged
  <2> QED
    BY <2>1
<1>9. OneMaster(d)'
  <2>1. source'[d] = NoServer
    BY <1>1, <1>7
  <2>2. \A s \in Servers \ {d, Master} : source'[s] = d
    BY <1>1, <1>5, <1>7
  <2>3. source'[Master] = NoServer
    BY <1>1, <1>5, <1>6, <1>7 DEF Shape, OneMaster
  <2> QED
    BY <2>1, <2>2, <2>3 DEF OneMaster
<1>10. Monitored(d)'
  <2>1. master'[i] = d /\ d # Master
    BY <1>1, <1>7 DEF TypeOK
  <2> QED
    BY <1>8, <2>1 DEF Monitored
<1>11. OneCrash(d)'
  <2>1. pc'[i] = "clean"
    BY <1>2 DEF TypeOK
  <2> QED
    BY <1>2, <1>5, <1>8, <2>1 DEF OneCrash
<1> QED
  BY <1>7, <1>9, <1>10, <1>11 DEF Shape

LEMMA CrashKeepsShape ==
  ASSUME MaxCrashes <= 1, TypeOK, NEW c \in Servers, Shape(c), NEW s \in Servers, Crash(s)
  PROVE  Shape(c)'
<1>1. /\ alive' = [alive EXCEPT ![s] = FALSE] /\ crashes' = crashes + 1 /\ crashes < MaxCrashes
      /\ UNCHANGED <<source, pc, mode, master, listed>>
  BY DEF Crash, process
<1>2. crashes = 0 /\ crashes' = 1
  BY <1>1, AutoFailoverAssumption DEF TypeOK
<1>3. c = Master /\ (\A r \in Servers : alive[r])
      /\ \A i \in Instances : Competes(i) => pc[i] \notin {"retry", "failover"}
  BY <1>2 DEF Shape, OneCrash
<1>4. \A r \in Servers \ {s} : alive'[r]
  BY <1>1, <1>3 DEF TypeOK
<1>5. OneMaster(c)' /\ Monitored(c)'
  BY <1>1 DEF Shape, OneMaster, Monitored, Competes
<1>6. OneCrash(c)'
  BY <1>1, <1>2, <1>3, <1>4 DEF OneCrash, Competes
<1> QED
  BY <1>5, <1>6 DEF Shape

\* The master that was given up comes back, and is attached, if at all, to the
\* present one.
LEMMA RestartKeepsShape ==
  ASSUME TypeOK, NEW c \in Servers, Shape(c), NEW s \in Servers, Restart(s)
  PROVE  Shape(c)'
<1>1. /\ alive' = [alive EXCEPT ![s] = TRUE] /\ ~alive[s]
      /\ UNCHANGED <<crashes, pc, mode, master, listed>>
  BY DEF Restart, process, bounds
<1>2. \A r \in Servers : alive[r] => alive'[r]
  BY <1>1 DEF TypeOK
<1>3. ASSUME source' # source
      PROVE  s = Master /\ c # Master /\ source' = [source EXCEPT ![s] = c]
  <2>1. PICK m \in Servers \ {s} : /\ source[s] = NoServer /\ source[m] = NoServer
                                   /\ source' = [source EXCEPT ![s] = m]
    BY <1>3 DEF Restart
  <2>2. s # c
    BY <1>1, <2>1, AutoFailoverAssumption DEF Shape, OneMaster, OneCrash
  <2>3. s = Master /\ c # Master
    BY <2>1, <2>2, AutoFailoverAssumption DEF Shape, OneMaster
  <2>4. m = c
    BY <2>1, <2>3, AutoFailoverAssumption DEF Shape, OneMaster
  <2> QED
    BY <2>1, <2>3, <2>4
<1>4. OneMaster(c)'
  <2>1. CASE source' = source
    BY <2>1 DEF Shape, OneMaster
  <2>2. CASE source' # source
    BY <1>3, <2>2 DEF Shape, OneMaster, TypeOK
  <2> QED
    BY <2>1, <2>2
<1>5. Monitored(c)'
  BY <1>1 DEF Shape, Monitored, Competes
<1>6. OneCrash(c)'
  BY <1>1, <1>2 DEF Shape, OneCrash, Competes
<1> QED
  BY <1>4, <1>5, <1>6 DEF Shape

\* The other steps of an instance.
LEMMA StepKeepsShape ==
  ASSUME TypeOK, NEW c \in Servers, Shape(c), NEW i \in Instances,
         \/ Register(i) \/ DiscoverSlaves(i) \/ Reconnect(i) \/ GiveUp(i)
         \/ Leave(i) \/ Quit(i) \/ Kill(i)
  PROVE  Shape(c)'
<1>1. /\ UNCHANGED <<alive, source, crashes, master>>
      /\ \A j \in Instances : listed[j] \subseteq listed'[j]
  <2>1. UNCHANGED <<alive, source, crashes, master>>
    BY DEF Register, UnregisterSlaves, ClearMaster, SelectRow, InsertRow, Fails, DiscoverSlaves,
           Reconnect, GiveUp, Leave, Unregister, Cleanup, Quit, Kill, topology, bounds
  <2>2. CASE DiscoverSlaves(i)
    <3>1. PICK new : listed' = [listed EXCEPT ![i] = @ \cup new]
      BY <2>2 DEF DiscoverSlaves
    <3> QED
      BY <2>1, <3>1 DEF TypeOK
  <2>3. CASE Register(i)
    BY <2>1, <2>3 DEF Register, UnregisterSlaves, ClearMaster, SelectRow, InsertRow, Fails
  <2>4. CASE Reconnect(i) \/ GiveUp(i) \/ Leave(i) \/ Quit(i) \/ Kill(i)
    BY <2>1, <2>4 DEF Reconnect, GiveUp, Leave, Unregister, Cleanup, Quit, Kill
  <2> QED
    BY <2>2, <2>3, <2>4
<1>2. \A j \in Instances :
        /\ pc'[j] # "down" /\ mode'[j] = "auto" => pc[j] # "down" /\ mode[j] = "auto"
        /\ pc'[j] \in {"retry", "failover"} => pc[j] \in {"retry", "failover"}
  <2>1. CASE Register(i)
    BY <2>1 DEF Register, UnregisterSlaves, ClearMaster, SelectRow, InsertRow, Fails, Move, TypeOK
  <2>2. CASE DiscoverSlaves(i)
    BY <2>2 DEF DiscoverSlaves
  <2>3. CASE Reconnect(i) \/ GiveUp(i)
    BY <2>3 DEF Reconnect, GiveUp, Move, TypeOK
  <2>4. CASE Leave(i) \/ Quit(i) \/ Kill(i)
    BY <2>4 DEF Leave, Unregister, Cleanup, Quit, Kill, Move, TypeOK
  <2> QED
    BY <2>1, <2>2, <2>3, <2>4
<1> QED
  BY <1>1, <1>2, ProcessKeepsShape DEF Competes

LEMMA ShapeStep ==
  ASSUME StartsApart, MaxCrashes <= 1, IInv, ShapeInv, [Next]_vars
  PROVE  ShapeInv'
<1> SUFFICES ASSUME OnlyConsoles PROVE \E d \in Servers : Shape(d)'
  BY ConfKept DEF ShapeInv, OnlyConsoles
<1>1. PICK c \in Servers : Shape(c)
  BY DEF ShapeInv
<1>2. TypeOK /\ MonitorsOne /\ RegisterInv
  BY DEF IInv
<1>3. ASSUME NEW i \in Instances, Start(i) \/ Step(i) \/ Quit(i) \/ Kill(i)
      PROVE  \E d \in Servers : Shape(d)'
  <2>1. CASE Start(i)
    BY <1>1, <1>2, <2>1, StartKeepsShape
  <2>2. CASE Suspect(i)
    BY <1>1, <1>2, <2>2, SuspectKeepsShape
  <2>3. CASE FailOver(i)
    BY <1>1, <1>2, <2>3, FailOverKeepsShape
  <2>4. CASE \/ Register(i) \/ DiscoverSlaves(i) \/ Reconnect(i) \/ GiveUp(i)
             \/ Leave(i) \/ Quit(i) \/ Kill(i)
    BY <1>1, <1>2, <2>4, StepKeepsShape
  <2> QED
    BY <1>3, <2>1, <2>2, <2>3, <2>4 DEF Step, Monitor
<1>4. ASSUME NEW s \in Servers, Crash(s) \/ Restart(s) PROVE \E d \in Servers : Shape(d)'
  BY <1>1, <1>2, <1>4, CrashKeepsShape, RestartKeepsShape
<1>5. CASE UNCHANGED vars
  <2>1. UNCHANGED <<alive, source, crashes, pc, mode, master, listed>>
    BY <1>5 DEF vars, topology, process, bounds
  <2>2. Shape(c)'
    BY <1>1, <2>1, ProcessKeepsShape DEF Competes
  <2> QED
    BY <2>2
<1> QED
  BY <1>3, <1>4, <1>5 DEF Next

LEMMA ShapeIsOne == IInv /\ ShapeInv => (OnlyConsoles => OneTopology)
<1> SUFFICES ASSUME IInv, ShapeInv, OnlyConsoles, NEW i \in Instances, NEW s \in Servers,
                    Active(i)
             PROVE  source[s] \in {master[i], NoServer}
  BY DEF OneTopology
<1>1. Engaged(i)
  BY ActiveIsEngaged DEF IInv
<1>2. PICK c \in Servers : Shape(c)
  BY DEF ShapeInv
<1>3. master[i] = c
  BY <1>1, <1>2 DEF Shape, Monitored, Competes, Engaged
<1> QED
  BY <1>2, <1>3 DEF Shape, OneMaster

\* Where at most one server crashes the consoles keep the servers one topology, so
\* that the two theorems above hold of them without a premise, and a failover moves
\* only slaves of the master that was given up.
THEOREM ConsolesKeepOneTopology ==
  ASSUME StartsApart, MaxCrashes <= 1
  PROVE  Spec => /\ [](OnlyConsoles => OneTopology)
                 /\ []AtMostOneActive /\ []ActiveIsRegistered /\ FailsOverOwnSlaves
<1> DEFINE Inv == IInv /\ ShapeInv
<1>1. Init => Inv
  BY Initially, ShapeInitially
<1>2. Inv /\ [Next]_vars => Inv'
  <2> SUFFICES ASSUME Inv, [Next]_vars PROVE Inv'
    OBVIOUS
  <2>1. ShapeInv'
    BY ShapeStep
  <2>2. OnlyConsoles => OneTopology
    BY ShapeIsOne
  <2>3. IInv'
    BY <2>2, IInvStep
  <2> QED
    BY <2>1, <2>3
<1>3. Inv => (OnlyConsoles => OneTopology)
  BY ShapeIsOne
<1>4. Inv => AtMostOneActive /\ ActiveIsRegistered
  BY ActiveIsEngaged DEF IInv, AtMostOneActive, ActiveIsRegistered, RegisterInv, OneEngaged, RowInv
<1>5. Inv /\ [Next]_vars => [OwnSlavesOnly]_vars
  BY ShapeIsOne, MovesOwn
<1> QED
  BY <1>1, <1>2, <1>3, <1>4, <1>5, PTL DEF Spec, FailsOverOwnSlaves, OwnSlavesOnly
=============================================================================
