------------------------------ MODULE MCBackup ------------------------------
(***************************************************************************)
(* Backups and restores of spaces, on the partition servers (BackupFiles)  *)
(* or on the master (BackupTasks): a behaviour has requests of one of the  *)
(* two, and only that one moves.                                           *)
(***************************************************************************)
EXTENDS BackupFiles, BackupTasks, TLC

CONSTANTS n1, n2, p1, p2, p3, p4, sp1, sp2, sp3

D1 == [dir |-> "data", name |-> "000001.sst", crc |-> "c1"]
D2 == [dir |-> "data", name |-> "000002.sst", crc |-> "c2"]
B1 == [dir |-> "bitmap", name |-> "bitmap", crc |-> "c3"]
B2 == [dir |-> "bitmap", name |-> "bitmap", crc |-> "c4"]

B(n, p, F) == [kind |-> "backup", node |-> n, part |-> p, files |-> F]
R(n, p) == [kind |-> "restore", node |-> n, part |-> p, files |-> {}]
D(n) == [kind |-> "delete", node |-> n, part |-> p1, files |-> {}]
X == [kind |-> "direct", node |-> n1, part |-> p1, files |-> {}]

\* two versions on one server, where they share a directory, and on two; two
\* partitions on one server; a backup beside a deletion; restores beside a
\* backup and beside deletions
MCScripts ==
    { <<>>,
      <<B(n1, p1, {B1}), B(n1, p1, {B2})>>,
      <<B(n1, p1, {D1}), B(n2, p1, {D1}), D(n1)>>,
      <<B(n1, p1, {D1}), B(n1, p2, {D1}), D(n1)>>,
      <<B(n1, p1, {D1}), D(n1), B(n1, p1, {D1})>>,
      <<B(n1, p1, {B1}), B(n2, p1, {B2}), R(n1, p1)>>,
      <<B(n1, p1, {D1, D2}), D(n1), R(n2, p1)>>,
      <<B(n1, p1, {D1, B1}), X, R(n2, p1)>> }

MCPartsOf == sp1 :> {p1, p2} @@ sp2 :> {p3} @@ sp3 :> {p4}

MCReplicas == p1 :> <<n1, n2>> @@ p2 :> <<n2>> @@ p3 :> <<n1, n2>> @@ p4 :> <<n1>>

\* the BackupID is new, i.e. that of the version, unless the client gives it
AskAs(kind, s, v, i) == [kind |-> kind, space |-> s, ver |-> v, id |-> i]

Ask(kind, s, v) == AskAs(kind, s, v, v)

\* two partitions; two spaces; a space twice; a restore and a backup of
\* another space or of the same, also with one BackupID
MCOrders ==
    {<<>>,
     <<Ask("backup", sp1, 1)>>,
     <<Ask("backup", sp2, 1), Ask("backup", sp3, 2)>>,
     <<Ask("backup", sp3, 1), Ask("backup", sp3, 2)>>,
     <<Ask("backup", sp3, 1), Ask("restore", sp2, 2)>>,
     <<Ask("restore", sp1, 1)>>,
     <<Ask("restore", sp3, 1), Ask("backup", sp3, 2)>>,
     <<Ask("restore", sp3, 1), AskAs("backup", sp3, 2, 1)>>}

OnServers == order = <<>>

MCInit == Init /\ TasksInit /\ (order = <<>> <=> script # <<>>)

MCNext ==
    \/ OnServers /\ Next /\ UNCHANGED taskVars
    \/ ~OnServers /\ TasksNext /\ UNCHANGED vars

\* the fairness of FairSpec for the servers, of TasksFairSpec for the master
MCSpec ==
    /\ MCInit
    /\ [][MCNext]_<<vars, taskVars>>
    /\ WF_vars(OnServers /\ \E j \in Jobs : Step(j))
    /\ WF_taskVars(~OnServers /\ Working)
    /\ WF_taskVars(~OnServers /\ MonitorStep)
    /\ WF_taskVars(~OnServers /\ CheckerStep)

\* Deleting, saving late or restarting never harms the files of a version that
\* nobody deletes, no copy of the counts falls below the versions it lists, and a
\* restore that completes has the files of one snapshot (ReferenceManager,
\* startRestore).  Left out are versions whose backup read a directory that another
\* backup wrote or removed, or whose checkpoint failed unnoticed.
BackupsIntact == KeptIntact /\ CountsCoverVersions /\ RestoredWhole

\* A backup that the master reports as completed is completed on a server for each
\* partition, a restore on a replica of each (others may not have been sent it), and
\* an accepted version is reported before it is forgotten.
ReportedIsDone == CompletedIsBackedUp /\ CompletedIsRestored /\ AcceptedIsTracked

\* Every task of a partition server ends, and every accepted backup is settled on
\* the master, its version reported and the space open to the next.
BackupsEnd == TasksEnd /\ BackupsSettle
=============================================================================
