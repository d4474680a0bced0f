------------------------------ MODULE BackupFiles ------------------------------
(* The directory of backups: two processes that write archives into it and     *)
(* prune it, an operator's migration of archives in the old format, and the    *)
(* crashes of each.  internal/backup/{snapshot,retention,trigger}.go,          *)
(* cmd/backup_migrate, internal/api/admin.go.                                  *)
(*                                                                             *)
(* An instant names the archive of its second.  Week and Month are the lengths *)
(* of the calendar's buckets, KeepAll and Weekly the policy's ages.            *)
EXTENDS Integers, FiniteSets, FiniteSetsExt

CONSTANTS Process, KeepAll, Weekly, Week, Month, MaxTime, MaxCrashes

RetentionAssumption ==
    /\ {KeepAll, Weekly, MaxTime, MaxCrashes} \subseteq Nat
    /\ {Week, Month} \subseteq Nat \ {0}

VARIABLES
    now,
    file,      \* the files, <<instant, kind>>
    written,   \* the instants of the archives there ever were
    run,       \* what each process's backup is at
    migration,
    crashes

vars == <<now, file, written, run, migration, crashes>>

Instants == 0 .. MaxTime
Kinds == {"tar", "json", "saved", "tmp"}
Idle == [at |-> "idle", stamp |-> 0, todo |-> {}]

TypeOK ==
    /\ now \in Instants /\ crashes \in 0 .. MaxCrashes
    /\ file \subseteq Instants \X Kinds /\ written \subseteq Instants
    /\ run \in [Process -> [at : {"idle", "writing", "wrote", "pruning"}, stamp : Instants,
                            todo : SUBSET (Instants \X {"tar", "json"})]]
    /\ migration \in [at : {"idle", "writing", "wrote", "removing"}, stamp : Instants,
                      todo : SUBSET Instants]

\* An old installation left one archive in the old format, with its saved
\* articles or without them.
Init ==
    /\ now = 0 /\ crashes = 0
    /\ file \in {{}, {<<0, "json">>}, {<<0, "json">>, <<0, "saved">>}}
    /\ written = {f[1] : f \in file}
    /\ run = [p \in Process |-> Idle]
    /\ migration = Idle

-----------------------------------------------------------------------------
\* One entry per instant; the new format wins.
List ==
    {<<t, "tar">> : t \in {u \in Instants : <<u, "tar">> \in file}} \cup
    {<<t, "json">> : t \in {u \in Instants : <<u, "json">> \in file /\ <<u, "tar">> \notin file}}

Orphans == {f \in file : f[2] = "saved" /\ <<f[1], "json">> \notin file}

\* The bucket of an archive of age beyond KeepAll.
Bucket(t) == IF now - t < Weekly THEN <<"week", t \div Week>> ELSE <<"month", t \div Month>>

Newest(fs) == {f \in fs : \A g \in fs : g[1] <= f[1]}
KeptNewest(fs) == Newest(fs) \cup {f \in fs : now - f[1] < KeepAll}
Kept(fs) ==
    LET old == {f \in fs : now - f[1] >= KeepAll} IN
    Newest(fs) \cup (fs \ old)
        \cup UNION {Newest({g \in old : Bucket(g[1]) = Bucket(f[1])}) : f \in old}

-----------------------------------------------------------------------------
\* A backup is due at any time: a quiet period after a change, daily, or at the
\* administrator's word.  A process makes one at a time; the temporary file has
\* the second's name.
RunNow(p) ==
    /\ run[p].at = "idle"
    /\ run' = [run EXCEPT ![p] = [Idle EXCEPT !.at = "writing", !.stamp = now]]
    /\ file' = file \cup {<<now, "tmp">>}
    /\ UNCHANGED <<now, written, migration, crashes>>

\* The rename publishes the archive.  Of two writers of one second the other's
\* finds no file.
WriteFiles(p) ==
    LET t == run[p].stamp IN
    /\ run[p].at = "writing"
    /\ \/ /\ <<t, "tmp">> \in file
          /\ file' = (file \ {<<t, "tmp">>}) \cup {<<t, "tar">>}
          /\ written' = written \cup {t}
          /\ run' = [run EXCEPT ![p].at = "wrote"]
       \/ /\ file' = file \ {<<t, "tmp">>}          \* an error on the way
          /\ run' = [run EXCEPT ![p] = Idle] /\ UNCHANGED written
    /\ UNCHANGED <<now, migration, crashes>>

\* Prune sweeps what has lost its other half, and decides from one listing.
Prune(p) ==
    /\ run[p].at = "wrote"
    /\ file' = file \ Orphans
    /\ run' = [run EXCEPT ![p].at = "pruning", ![p].todo = List \ Kept(List)]
    /\ UNCHANGED <<now, written, migration, crashes>>

\* It removes one file after another, and stops at one it does not find.
Remove(p) ==
    /\ run[p].at = "pruning"
    /\ \/ /\ run[p].todo = {} /\ run' = [run EXCEPT ![p] = Idle] /\ UNCHANGED file
       \/ LET f == CHOOSE g \in run[p].todo : \A h \in run[p].todo : h[1] <= g[1] IN
          /\ run[p].todo # {}
          /\ IF f \in file
             THEN /\ file' = file \ {f, IF f[2] = "json" THEN <<f[1], "saved">> ELSE f}
                  /\ run' = [run EXCEPT ![p].todo = @ \ {f}]
             ELSE run' = [run EXCEPT ![p] = Idle] /\ UNCHANGED file
    /\ UNCHANGED <<now, written, migration, crashes>>

\* What a process was doing is lost with it; temporary files stay.
Crash(p) ==
    /\ crashes < MaxCrashes /\ crashes' = crashes + 1
    /\ run[p].at # "idle" /\ run' = [run EXCEPT ![p] = Idle]
    /\ UNCHANGED <<now, file, written, migration>>

-----------------------------------------------------------------------------
\* backup_migrate: the archives that are in the old format alone.
scan ==
    /\ migration.at = "idle" /\ migration.todo = {}
    /\ LET old == {f[1] : f \in {g \in List : g[2] = "json"}} IN
       /\ old # {}
       /\ migration' = [Idle EXCEPT !.at = "writing", !.stamp = Max(old), !.todo = old]
    /\ UNCHANGED <<now, file, written, run, crashes>>

\* It refuses to overwrite, and needs the source to be still there.
migrateOne ==
    LET t == migration.stamp IN
    /\ migration.at = "writing"
    /\ \/ /\ <<t, "tar">> \notin file /\ <<t, "json">> \in file
          /\ file' = file \cup {<<t, "tar">>}
          /\ migration' = [migration EXCEPT !.at = "wrote"]
       \/ migration' = Idle /\ UNCHANGED file
    /\ UNCHANGED <<now, written, run, crashes>>

\* The new archive is read back; the old files go only then.
Verify ==
    LET t == migration.stamp IN
    /\ migration.at = "wrote"
    /\ \/ migration' = [migration EXCEPT !.at = "removing"] /\ UNCHANGED file
       \/ migration' = Idle /\ file' = file \ {<<t, "tar">>}
    /\ UNCHANGED <<now, written, run, crashes>>

RemoveSource ==
    LET t == migration.stamp IN
    /\ migration.at = "removing"
    /\ \/ <<t, "json">> \in file /\ file' = file \ {<<t, "json">>}
          /\ migration' = migration
       \/ <<t, "json">> \notin file /\ file' = file \ {<<t, "saved">>} /\ migration' = Idle
       \/ migration' = Idle /\ UNCHANGED file       \* kept, or interrupted
    /\ UNCHANGED <<now, written, run, crashes>>

\* A day, which ends no sooner than a pass or the migration of one archive.
Tick ==
    /\ \A p \in Process : run[p].at # "pruning"
    /\ migration.at \notin {"wrote", "removing"}
    /\ now < MaxTime /\ now' = now + 1
    /\ UNCHANGED <<file, written, run, migration, crashes>>

Next ==
    \/ \E p \in Process :
         RunNow(p) \/ WriteFiles(p) \/ Prune(p) \/ Remove(p) \/ Crash(p)
    \/ scan \/ migrateOne \/ Verify \/ RemoveSource \/ Tick

Spec == Init /\ [][Next]_vars

-----------------------------------------------------------------------------
\* Pruning never leaves a hole: for every archive there ever was a listed one is
\* as new, and newer by no more than lies within a week and within a month,
\* whatever two processes prune from different listings of a day, and wherever
\* they or a migration stop.
Covered ==
    \A t \in written : \E f \in List : f[1] >= t /\ f[1] - t <= (Week - 1) + (Month - 1)
=============================================================================
