------------------------------- MODULE Backup -------------------------------
(* Backup, retention, migration and restore of the job database             *)
(* (src/bdencode/db_backup.py and Database.initialize).  A backup is copied  *)
(* aside, renamed and then described by a manifest; a restore takes a backup *)
(* of what it replaces.  The worker, the API and the command line each do    *)
(* one of these at a time, and any of them may die between two steps.        *)
EXTENDS Integers, FiniteSets

CONSTANTS
    Groups,           \* retention groups, "scheduled" among them
    DefaultKeep,      \* DEFAULT_KEEP, one number for every group
    KeepScheduled,    \* backup_keep_scheduled of the configuration
    MaxCommits, MaxBackups, MaxBackupCrashes

ASSUME BackupAssumption ==
    /\ {"scheduled", "manual", "pre-migration", "pre-restore"} \subseteq Groups
    /\ DefaultKeep \in Nat \ {0} /\ KeepScheduled \in Nat \ {0}
    /\ MaxCommits \in Nat /\ MaxBackups \in Nat /\ MaxBackupCrashes \in Nat

VARIABLES
    file, wal,   \* content of the database file; committed pages beside it
    truth, had,  \* the state committed last, and every one there has been
    up,          \* the services that use the database
    stored,      \* files under a valid backup name: name -> content
    manifests,   \* their manifests: name -> group and content (digest)
    recorded,    \* every manifest ever written: name -> group
    task,        \* process -> the backup, pruning or restore it is in
    named,       \* names given so far; they carry the time, so they are ordered
    backupCrashes

backupVars == <<file, wal, truth, had, up, stored, manifests, recorded, task, named, backupCrashes>>
database   == <<file, wal, truth, had>>

Services  == {"worker", "api"}
Processes == Services \cup {"cli"}
NoContent == [row |-> -1, schema |-> 0]      \* also: an empty database
Idle == [at |-> "idle", group |-> "manual", name |-> 0, copy |-> NoContent, doomed |-> {}, source |-> 0]

SchemaVersion == 2
Shown == IF wal # NoContent THEN wal ELSE file       \* what SQLite reads
Doing(p) == task[p].at
Connected(p) == p \in up \/ Doing(p) # "idle"
Step(p, at) == task' = [task EXCEPT ![p].at = at]
End(p)      == task' = [task EXCEPT ![p] = Idle]

BackupInit ==
    /\ file \in [row : {0}, schema : 1..SchemaVersion] /\ wal = NoContent
    /\ truth = file /\ had = {file}
    /\ up = {} /\ stored = <<>> /\ manifests = <<>> /\ recorded = <<>>
    /\ task = [p \in Processes |-> Idle] /\ named = 0 /\ backupCrashes = 0

\* The write lock of a migration excludes every other writer.
Migrating(p) == Doing(p) # "idle" /\ task[p].group = "pre-migration"
Locked == \E p \in Processes : Migrating(p)

-----------------------------------------------------------------------------
(* The database and its services                                             *)

Commit ==
    /\ up # {} /\ ~Locked /\ truth.row < MaxCommits
    /\ truth' = [truth EXCEPT !.row = @ + 1]
    /\ wal' = truth' /\ had' = had \cup {truth'}
    /\ UNCHANGED <<file, up, stored, manifests, recorded, task, named, backupCrashes>>

\* SQLite moves the log into the file, at the latest when the last connection
\* closes.
Checkpoint ==
    /\ wal # NoContent /\ \E p \in Processes : Connected(p)
    /\ file' = wal /\ wal' = NoContent
    /\ UNCHANGED <<truth, had, up, stored, manifests, recorded, task, named, backupCrashes>>

ServiceStops(p) ==
    /\ p \in up /\ Doing(p) = "idle"
    /\ up' = up \ {p}
    /\ IF up' = {} /\ Doing("cli") = "idle" THEN file' = Shown /\ wal' = NoContent
                                            ELSE UNCHANGED <<file, wal>>
    /\ UNCHANGED <<truth, had, stored, manifests, recorded, task, named, backupCrashes>>

Begun(p, group, source) ==
    /\ named < MaxBackups
    /\ named' = named + 1
    /\ task' = [task EXCEPT ![p] = [Idle EXCEPT !.at = "copy", !.group = group,
                                                !.name = named + 1, !.source = source]]

\* initialize: an older schema is backed up and migrated under the write lock.
\* The operator starts nothing while a restore runs.
Initialize(p) ==
    /\ p \in Services \ up /\ Doing(p) = "idle" /\ ~Locked /\ task["cli"].group # "pre-restore"
    /\ IF truth.schema = SchemaVersion
         THEN up' = up \cup {p} /\ UNCHANGED <<task, named>>
         ELSE Begun(p, "pre-migration", 0) /\ UNCHANGED up
    /\ UNCHANGED <<file, wal, truth, had, stored, manifests, recorded, backupCrashes>>

\* MIGRATIONS: from one schema to the next.
Upgraded(content) == [content EXCEPT !.schema = SchemaVersion]

\* Every missing step in turn, and the tables that are not there.
Migrated(content) == IF content.schema < SchemaVersion THEN Upgraded(content) ELSE content

Migrates(p) ==
    /\ Doing(p) = "migrate"
    /\ truth' = Migrated(truth)
    /\ wal' = truth' /\ had' = had \cup {truth'}
    /\ up' = up \cup {p} /\ End(p)
    /\ UNCHANGED <<file, stored, manifests, recorded, named, backupCrashes>>

-----------------------------------------------------------------------------
(* create_backup                                                             *)

ScheduledBackup ==
    /\ "worker" \in up /\ Doing("worker") = "idle"
    /\ Begun("worker", "scheduled", 0)
    /\ UNCHANGED <<file, wal, truth, had, up, stored, manifests, recorded, backupCrashes>>

\* POST /system/backups, or db-backup of the command line.
ManualBackup(p) ==
    /\ p \in {"cli"} \cup (up \ {"worker"}) /\ Doing(p) = "idle"
    /\ truth.schema = SchemaVersion  \* an older one goes through Initialize first
    /\ Begun(p, "manual", 0)
    /\ UNCHANGED <<file, wal, truth, had, up, stored, manifests, recorded, backupCrashes>>

\* The online backup of SQLite, checked before it gets its name.  When nobody
\* else uses the database, closing it empties the log.
BackupCopies(p) ==
    /\ Doing(p) = "copy"
    /\ task' = [task EXCEPT ![p].at = "name", ![p].copy = Shown]
    /\ IF \A q \in Processes \ {p} : ~Connected(q) THEN file' = Shown /\ wal' = NoContent
                                                   ELSE UNCHANGED <<file, wal>>
    /\ UNCHANGED <<truth, had, up, stored, manifests, recorded, named, backupCrashes>>

Stored(n, content) == stored' = [m \in DOMAIN stored \cup {n} |-> IF m = n THEN content ELSE stored[m]]

BackupNamed(p) ==
    /\ Doing(p) = "name"
    /\ Stored(task[p].name, task[p].copy)
    /\ Step(p, "record")
    /\ UNCHANGED <<file, wal, truth, had, up, manifests, recorded, named, backupCrashes>>

AfterBackup(group) == CASE group = "pre-migration" -> "migrate"
                        [] group = "pre-restore" -> "restore"
                        [] OTHER -> "list"

BackupRecorded(p) ==
    /\ Doing(p) = "record"
    /\ LET n == task[p].name
           entry == [group |-> task[p].group, content |-> stored[n]] IN
       /\ manifests' = [m \in DOMAIN manifests \cup {n} |-> IF m = n THEN entry ELSE manifests[m]]
       /\ recorded' = [m \in DOMAIN recorded \cup {n} |-> IF m = n THEN task[p].group ELSE recorded[m]]
    /\ Step(p, AfterBackup(task[p].group))
    /\ UNCHANGED <<file, wal, truth, had, up, stored, named, backupCrashes>>

\* A full disk.  The migration goes on without its backup, everything else ends.
BackupFails(p) ==
    /\ Doing(p) \in {"copy", "name", "record"}
    /\ IF Migrating(p) THEN Step(p, "migrate") ELSE End(p)
    /\ UNCHANGED <<file, wal, truth, had, up, stored, manifests, recorded, named, backupCrashes>>

-----------------------------------------------------------------------------
(* prune_backups                                                             *)

Listed == DOMAIN stored \cap DOMAIN manifests
Keep(p, group) == IF p = "worker" /\ group = "scheduled" THEN KeepScheduled ELSE DefaultKeep
Newer(n) == {m \in Listed : m > n /\ manifests[m].group = manifests[n].group}

\* Variant: the listing is taken oldest first.
PruneListsOldest(p) ==
    /\ Doing(p) = "list"
    /\ task' = [task EXCEPT ![p].at = "prune",
          ![p].doomed = {n \in Listed : Cardinality({m \in Listed :
               m < n /\ manifests[m].group = manifests[n].group}) >= Keep(p, manifests[n].group)}]
    /\ UNCHANGED <<file, wal, truth, had, up, stored, manifests, recorded, named, backupCrashes>>

PruneLists(p) ==
    /\ Doing(p) = "list"
    /\ task' = [task EXCEPT ![p].at = "prune",
          ![p].doomed = {n \in Listed : Cardinality(Newer(n)) >= Keep(p, manifests[n].group)}]
    /\ UNCHANGED <<file, wal, truth, had, up, stored, manifests, recorded, named, backupCrashes>>

Without(f, n) == [m \in DOMAIN f \ {n} |-> f[m]]

PruneUnlinks(p) ==
    /\ Doing(p) = "prune"
    /\ IF task[p].doomed = {} THEN End(p) /\ UNCHANGED stored
       ELSE \E n \in task[p].doomed :
              /\ \A m \in task[p].doomed : m <= n
              /\ stored' = Without(stored, n) /\ Step(p, "forget")
    /\ UNCHANGED <<file, wal, truth, had, up, manifests, recorded, named, backupCrashes>>

PruneForgets(p) ==
    /\ Doing(p) = "forget"
    /\ \E n \in task[p].doomed :
         /\ \A m \in task[p].doomed : m <= n
         /\ manifests' = Without(manifests, n)
         /\ task' = [task EXCEPT ![p].at = "prune", ![p].doomed = @ \ {n}]
    /\ UNCHANGED <<file, wal, truth, had, up, stored, recorded, named, backupCrashes>>

-----------------------------------------------------------------------------
(* restore_backup, with the services stopped                                 *)

\* verify_backup, which needs no manifest.
Verified(n) ==
    /\ n \in DOMAIN manifests => manifests[n].content = stored[n]
    /\ stored[n].schema \in 1..SchemaVersion

\* Variant: nothing is saved of what will be replaced.
RestoreBeginsRashly ==
    /\ up = {} /\ \A p \in Processes : Doing(p) = "idle"
    /\ \E n \in DOMAIN stored :
         /\ Verified(n)
         /\ task' = [task EXCEPT !["cli"] = [Idle EXCEPT !.at = "restore", !.group = "pre-restore",
                                                         !.source = n]]
    /\ UNCHANGED <<file, wal, truth, had, up, stored, manifests, recorded, named, backupCrashes>>

\* The backup is verified, and what it will replace is saved first.
RestoreBegins ==
    /\ up = {} /\ \A p \in Processes : Doing(p) = "idle"
    /\ \E n \in DOMAIN stored :
         /\ Verified(n)
         /\ Begun("cli", "pre-restore", n)
    /\ UNCHANGED <<file, wal, truth, had, up, stored, manifests, recorded, backupCrashes>>

\* sqlite3.connect makes an empty database of a file that is gone.
RestoreCopies ==
    /\ Doing("cli") = "restore"
    /\ task' = [task EXCEPT !["cli"].at = "unlink",
          !["cli"].copy = IF task["cli"].source \in DOMAIN stored
                            THEN stored[task["cli"].source] ELSE NoContent]
    /\ UNCHANGED <<file, wal, truth, had, up, stored, manifests, recorded, named, backupCrashes>>

RestoreUnlinks ==
    /\ Doing("cli") = "unlink"
    /\ wal' = NoContent
    /\ Step("cli", "replace")
    /\ UNCHANGED <<file, truth, had, up, stored, manifests, recorded, named, backupCrashes>>

RestoreReplaces ==
    /\ Doing("cli") = "replace"
    /\ file' = task["cli"].copy /\ truth' = file'
    /\ End("cli")
    /\ UNCHANGED <<wal, had, up, stored, manifests, recorded, named, backupCrashes>>

RestoreFails ==
    /\ Doing("cli") \in {"restore", "unlink"}
    /\ End("cli")
    /\ UNCHANGED <<file, wal, truth, had, up, stored, manifests, recorded, named, backupCrashes>>

\* A process is killed: it leaves the log as it is, and a migration is undone.
BackupCrash(p) ==
    /\ Connected(p) /\ backupCrashes < MaxBackupCrashes
    /\ backupCrashes' = backupCrashes + 1
    /\ End(p) /\ up' = up \ {p}
    /\ UNCHANGED <<file, wal, truth, had, stored, manifests, recorded, named>>

BackupNext ==
    \/ Commit \/ Checkpoint \/ ScheduledBackup
    \/ \E p \in Services : ServiceStops(p) \/ Initialize(p)
    \/ \E p \in Processes :
         \/ ManualBackup(p) \/ BackupCopies(p) \/ BackupNamed(p) \/ BackupRecorded(p) \/ BackupFails(p)
         \/ Migrates(p) \/ PruneLists(p) \/ PruneUnlinks(p) \/ PruneForgets(p) \/ BackupCrash(p)
    \/ RestoreBegins \/ RestoreCopies \/ RestoreUnlinks \/ RestoreReplaces \/ RestoreFails

BackupSpec == BackupInit /\ [][BackupNext]_backupVars

-----------------------------------------------------------------------------
(* A restore, wherever it stops, leaves the database as it was or as the     *)
(* backup: what SQLite reads is what was committed last, never the file      *)
(* without its log or a log over another file.  And what it is about to      *)
(* replace can be got back from a listed backup.                             *)
RestoreIsSafe ==
    /\ Shown = truth
    /\ Doing("cli") \in {"restore", "unlink", "replace"} =>
         \E n \in Listed : stored[n] = truth

LeastKeep(group) == IF group = "scheduled" /\ KeepScheduled < DefaultKeep THEN KeepScheduled ELSE DefaultKeep

(* Every file under a backup name is a state the database was really in, and *)
(* its manifest tells so.  Whatever two processes prune at once, the newest  *)
(* backups of each kind stay, however many were made.                        *)
BackupsAreTrue ==
    /\ \A n \in DOMAIN stored : stored[n] \in had
    /\ \A n \in Listed : manifests[n].content = stored[n]
    /\ \A n \in DOMAIN recorded :
         Cardinality({m \in DOMAIN recorded : m > n /\ recorded[m] = recorded[n]})
             < LeastKeep(recorded[n]) => n \in Listed

(* The backups can be relied on: a restore is safe and there is something to *)
(* restore, in every order of commits, migrations, backups, prunings and     *)
(* crashes (db_backup.py, Database.backup, cli restore).                     *)
BackupsHold == RestoreIsSafe /\ BackupsAreTrue
=============================================================================
