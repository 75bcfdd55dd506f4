------------------------------- MODULE Backup -------------------------------
(* Backup and restore (backup.py) next to a system that lives on: a worker that
   embeds and publishes, scans and removals that change the archive, and a
   second system started from the restored tree.

   A file of a backup is a hard link to the live file when both are on one
   device. A file that is always replaced by a rename (artifacts, archive) keeps
   its old bytes in the backup; one that is written in place does not. *)
EXTENDS Checkpoints

CONSTANT Object   \* sources of other books in the archive

VARIABLES
    dest,        \* backup_root: on the device of the live tree or another, or not set
    worker,      \* "up" while a worker holds a client on the local Qdrant folder
    lockfile,    \* the folder's .lock exists: some client has opened it before
    revs,        \* source_revisions, by content
    objects,     \* the archive
    removed,     \* history: contents a removal has taken
    backup,      \* the backup under way or made
    restored     \* "none", "made", "booted"

maintenance == <<dest, worker, lockfile, revs, objects, removed, backup, restored>>
vars == <<checkpointVars, maintenance>>

NoBackup == [at |-> "none", quiet |-> TRUE, links |-> {}, changed |-> {},
             row |-> [i \in Index |-> None], revs |-> {}, objects |-> {},
             files |-> {}]

Init ==
    /\ CheckpointsInit
    /\ dest \in {"same device", "elsewhere", "not set"}
    /\ worker = "down" /\ lockfile \in BOOLEAN
    /\ revs = {} /\ objects = {} /\ removed = {}
    /\ backup = NoBackup
    /\ restored = "none"

OneDevice == dest = "same device"

(* What a write in place does to a backup that shares the file. *)
Touched(b, kinds) == [b EXCEPT !.changed = @ \union (kinds \intersect b.links)]

-----------------------------------------------------------------------------
(* The live system *)

(* A backup holds the lock only of a folder that has a lock file. *)
BackupHolds == backup.at \notin {"none", "made", "partial"} /\ backup.quiet

Start ==
    /\ worker = "down" /\ ~BackupHolds
    /\ worker' = "up" /\ lockfile' = TRUE
    /\ UNCHANGED <<checkpointVars, dest, revs, objects, removed, backup, restored>>

Stop ==
    /\ worker = "up"
    /\ \A w \in Thread : thread[w].at = "idle"
    /\ worker' = "down"
    /\ UNCHANGED <<checkpointVars, dest, lockfile, revs, objects, removed, backup, restored>>

(* The worker's steps write the database, and its publications the index, in
   place; every other file by a rename. *)
Works ==
    /\ worker = "up"
    /\ \/ (\E w \in Thread : Embeds(w) \/ LeaseLost(w)) \/ Publish \/ Rechunk
    /\ backup' = Touched(backup, (IF <<row, run>>' # <<row, run>> THEN {"state"} ELSE {})
                                 \union (IF served' # served THEN {"index"} ELSE {}))
    /\ UNCHANGED <<dest, worker, lockfile, revs, objects, removed, restored>>

Dies ==
    /\ worker = "up" /\ Crash
    /\ worker' = "down"
    /\ UNCHANGED <<dest, lockfile, revs, objects, removed, backup, restored>>

Decays == Damage /\ UNCHANGED maintenance

(* A scan puts the source into the archive, then registers it; a removal takes
   the rows, then the file. Neither opens the index or asks for a backup. *)
ArchiveSource(o) ==
    /\ Happens
    /\ o \notin objects
    /\ objects' = objects \union {o}
    /\ UNCHANGED <<run, disk, thread, past, dest, worker, lockfile, revs, removed, backup, restored>>

RegisterSource(o) ==
    /\ o \in objects \ revs /\ o \notin removed
    /\ revs' = revs \union {o}
    /\ backup' = Touched(backup, {"state"})
    /\ UNCHANGED <<checkpointVars, dest, worker, lockfile, objects, removed, restored>>

RemoveRows(o) ==
    /\ Happens
    /\ o \in revs
    /\ revs' = revs \ {o} /\ removed' = removed \union {o}
    /\ backup' = Touched(backup, {"state"})
    /\ UNCHANGED <<run, disk, thread, past, dest, worker, lockfile, objects, restored>>

UnlinkSource(o) ==
    /\ o \in removed \intersect objects
    /\ objects' = objects \ {o}
    /\ UNCHANGED <<checkpointVars, dest, worker, lockfile, revs, removed, backup, restored>>

-----------------------------------------------------------------------------
(* create_backup *)

InBackup(place, b) ==
    /\ dest # "not set" /\ backup.at = place
    /\ backup' = b
    /\ UNCHANGED <<checkpointVars, dest, worker, lockfile, revs, objects, removed, restored>>

SlipOrder == <<"index", "archive", "artifacts", "state", "manifest">>

(* What is copied after what: the database first, the manifest last. *)
Order == <<"state", "index", "archive", "artifacts", "manifest">>
After(place) == Order[1 + CHOOSE k \in DOMAIN Order : Order[k] = place]

(* acquire_qdrant_lock: refused while a client is open; without a lock file
   there is nothing to lock. *)
BackupBegin ==
    /\ ~(lockfile /\ worker = "up")
    /\ InBackup("none", [NoBackup EXCEPT !.at = Order[1], !.quiet = lockfile])

(* SQLite's own backup: one consistent state, in a file of its own. *)
SlipBackupState ==   \* the database file is linked like the others
    InBackup("state", [backup EXCEPT !.at = After(@), !.row = row, !.revs = revs,
                                     !.links = IF OneDevice THEN {"state"} ELSE {}])

BackupState ==
    InBackup("state", [backup EXCEPT !.at = After(@), !.row = row, !.revs = revs])

(* The Qdrant folder, in flux if a worker came up where there was no lock file. *)
BackupIndex ==
    InBackup("index", [backup EXCEPT
        !.at = After(@),
        !.links = IF OneDevice THEN @ \union {"index"} ELSE @,
        !.changed = IF worker = "up" THEN {"copied in flux"} ELSE {}])

BackupArchive ==
    InBackup("archive", [backup EXCEPT !.at = After(@), !.objects = objects])

BackupArtifacts ==
    InBackup("artifacts", [backup EXCEPT
        !.at = After(@),
        !.files = {i \in Index : bin[i] # None /\ side[i] # None}])

(* The redacted config and, last of all, the manifest. *)
BackupManifest ==
    InBackup("manifest", [backup EXCEPT
        !.at = "made",
        !.links = IF OneDevice THEN @ \union {"config"} ELSE @])

(* The process dies or a file cannot be copied: no manifest. *)
BackupBreaks ==
    /\ backup.at \notin {"none", "made", "partial"}
    /\ InBackup(backup.at, [backup EXCEPT !.at = "partial"])

BacksUp ==
    \/ BackupBegin \/ BackupState \/ BackupIndex \/ BackupArchive
    \/ BackupArtifacts \/ BackupManifest \/ BackupBreaks

-----------------------------------------------------------------------------
(* restore_backup and the system it makes *)

(* Every file of the manifest into a fresh directory, then the config rewritten
   where it now lies. The restored database and index are links to the backup's
   on one device. *)
Restore ==
    /\ backup.at = "made" /\ restored = "none"
    /\ restored' = "made"
    /\ backup' = Touched(backup, {"config"})
    /\ UNCHANGED <<checkpointVars, dest, worker, lockfile, revs, objects, removed>>

(* A worker on the restored tree opens its database and writes its index. *)
Boot ==
    /\ restored = "made"
    /\ restored' = "booted"
    /\ backup' = [backup EXCEPT !.changed = IF OneDevice THEN @ \union {"state", "index"} ELSE @]
    /\ UNCHANGED <<checkpointVars, dest, worker, lockfile, revs, objects, removed>>

-----------------------------------------------------------------------------
(* verify_system on a backup or the tree restored from it *)

ArchiveLinks(b) == b.revs \subseteq b.objects
ArtifactLinks(b) == {i \in Index : b.row[i] # None} \subseteq b.files

(* Every listed file has the size and hash of the manifest. A database that was
   opened since is in WAL mode and not hashed. *)
Checksums(b) == b.at = "made" /\ b.changed \intersect {"index", "config"} = {}

Next ==
    \/ Start \/ Stop \/ Works \/ Dies \/ Decays
    \/ \E o \in Object :
          ArchiveSource(o) \/ RegisterSource(o) \/ RemoveRows(o) \/ UnlinkSource(o)
    \/ BacksUp \/ Restore \/ Boot

Spec == Init /\ [][Next]_vars

-----------------------------------------------------------------------------
(* The backup names only objects and batches there are, and is restored whole. *)
TypeOK ==
    /\ CheckpointsTypeOK
    /\ worker \in {"up", "down"}
    /\ revs \union objects \union removed \union backup.objects \subseteq Object
    /\ backup.files \subseteq Index
    /\ restored # "none" => backup.at = "made"

(* What the snapshot of the database names is in the backup: the source of every
   revision and the files of every recorded batch, and the index was copied at
   rest. Excused: a removal that unlinks while the backup is under way, a file
   lost before, and a folder no client had opened when the backup began. *)
BackupIsWhole ==
    backup.at = "made" =>
        /\ ArchiveLinks(backup) \/ backup.revs \intersect removed # {}
        /\ ArtifactLinks(backup) \/ damaged
        /\ "copied in flux" \in backup.changed => ~backup.quiet

(* A backup that is complete stays as it was made, whatever the live and the
   restored system do: always on a device of its own; on the same device except
   for the three things that are written in place through the link. *)
BackupStands ==
    backup.at = "made" =>
        /\ ~OneDevice => Checksums(backup) /\ "state" \notin backup.changed
        /\ "index" \in backup.changed => restored = "booted" \/ served # <<>>
        /\ "state" \in backup.changed => restored = "booted"
        /\ "config" \in backup.changed => restored # "none"
=============================================================================
