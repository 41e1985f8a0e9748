------------------------------- MODULE Backup -------------------------------
(***************************************************************************)
(* A backup of a running server (BackupManager, snapshot): both databases   *)
(* are pinned while their writers are locked out, then copied at leisure    *)
(* next to ordinary writes; the configuration must be the same before and   *)
(* after.  Contents are versions: every commit or edit makes a new one.     *)
(***************************************************************************)
EXTENDS Naturals, FiniteSets

CONSTANTS
    MaxWrites,      \* bound: commits to the two databases
    MaxConfigChanges,       \* bound: changes of the configuration
    MaxBackups         \* bound: backups

ASSUME BackupAssumption == {MaxWrites, MaxConfigChanges, MaxBackups} \subseteq Nat

VARIABLES
    bkVersion,      \* what "storage", "auth" and "config" contain now
    bkMoments,      \* every bkVersion there has been
    bkLocked,       \* databases whose writer lock the backup holds
    bkPinned,       \* database -> the version its read transaction sees
    bkCopy,         \* what the job's directory holds: copies and the archived configuration
    bkJob,          \* where the job is
    bkConfig,       \* the configuration it read first
    bkJobs,
    bkDownloads,    \* archives whose download is open
    bkStopping      \* the admin service is being shut down

bkVars == <<bkVersion, bkMoments, bkLocked, bkPinned, bkCopy, bkJob, bkConfig, bkJobs, bkDownloads, bkStopping>>

Databases == {"storage", "auth"}
Nothing == [x \in Databases |-> 0]
Copies == [storage : Nat, auth : Nat, config : Nat]
NoArchive == [storage |-> 0, auth |-> 0, config |-> 0]
RunningAt == {"reading", "lockStorage", "lockAuth", "pinStorage", "pinAuth", "release",
              "copyStorage", "copyAuth", "compare", "archive"}

BackupTypeOK ==
    /\ bkVersion \in Copies /\ bkMoments \subseteq Copies
    /\ bkLocked \subseteq Databases /\ bkPinned \in [Databases -> Nat]
    /\ bkCopy \in Copies /\ bkJob \in RunningAt \cup {"idle", "complete", "failed"}
    /\ bkConfig \in Nat /\ bkJobs \in 0..MaxBackups
    /\ bkDownloads \subseteq Copies /\ bkStopping \in BOOLEAN

BackupInit ==
    /\ bkVersion = [storage |-> 1, auth |-> 1, config |-> 1]
    /\ bkMoments = {bkVersion}
    /\ bkLocked = {} /\ bkPinned = Nothing /\ bkCopy = NoArchive /\ bkJob = "idle"
    /\ bkConfig = 0 /\ bkJobs = 0 /\ bkDownloads = {} /\ bkStopping = FALSE

Running == bkJob \in RunningAt

-----------------------------------------------------------------------------
(* External: a transaction of the authentication or the storage service; an   *)
(* operation that needs both (a new account, a deletion) commits them in turn. *)
Commit(database) ==
    /\ database \notin bkLocked
    /\ bkVersion.storage + bkVersion.auth - 2 < MaxWrites
    /\ bkVersion' = [bkVersion EXCEPT ![database] = @ + 1]
    /\ bkMoments' = bkMoments \cup {bkVersion'}
    /\ UNCHANGED <<bkLocked, bkPinned, bkCopy, bkJob, bkConfig, bkJobs, bkDownloads, bkStopping>>

EditConfiguration ==
    /\ bkVersion.config <= MaxConfigChanges
    /\ bkVersion' = [bkVersion EXCEPT !.config = @ + 1]
    /\ bkMoments' = bkMoments \cup {bkVersion'}
    /\ UNCHANGED <<bkLocked, bkPinned, bkCopy, bkJob, bkConfig, bkJobs, bkDownloads, bkStopping>>

-----------------------------------------------------------------------------
(* start: one backup at a time, and none while the last one is downloaded. *)
StartBackup ==
    /\ ~Running /\ bkDownloads = {} /\ bkJobs < MaxBackups /\ ~bkStopping
    /\ bkJob' = "reading" /\ bkJobs' = bkJobs + 1
    /\ bkCopy' = NoArchive
    /\ UNCHANGED <<bkVersion, bkMoments, bkLocked, bkPinned, bkConfig, bkDownloads, bkStopping>>

ReadConfiguration ==
    /\ bkJob = "reading"
    /\ bkConfig' = bkVersion.config
    /\ bkJob' = "lockStorage"
    /\ UNCHANGED <<bkVersion, bkMoments, bkLocked, bkPinned, bkCopy, bkJobs, bkDownloads, bkStopping>>

(* BEGIN IMMEDIATE: no transaction of the service is open, none can begin. *)
Lock(at, database, next) ==
    /\ bkJob = at
    /\ bkLocked' = bkLocked \cup {database}
    /\ bkJob' = next
    /\ UNCHANGED <<bkVersion, bkMoments, bkPinned, bkCopy, bkConfig, bkJobs, bkDownloads, bkStopping>>

(* A read transaction sees the database as it is when it first reads. *)
Pin(at, database, next) ==
    /\ bkJob = at
    /\ bkPinned' = [bkPinned EXCEPT ![database] = bkVersion[database]]
    /\ bkJob' = next
    /\ UNCHANGED <<bkVersion, bkMoments, bkLocked, bkCopy, bkConfig, bkJobs, bkDownloads, bkStopping>>

Release ==
    /\ bkJob = "release"
    /\ bkLocked' = {}
    /\ bkJob' = "copyStorage"
    /\ UNCHANGED <<bkVersion, bkMoments, bkPinned, bkCopy, bkConfig, bkJobs, bkDownloads, bkStopping>>

copy_database(at, database, next) ==
    /\ bkJob = at
    /\ bkCopy' = [bkCopy EXCEPT ![database] = bkPinned[database]]
    /\ bkJob' = next
    /\ UNCHANGED <<bkVersion, bkMoments, bkLocked, bkPinned, bkConfig, bkJobs, bkDownloads, bkStopping>>

(* Mutant: the configuration is not compared. *)
AssumeConfiguration ==
    /\ bkJob = "compare"
    /\ bkJob' = "archive"
    /\ UNCHANGED <<bkVersion, bkMoments, bkLocked, bkPinned, bkCopy, bkConfig, bkJobs, bkDownloads, bkStopping>>

CompareConfiguration ==
    /\ bkJob = "compare" /\ bkVersion.config = bkConfig
    /\ bkJob' = "archive"
    /\ UNCHANGED <<bkVersion, bkMoments, bkLocked, bkPinned, bkCopy, bkConfig, bkJobs, bkDownloads, bkStopping>>

Archive ==
    /\ bkJob = "archive"
    /\ bkCopy' = [bkCopy EXCEPT !.config = bkConfig]
    /\ bkPinned' = Nothing
    /\ bkJob' = "complete"
    /\ UNCHANGED <<bkVersion, bkMoments, bkLocked, bkConfig, bkJobs, bkDownloads, bkStopping>>

(* A busy database, a full disk, a changed configuration or a shutdown: the  *)
(* transactions end and the job's directory is removed.                     *)
Fail ==
    /\ Running
    /\ bkLocked' = {} /\ bkPinned' = Nothing /\ bkCopy' = NoArchive
    /\ bkJob' = "failed"
    /\ UNCHANGED <<bkVersion, bkMoments, bkConfig, bkJobs, bkDownloads, bkStopping>>

(* download: the open file outlives the directory. *)
OpenDownload ==
    /\ bkJob = "complete" /\ ~bkStopping
    /\ bkDownloads' = bkDownloads \cup {bkCopy}
    /\ UNCHANGED <<bkVersion, bkMoments, bkLocked, bkPinned, bkCopy, bkJob, bkConfig, bkJobs, bkStopping>>

EndDownload ==
    /\ \E archive \in bkDownloads : bkDownloads' = bkDownloads \ {archive}
    /\ UNCHANGED <<bkVersion, bkMoments, bkLocked, bkPinned, bkCopy, bkJob, bkConfig, bkJobs, bkStopping>>

(* ~Impl: cancel, wait for the worker, remove the directory. *)
Shutdown ==
    /\ ~bkStopping
    /\ bkStopping' = TRUE
    /\ UNCHANGED <<bkVersion, bkMoments, bkLocked, bkPinned, bkCopy, bkJob, bkConfig, bkJobs, bkDownloads>>

RemoveBackup ==
    /\ bkStopping /\ ~Running /\ bkJob # "idle"
    /\ bkCopy' = NoArchive /\ bkJob' = "idle"
    /\ UNCHANGED <<bkVersion, bkMoments, bkLocked, bkPinned, bkConfig, bkJobs, bkDownloads, bkStopping>>

BackupNext ==
    \/ Commit("storage") \/ Commit("auth") \/ EditConfiguration
    \/ StartBackup \/ ReadConfiguration
    \/ Lock("lockStorage", "storage", "lockAuth") \/ Lock("lockAuth", "auth", "pinStorage")
    \/ Pin("pinStorage", "storage", "pinAuth") \/ Pin("pinAuth", "auth", "release")
    \/ Release
    \/ copy_database("copyStorage", "storage", "copyAuth") \/ copy_database("copyAuth", "auth", "compare")
    \/ CompareConfiguration \/ Archive \/ Fail
    \/ OpenDownload \/ EndDownload \/ Shutdown \/ RemoveBackup

BackupSpec == BackupInit /\ [][BackupNext]_bkVars

-----------------------------------------------------------------------------
(* Every archive that is offered or downloaded holds the two databases as   *)
(* they were together at one instant, and the configuration of that instant: *)
(* snapshot, however long the copy took and whatever was written meanwhile.  *)
BackupIsOneInstant ==
    \A archive \in bkDownloads \cup (IF bkJob = "complete" THEN {bkCopy} ELSE {}) :
        archive \in bkMoments
=============================================================================
