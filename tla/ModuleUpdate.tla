---------------------------- MODULE ModuleUpdate ----------------------------
(***************************************************************************)
(* The transaction that replaces installed modules (core/update.cpp): the  *)
(* staged job, its journal, the modules and the installed baseline, and    *)
(* every durable write of apply, commit and rollback as a step of its own. *)
(* A module's content is the number of the release it last changed in; 0   *)
(* means that there is no such file.  Every write is a rename followed by  *)
(* a sync of the directory, so a step is on disk or did not happen.        *)
(***************************************************************************)
EXTENDS Integers, FiniteSets

CONSTANTS
    Modules,    \* the files an update may replace
    Launcher,   \* the one that is the supervisor's own executable
    NoModule,
    Newest,     \* bound: releases published
    Build,      \* Build[r][f]: the content of module f in release r
    Jobs,       \* bound: update jobs
    NoJob,
    HandEdit,   \* content of a module replaced by hand
    MaxDisturbances \* bound: operations that fail, and what is done to the launcher from outside

Releases == 1 .. Newest
Contents == 0 .. Newest \cup {HandEdit}

ASSUME ModuleUpdateAssumption ==
    /\ Launcher \in Modules /\ NoModule \notin Modules /\ NoJob \notin Jobs
    /\ Newest \in Nat \ {0} /\ HandEdit \in Int \ (0 .. Newest)
    /\ Build \in [Releases -> [Modules -> 0 .. Newest]]
    /\ \A r \in Releases, f \in Modules :
        /\ Build[r][f] <= r
        /\ \A q \in Releases : Build[r][f] <= q /\ q <= r => Build[q][f] = Build[r][f]
    /\ MaxDisturbances \in Nat

VARIABLES
    installed,  \* the module files
    metadata,   \* postplus-update.json: the installed release, 0 when absent
    journal,    \* .updates/<job>/job.json
    handoff,    \* .updates/relaunch.json: the job whose launcher is to be verified
    published,  \* the newest release
    staging,    \* the job the download thread works on; it holds the lease
    call,       \* the operation in progress in the launcher; it holds the lease
    disturbances

diskVars == <<installed, metadata, journal, handoff>>
updateVars == <<installed, metadata, journal, handoff, published, staging, call, disturbances>>

States == {"none", "staging", "staged", "cancelled", "applying", "installed", "complete",
           "rolled_back", "failed"}
Entries == [state : States, version : 0 .. Newest, files : SUBSET Modules, old : [Modules -> Contents],
            applied : SUBSET Modules, oldMetadata : 0 .. Newest, metadataApplied : BOOLEAN,
            booted : BOOLEAN]
NoEntry == [state |-> "none", version |-> 0, files |-> {}, old |-> [f \in Modules |-> 0],
            applied |-> {}, oldMetadata |-> 0, metadataApplied |-> FALSE, booted |-> FALSE]

(* "ok" and "failed" are the answers the caller has not looked at yet. *)
Steps == {"idle", "apply", "replace", "write", "roll", "restore", "baseline", "mark", "remark",
          "ok", "failed"}
Idle == [fn |-> "idle", job |-> NoJob, file |-> NoModule, then |-> "ok", marks |-> {}]

UpdateTypeOK ==
    /\ installed \in [Modules -> Contents]
    /\ metadata \in 0 .. Newest /\ published \in Releases
    /\ journal \in [Jobs -> Entries]
    /\ handoff \in Jobs \cup {NoJob} /\ staging \in Jobs \cup {NoJob}
    /\ call \in [fn : Steps, job : Jobs \cup {NoJob}, file : Modules \cup {NoModule},
                 then : {"ok", "failed", "remark"}, marks : SUBSET Modules]
    /\ disturbances \in 0 .. MaxDisturbances

UpdateInit ==
    /\ installed = Build[1] /\ metadata = 0 /\ published = 1
    /\ journal = [j \in Jobs |-> NoEntry]
    /\ handoff = NoJob /\ staging = NoJob /\ call = Idle
    /\ disturbances = 0

-----------------------------------------------------------------------------
New(j, f) == Build[journal[j].version][f]

(* The version the updater compares with: the baseline's, or that of the running code. *)
installed_version(running) == IF metadata > running THEN metadata ELSE running

HasLauncher(j) == Launcher \in journal[j].files

save_job(j, entry) == journal' = [journal EXCEPT ![j] = entry]
State(j, state) == save_job(j, [journal[j] EXCEPT !.state = state])

Answer(fn) == call' = [call EXCEPT !.fn = fn]
Disturbed == disturbances < MaxDisturbances /\ disturbances' = disturbances + 1
Fault == Disturbed

Publish ==
    /\ published < Newest
    /\ published' = published + 1
    /\ UNCHANGED <<installed, metadata, journal, handoff, staging, call, disturbances>>

(* Somebody replaces a module without the updater. *)
EditModule(f) ==
    /\ Disturbed
    /\ installed' = [installed EXCEPT ![f] = HandEdit]
    /\ UNCHANGED <<metadata, journal, handoff, published, staging, call>>

-----------------------------------------------------------------------------
(* stage_update, in the download thread *)

StageBegin(j, version) ==
    /\ staging' = j
    /\ save_job(j, [NoEntry EXCEPT !.state = "staging", !.version = version])

(* The release that is newest now must be the one reviewed, and newer than what is installed. *)
Acceptable(j, running) ==
    /\ journal[j].version = published
    /\ published > installed_version(running)
    /\ \A f \in Modules : installed[f] # 0 => New(j, f) # 0

StageVerified(running) ==
    /\ staging # NoJob /\ Acceptable(staging, running)
    /\ save_job(staging, [journal[staging] EXCEPT
           !.state = "staged", !.files = {f \in Modules : New(staging, f) # installed[f]},
           !.old = installed])
    /\ staging' = NoJob
    /\ UNCHANGED <<installed, metadata, handoff, published, call, disturbances>>

StageFails(running) ==
    /\ staging # NoJob
    /\ \/ ~Acceptable(staging, running) /\ UNCHANGED disturbances
       \/ Fault
    /\ State(staging, "failed")
    /\ staging' = NoJob
    /\ UNCHANGED <<installed, metadata, handoff, published, call>>

(* A shutdown waits for the thread, which then stops at its next check. *)
StageCancelled ==
    /\ staging # NoJob
    /\ State(staging, "cancelled")
    /\ staging' = NoJob

-----------------------------------------------------------------------------
(* Operations of the launcher begin with these, and take the lease. *)

Begin(fn, j, then) == call' = [Idle EXCEPT !.fn = fn, !.job = j, !.then = then]

Lease == staging = NoJob

(* apply_staged_update: all files are checked before the first is touched. *)
Unchanged(j) == \A f \in journal[j].files : installed[f] = journal[j].old[f]

ApplyAnswered ==
    /\ call.fn = "apply"
    /\ journal[call.job].state \in {"complete", "installed"} /\ Lease
    /\ Answer("ok")
    /\ UNCHANGED <<diskVars, published, staging, disturbances>>

ApplyRefused ==
    /\ call.fn = "apply"
    /\ \/ /\ Lease /\ journal[call.job].state = "staged" /\ ~Unchanged(call.job)
          /\ State(call.job, "failed")
       \/ /\ ~Lease \/ journal[call.job].state \notin {"staged", "complete", "installed"}
          /\ UNCHANGED journal
    /\ Answer("failed")
    /\ UNCHANGED <<installed, metadata, handoff, published, staging, disturbances>>

ApplyChecked ==
    /\ call.fn = "apply" /\ Lease
    /\ journal[call.job].state = "staged" /\ Unchanged(call.job)
    /\ save_job(call.job, [journal[call.job] EXCEPT
           !.state = "applying", !.oldMetadata = metadata, !.metadataApplied = FALSE])
    /\ Answer("replace")
    /\ UNCHANGED <<installed, metadata, handoff, published, staging, disturbances>>

(* Mutant: the module is replaced first and journalled afterwards. *)
Unjournalled(j, f) == UNCHANGED journal

JournalFirst(j, f) ==
    save_job(j, [journal[j] EXCEPT !.applied = @ \cup {f}])

(* The module is journalled as applied before it is replaced. *)
JournalModule ==
    /\ call.fn = "replace"
    /\ \E f \in journal[call.job].files \ journal[call.job].applied :
        /\ JournalFirst(call.job, f)
        /\ call' = [call EXCEPT !.fn = "write", !.file = f]
    /\ UNCHANGED <<installed, metadata, handoff, published, staging, disturbances>>

WriteModule ==
    /\ call.fn = "write"
    /\ installed' = [installed EXCEPT ![call.file] = New(call.job, call.file)]
    /\ call' = [call EXCEPT !.fn = "replace", !.file = NoModule]
    /\ UNCHANGED <<metadata, journal, handoff, published, staging, disturbances>>

WriteFails ==
    /\ call.fn = "write"
    /\ Fault
    /\ call' = [call EXCEPT !.fn = "roll", !.file = NoModule, !.then = "failed",
                           !.marks = journal[call.job].applied]
    /\ UNCHANGED <<diskVars, published, staging>>

AllReplaced ==
    /\ call.fn = "replace" /\ journal[call.job].files \subseteq journal[call.job].applied
    /\ State(call.job, "installed")
    /\ Answer("ok")
    /\ UNCHANGED <<installed, metadata, handoff, published, staging, disturbances>>

-----------------------------------------------------------------------------
(* rollback: the baseline first, then every module journalled as applied. *)

RollMetadata ==
    /\ call.fn = "roll" /\ journal[call.job].metadataApplied
    /\ IF metadata = journal[call.job].oldMetadata
       THEN /\ save_job(call.job, [journal[call.job] EXCEPT !.metadataApplied = FALSE])
            /\ UNCHANGED metadata
       ELSE metadata' = journal[call.job].oldMetadata /\ UNCHANGED journal
    /\ UNCHANGED <<installed, handoff, published, staging, call, disturbances>>

(* Mutant: whatever is there is replaced by the backup. *)
AnyContent(j, f) == TRUE

(* What the rollback may replace: the old content, the new one, or no file. *)
Restorable(j, f) == installed[f] \in {journal[j].old[f], New(j, f), 0}

RollModule ==
    /\ call.fn = "roll" /\ ~journal[call.job].metadataApplied
    /\ \E f \in journal[call.job].applied :
        /\ Restorable(call.job, f)
        /\ installed' = [installed EXCEPT ![f] = journal[call.job].old[f]]
        /\ call' = [call EXCEPT !.fn = "restore", !.file = f]
    /\ UNCHANGED <<metadata, journal, handoff, published, staging, disturbances>>

JournalRestored ==
    /\ call.fn = "restore"
    /\ save_job(call.job, [journal[call.job] EXCEPT !.applied = @ \ {call.file}])
    /\ call' = [call EXCEPT !.fn = "roll", !.file = NoModule]
    /\ UNCHANGED <<installed, metadata, handoff, published, staging, disturbances>>

(* A module that was replaced by hand, or a write that fails, ends it: apply
   and recovery then journal the failure, a rollback of its own does not.
   Apply saves the job as it knew it: with every module it had marked.       *)
RollFails ==
    /\ call.fn = "roll"
    /\ \/ /\ ~journal[call.job].metadataApplied
          /\ \E f \in journal[call.job].applied : ~Restorable(call.job, f)
          /\ UNCHANGED disturbances
       \/ Fault
    /\ IF call.then = "ok" THEN UNCHANGED journal
       ELSE save_job(call.job, [journal[call.job] EXCEPT
                !.state = "failed", !.applied = @ \cup call.marks])
    /\ Answer("failed")
    /\ UNCHANGED <<installed, metadata, handoff, published, staging>>

RolledBack ==
    /\ call.fn = "roll"
    /\ ~journal[call.job].metadataApplied /\ journal[call.job].applied = {}
    /\ State(call.job, "rolled_back")
    /\ Answer(call.then)
    /\ UNCHANGED <<installed, metadata, handoff, published, staging, disturbances>>

(* Mutant: a job that was journalled as failed is taken for undone. *)
UndoneWhenFailed(j) ==
    IF journal[j].state \in {"rolled_back", "failed"} THEN call' = [Idle EXCEPT !.fn = "ok", !.job = j]
    ELSE Begin("roll", j, "ok")

(* rollback_staged_update *)
RollbackRequest(j) ==
    Begin(IF journal[j].state = "rolled_back" THEN "ok"
          ELSE IF ~Lease \/ journal[j].state = "complete" THEN "failed" ELSE "roll", j, "ok")

-----------------------------------------------------------------------------
(* commit_staged_update *)

AllNew(j) == \A f \in journal[j].files : installed[f] = New(j, f)

CommitRequest(j) ==
    CASE journal[j].state = "complete" -> call' = [Idle EXCEPT !.fn = "ok", !.job = j] /\ UNCHANGED journal
      [] Lease /\ journal[j].state = "installed" /\ AllNew(j) ->
            /\ save_job(j, [journal[j] EXCEPT !.metadataApplied = TRUE])
            /\ Begin("baseline", j, "ok")
      [] OTHER -> call' = [Idle EXCEPT !.fn = "failed", !.job = j] /\ UNCHANGED journal

WriteMetadata ==
    /\ call.fn = "baseline"
    /\ metadata' = journal[call.job].version
    /\ Answer("mark")
    /\ UNCHANGED <<installed, journal, handoff, published, staging, disturbances>>

MarkComplete ==
    /\ call.fn = "mark"
    /\ State(call.job, "complete")
    /\ Answer("ok")
    /\ UNCHANGED <<installed, metadata, handoff, published, staging, disturbances>>

CommitFails ==
    /\ call.fn \in {"baseline", "mark"}
    /\ Fault
    /\ Answer("failed")
    /\ UNCHANGED <<diskVars, published, staging>>

-----------------------------------------------------------------------------
(* Recovery before the services start *)

Unfinished(j) ==
    \/ journal[j].state \in {"applying", "installed"}
    \/ journal[j].state = "failed" /\ (journal[j].metadataApplied \/ journal[j].applied # {})

Interrupted(j) == j # handoff /\ Unfinished(j)

(* The restored job is journalled as failed once more. *)
RemarkFailed ==
    /\ call.fn = "remark"
    /\ State(call.job, "failed")
    /\ Answer("ok")
    /\ UNCHANGED <<installed, metadata, handoff, published, staging, disturbances>>

CountBoot(j) == save_job(j, [journal[j] EXCEPT !.booted = TRUE])

(* recover_launcher_update, before the launcher is executed: the new launcher
   is tried once.                                                            *)
TryOnce ==
    /\ handoff # NoJob /\ journal[handoff].state = "installed" /\ ~journal[handoff].booted
    /\ CountBoot(handoff)
    /\ UNCHANGED call
RestoreLauncher ==
    /\ handoff # NoJob /\ journal[handoff].state \notin {"complete", "rolled_back"}
    /\ journal[handoff].state = "installed" => journal[handoff].booted
    /\ Begin("roll", handoff, "ok")
    /\ UNCHANGED journal
NothingToRecover ==
    /\ handoff # NoJob => journal[handoff].state \in {"complete", "rolled_back"}
    /\ UNCHANGED <<journal, call>>

(* prepare_update_relaunch and finish_update_relaunch *)
Relaunchable(j) ==
    /\ HasLauncher(j) /\ journal[j].state \in {"staged", "installed"}
    /\ handoff \in {NoJob, j}
Finish(j) == handoff' = IF handoff = j THEN NoJob ELSE handoff

-----------------------------------------------------------------------------
(* The writes of the operation in progress. *)
CallStep ==
    \/ ApplyAnswered \/ ApplyRefused \/ ApplyChecked
    \/ JournalModule \/ WriteModule \/ WriteFails \/ AllReplaced
    \/ RollMetadata \/ RollModule \/ JournalRestored \/ RollFails \/ RolledBack
    \/ WriteMetadata \/ MarkComplete \/ CommitFails
    \/ RemarkFailed
=============================================================================
