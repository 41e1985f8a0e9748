----------------------------- MODULE Supervisor -----------------------------
(***************************************************************************)
(* The native launcher (tools/main.cpp) with its control directory and     *)
(* durable state (core/maintenance.cpp): start-up and recovery, the        *)
(* service group, restart jobs, module updates, and the administrators     *)
(* that request them.  The launcher may be killed between any two steps.   *)
(***************************************************************************)
EXTENDS ModuleUpdate, RestartPlan

CONSTANTS
    UsedBy,     \* UsedBy[f]: the services that run module f
    Broken,     \* contents of the launcher that may be impossible to execute
    Admins,     \* administration requests handled at a time
    Asked,      \* restart modes that are asked for
    Managed     \* BOOLEAN or a part of it: started by the service manager

ASSUME SupervisorAssumption ==
    /\ UsedBy \in [Modules -> SUBSET Group] /\ \A s \in Group : \E f \in Modules : s \in UsedBy[f]
    /\ Broken \subseteq 1 .. Newest
    /\ Asked \subseteq Modes
    /\ Managed \subseteq BOOLEAN /\ Managed # {}

VARIABLES
    (* on disk *)
    config,      \* the configuration file
    applied,     \* applied.json: the configuration the group runs
    restart,     \* latest.json: the restart job
    update,      \* update.json: the update job
    reservation, \* the directory that reserves maintenance
    (* in the launcher and its control directory *)
    managed,     \* POSTPLUS_SERVICE_MANAGER is systemd
    executed,    \* what the first execution of each of them showed
    sup,         \* where the launcher is
    self,        \* content of the launcher that runs
    active,      \* its configuration
    running,     \* the modules each running service was started from
    conf,        \* the configuration each service was started with
    previous,    \* conf before the restart in progress
    mailbox,     \* update.request and restart.request
    download,    \* the update being downloaded
    handlers,    \* requests in the administration service
    abandoned    \* history: a launcher update was reported as failed before its handoff was settled

superVars == <<config, applied, restart, update, reservation, managed, executed, sup, self,
               active, running, conf, previous, mailbox, download, handlers, abandoned>>
vars == <<updateVars, superVars>>

Phases == {"down", "pre", "pre_wait", "exec", "exec_wait", "recover", "recover_wait",
           "resume", "resume_wait", "start", "unwind_wait", "ready", "released", "ack", "ack_wait",
           "finish", "report", "serve", "u_stop", "u_prepare", "u_apply", "u_start", "u_commit", "u_undo",
           "u_restore", "r_stop", "r_start", "r_restore"}
Exits == {"none", "relaunch", "failed", "stopped"}
UpdateStates == {"idle", "pending_download", "downloading", "staged", "pending_apply", "applying",
                 "complete", "failed"}
NoRequest == [kind |-> "none", job |-> NoJob, version |-> 0, mode |-> "changed",
              config |-> [k \in Keys |-> 0]]
Requests == [kind : {"none", "stage", "apply", "restart"}, job : Jobs \cup {NoJob},
             version : 0 .. Newest, mode : Modes, config : Configs]
NotRunning == [f \in Modules |-> -1]
Signature(s) == [f \in Modules |-> IF s \in UsedBy[f] THEN installed[f] ELSE -1]

SupervisorTypeOK ==
    /\ UpdateTypeOK
    /\ config \in Configs /\ applied \in Configs \cup {<<>>} /\ active \in Configs
    /\ restart \in [state : {"idle", "pending", "running", "complete", "failed"},
                    config : Configs, manager : BOOLEAN]
    /\ update \in [job : Jobs \cup {NoJob}, state : UpdateStates]
    /\ reservation \in BOOLEAN /\ managed \in BOOLEAN /\ abandoned \in BOOLEAN /\ self \in Contents
    /\ executed \in [Broken -> {"never", "runs", "fails"}]
    /\ sup \in [phase : Phases, exit : Exits, todo : SUBSET Group, plan : SUBSET Group,
                job : Jobs \cup {NoJob}, target : Configs, ready : BOOLEAN]
    /\ running \in [Group -> [Modules -> Contents \cup {-1}]]
    /\ conf \in [Group -> Configs] /\ previous \in [Group -> Configs]
    /\ mailbox \in [update : Requests, restart : Requests]
    /\ download \in Jobs \cup {NoJob}
    /\ handlers \in [Admins -> [step : {"idle", "checked", "reserved"}, request : Requests]]

First == [k \in Keys |-> 0]
(* A restart job that is over; its configuration is of no more use. *)
Ended(state) == [state |-> state, config |-> First, manager |-> FALSE]

Down == [phase |-> "down", exit |-> "none", todo |-> {}, plan |-> {}, job |-> NoJob,
         target |-> First, ready |-> FALSE]
Nothing == [s \in Group |-> NotRunning]
NoMail == [update |-> NoRequest, restart |-> NoRequest]
NoHandler == [step |-> "idle", request |-> NoRequest]

Init ==
    /\ UpdateInit
    /\ config = First /\ applied = <<>> /\ active = First
    /\ restart = Ended("idle")
    /\ update = [job |-> NoJob, state |-> "idle"]
    /\ reservation = FALSE /\ managed \in Managed /\ abandoned = FALSE
    /\ executed = [c \in Broken |-> "never"]
    /\ sup = Down /\ self = 0
    /\ running = Nothing /\ conf = [s \in Group |-> First] /\ previous = conf
    /\ mailbox = NoMail /\ download = NoJob
    /\ handlers = [a \in Admins |-> NoHandler]

-----------------------------------------------------------------------------
durable == <<config, applied, restart, update, reservation>>
host == <<managed, executed, abandoned>>
inbox == <<mailbox, download, handlers>>
disk == <<installed, metadata, journal, handoff, published, staging>>

At(phase) == sup.phase = phase
Go(phase) == sup' = [sup EXCEPT !.phase = phase]
Done == call.fn \in {"ok", "failed"}

(* The launcher gets a signal, or is killed. *)
Interrupt == Disturbed

(* What a launcher that ends leaves of its memory and of its control directory. *)
Gone ==
    /\ running' = Nothing /\ conf' = [s \in Group |-> First] /\ previous' = conf'
    /\ mailbox' = NoMail /\ download' = NoJob /\ handlers' = [a \in Admins |-> NoHandler]
    /\ self' = 0 /\ active' = First

(* The end of run: exit 75, 76, 0 or 1.  Without a service manager the
   launcher executes itself again.                                          *)
Leave(exit) ==
    /\ Gone
    /\ sup' = [Down EXCEPT !.exit = exit,
                  !.phase = IF exit = "relaunch" /\ ~managed THEN "exec" ELSE "down"]

(* ~SupervisorControl before readiness: the restart job failed. *)
RestartAbandoned == restart.state \in {"pending", "running"}
Abandon ==
    /\ restart' = IF RestartAbandoned THEN Ended("failed") ELSE restart
    /\ reservation' = (reservation /\ ~RestartAbandoned)

LeaveUnready ==
    /\ Leave("failed") /\ Abandon
    /\ UNCHANGED <<config, applied, update, host>>
LeaveReady ==
    /\ Leave("failed")
    /\ UNCHANGED <<durable, host>>

(* ~CancelDownload: whatever ends the loop waits for the download. *)
EndDownload == IF staging # NoJob THEN StageCancelled ELSE UNCHANGED <<journal, staging>>

(* update_finished *)
UpdateFinished(j, state) ==
    /\ update' = [job |-> j, state |-> state]
    /\ reservation' = FALSE

SelectedFirst(s) ==
    LET rank(t) == CHOOSE i \in DOMAIN Services : Services[i] = t
    IN s \in sup.todo /\ \A t \in sup.todo : rank(s) <= rank(t)

(* start_service: one service, from the modules on disk. *)
StartService(s, with) ==
    /\ SelectedFirst(s)
    /\ running' = [running EXCEPT ![s] = Signature(s)]
    /\ conf' = [conf EXCEPT ![s] = with]
    /\ sup' = [sup EXCEPT !.todo = @ \ {s}]

(* stop_selected; requests die with the administration service. *)
StopServices(selected) ==
    /\ running' = [s \in Group |-> IF s \in selected THEN NotRunning ELSE running[s]]
    /\ handlers' = [a \in Admins |-> IF "admin" \in selected THEN NoHandler ELSE handlers[a]]

-----------------------------------------------------------------------------
(* Start-up *)

Boot ==
    /\ At("down")
    /\ sup' = [Down EXCEPT !.phase = IF managed THEN "pre" ELSE "exec"]
    /\ UNCHANGED <<updateVars, durable, host, self, active, running, conf, previous, inbox>>

(* The service manager runs the recovery helper first. *)
Pre ==
    /\ At("pre") /\ Lease
    /\ \/ TryOnce /\ Go("exec")
       \/ RestoreLauncher /\ Go("pre_wait")
       \/ NothingToRecover /\ Go("exec")
    /\ UNCHANGED <<installed, metadata, handoff, published, staging, disturbances,
                   durable, host, self, active, running, conf, previous, inbox>>

PreDone ==
    /\ At("pre_wait") /\ Done
    /\ call' = Idle
    /\ IF call.fn = "ok" THEN Go("exec") ELSE sup' = [Down EXCEPT !.exit = "failed"]
    /\ UNCHANGED <<disk, disturbances, durable, host, self, active, running, conf, previous, inbox>>

(* A module that cannot be executed fails whenever it is tried. *)
Execution(outcome) ==
    LET c == installed[Launcher] IN
    IF c \in Broken
    THEN executed[c] \in {"never", outcome} /\ executed' = [executed EXCEPT ![c] = outcome]
    ELSE outcome = "runs" /\ UNCHANGED executed

Exec ==
    /\ At("exec") /\ Execution("runs")
    /\ self' = installed[Launcher] /\ active' = config
    /\ sup' = [sup EXCEPT !.phase = "recover", !.exit = "none", !.job = handoff]
    /\ UNCHANGED <<updateVars, durable, managed, abandoned, running, conf, previous, inbox>>

(* The old executable is still running after a failed exec: it restores the modules. *)
ExecFails ==
    /\ At("exec") /\ Execution("fails")
    /\ IF ~managed /\ sup.exit = "relaunch" /\ handoff # NoJob
       THEN RollbackRequest(handoff) /\ Go("exec_wait")
       ELSE sup' = [Down EXCEPT !.exit = "failed"] /\ UNCHANGED call
    /\ UNCHANGED <<disk, disturbances, durable, managed, abandoned, self, active, running, conf, previous, inbox>>

ExecRestored ==
    /\ At("exec_wait") /\ Done
    /\ call' = Idle
    /\ sup' = IF call.fn = "ok" THEN [sup EXCEPT !.phase = "exec", !.exit = "none"]
              ELSE [Down EXCEPT !.exit = "failed"]
    /\ UNCHANGED <<disk, disturbances, durable, host, self, active, running, conf, previous, inbox>>

(* recover_interrupted_updates.  It would refuse to start with a launcher's job
   whose handoff is gone: LauncherCanStart.                                   *)
Recover ==
    /\ At("recover")
    /\ \E j \in Jobs : Interrupted(j) /\ ~HasLauncher(j) /\ Begin("roll", j, "remark")
    /\ Go("recover_wait")
    /\ UNCHANGED <<disk, disturbances, durable, host, self, active, running, conf, previous, inbox>>

RecoverDone ==
    /\ At("recover_wait") /\ Done
    /\ call' = Idle
    /\ IF call.fn = "ok"
       THEN /\ Go("recover") /\ UpdateFinished(call.job, "failed")
            /\ UNCHANGED <<config, applied, restart, host, self, active, running, conf, previous,
                           inbox>>
       ELSE LeaveUnready
    /\ UNCHANGED <<disk, disturbances>>

Recovered ==
    /\ At("recover")
    /\ \A j \in Jobs : ~Interrupted(j)
    /\ Go("resume")
    /\ UNCHANGED <<updateVars, durable, host, self, active, running, conf, previous, inbox>>

(* A handoff whose modules were not all installed is undone before any service starts. *)
Installable == journal[sup.job].state \in {"installed", "complete", "rolled_back"}
Resume ==
    /\ At("resume")
    /\ IF sup.job # NoJob /\ ~Installable
       THEN RollbackRequest(sup.job) /\ Go("resume_wait")
       ELSE sup' = [sup EXCEPT !.phase = "start", !.todo = Group] /\ UNCHANGED call
    /\ UNCHANGED <<disk, disturbances, durable, host, self, active, running, conf, previous, inbox>>

(* Both kinds of rollback before readiness end in a relaunch of the old launcher. *)
Unwound ==
    /\ sup.phase \in {"resume_wait", "unwind_wait"} /\ Done
    /\ call' = Idle
    /\ CASE call.fn = "ok" ->
            /\ sup' = [sup EXCEPT !.phase = "finish", !.exit = "relaunch"]
            /\ UNCHANGED <<durable, host, self, active, running, conf, previous, inbox>>
         [] call.fn = "failed" /\ sup.ready -> LeaveReady
         [] OTHER -> LeaveUnready
    /\ UNCHANGED <<disk, disturbances>>

StartNext ==
    /\ At("start")
    /\ \E s \in sup.todo : StartService(s, active)
    /\ UNCHANGED <<updateVars, durable, host, self, active, previous, inbox>>

(* What a failure before the commit does: the transaction is rolled back with its handoff. *)
StartupFails ==
    IF sup.job # NoJob /\ journal[sup.job].state # "complete"
    THEN /\ RollbackRequest(sup.job)
         /\ sup' = [sup EXCEPT !.phase = "unwind_wait", !.todo = {}]
         /\ StopServices(Group)
         /\ UNCHANGED <<durable, host, self, active, conf, previous, mailbox, download>>
    ELSE call' = Idle /\ IF sup.ready THEN LeaveReady ELSE LeaveUnready

StartFails ==
    /\ At("start") /\ sup.todo # {} /\ Fault
    /\ StartupFails
    /\ UNCHANGED disk

StartStopped ==
    /\ At("start") /\ Interrupt
    /\ Leave("stopped") /\ Abandon
    /\ UNCHANGED <<disk, call, config, applied, update, host>>

AllStarted ==
    /\ At("start") /\ sup.todo = {}
    /\ Go("ready")
    /\ UNCHANGED <<updateVars, durable, host, self, active, running, conf, previous, inbox>>

(* ready: what is left of an earlier launcher's jobs is settled.  First the
   running configuration and the restart job ...                             *)
Ready ==
    /\ At("ready")
    /\ applied' = active
    /\ restart' = IF ~RestartAbandoned THEN restart
                  ELSE Ended(IF restart.manager /\ restart.config = active THEN "complete" ELSE "failed")
    /\ Go("released")
    /\ UNCHANGED <<updateVars, config, update, reservation, host, self, active, running, conf,
                   previous, inbox>>

LauncherUpdate == update.job # NoJob /\ handoff # NoJob
StaleReservation == reservation /\ LauncherUpdate

(* ... then the reservation and the update job, unless a new launcher is being verified. *)
Released ==
    /\ At("released")
    /\ reservation' = StaleReservation
    /\ update' = IF update.state \in {"pending_download", "downloading", "pending_apply", "applying"}
                    /\ ~LauncherUpdate
                 THEN [update EXCEPT !.state = "failed"] ELSE update
    /\ sup' = [sup EXCEPT !.ready = TRUE, !.phase = IF sup.job # NoJob THEN "ack" ELSE "serve"]
    /\ UNCHANGED <<updateVars, config, applied, restart, host, self, active, running, conf,
                   previous, inbox>>

(* A restored launcher only reports; a new one is committed now. *)
Acknowledge ==
    /\ At("ack")
    /\ IF journal[sup.job].state = "rolled_back"
       THEN Go("finish") /\ UNCHANGED <<journal, call>>
       ELSE CommitRequest(sup.job) /\ Go("ack_wait")
    /\ UNCHANGED <<installed, metadata, handoff, published, staging, disturbances, durable, host,
                   self, active, running, conf, previous, inbox>>

Acknowledged ==
    /\ At("ack_wait") /\ Done
    /\ IF call.fn = "ok"
       THEN /\ Go("finish") /\ call' = Idle
            /\ UNCHANGED <<durable, host, self, active, running, conf, previous, inbox>>
       ELSE StartupFails
    /\ UNCHANGED <<disk, disturbances>>

FinishRelaunch ==
    /\ At("finish")
    /\ Finish(sup.job)
    /\ Go("report")
    /\ UNCHANGED <<installed, metadata, journal, published, staging, call, disturbances, durable,
                   host, self, active, running, conf, previous, inbox>>

(* The result of an update that was applied is what the journal says. *)
Report ==
    /\ At("report")
    /\ UpdateFinished(sup.job, IF journal[sup.job].state = "complete" THEN "complete" ELSE "failed")
    /\ IF sup.exit = "none"
       THEN /\ sup' = [Down EXCEPT !.phase = "serve", !.ready = TRUE]
            /\ UNCHANGED <<journal, staging, restart, self, active, running, conf, previous, inbox>>
       ELSE /\ Leave(sup.exit) /\ EndDownload
            /\ restart' = IF RestartAbandoned /\ ~sup.ready
                          THEN Ended("failed") ELSE restart
    /\ UNCHANGED <<installed, metadata, handoff, published, call, disturbances, config, applied, host>>

-----------------------------------------------------------------------------
(* Serving *)

Serving == At("serve")

ServiceDies ==
    /\ Serving /\ Fault
    /\ LeaveReady /\ EndDownload
    /\ UNCHANGED <<installed, metadata, handoff, published, call>>

(* A signal, or an administrator when nothing is reserved. *)
Shutdown ==
    /\ Serving
    /\ Leave("stopped") /\ EndDownload
    /\ UNCHANGED <<installed, metadata, handoff, published, call, disturbances, durable, host>>

DownloadEnds ==
    /\ Serving /\ download # NoJob /\ staging = NoJob
    /\ UpdateFinished(download, journal[download].state)
    /\ download' = NoJob
    /\ UNCHANGED <<updateVars, config, applied, restart, host, sup, self, active, running, conf,
                   previous, mailbox, handlers>>

(* The download begins; one that is still out is waited for, and its result never asked for. *)
TakeStage ==
    /\ Serving /\ mailbox.update.kind = "stage" /\ staging = NoJob
    /\ LET r == mailbox.update IN
        /\ download' = r.job
        /\ update' = [job |-> r.job, state |-> "downloading"]
        /\ StageBegin(r.job, r.version)
    /\ mailbox' = [mailbox EXCEPT !.update = NoRequest]
    /\ UNCHANGED <<installed, metadata, handoff, published, call, disturbances, config, applied, restart,
                   reservation, host, sup, self, active, running, conf, previous, handlers>>

Download ==
    /\ StageVerified(self) \/ StageFails(self)
    /\ UNCHANGED superVars

(* The services an update stops: those that run a changed module, all for the launcher. *)
UpdatePlan(j) ==
    IF HasLauncher(j) THEN Group ELSE UNION {UsedBy[f] : f \in journal[j].files}

TakeApply ==
    /\ Serving /\ mailbox.update.kind = "apply"
    /\ LET j == mailbox.update.job IN
        /\ update' = [job |-> j, state |-> "applying"]
        /\ sup' = [sup EXCEPT !.phase = "u_stop", !.job = j, !.plan = UpdatePlan(j)]
    /\ mailbox' = [mailbox EXCEPT !.update = NoRequest]
    /\ UNCHANGED <<updateVars, config, applied, restart, reservation, host, self, active, running,
                   conf, previous, download, handlers>>

(* The catch block of an update, once services were stopped. *)
FailUpdate ==
    IF journal[sup.job].state = "complete"
    THEN /\ Go("report") /\ call' = Idle
         /\ UNCHANGED <<running, handlers>>
    ELSE /\ RollbackRequest(sup.job)
         /\ sup' = [sup EXCEPT !.phase = "u_undo", !.todo = {}]
         /\ StopServices(sup.plan)

UStop ==
    /\ At("u_stop")
    /\ StopServices(sup.plan)
    /\ IF HasLauncher(sup.job)
       THEN Go("u_prepare") /\ UNCHANGED call
       ELSE Go("u_apply") /\ Begin("apply", sup.job, "ok")
    /\ UNCHANGED <<disk, disturbances, durable, host, self, active, conf, previous, mailbox, download>>

(* A service that had to be killed, or whose start failed, fails the update. *)
UFails ==
    /\ \/ At("u_stop")
       \/ At("u_start") /\ sup.todo # {}
    /\ Fault
    /\ FailUpdate
    /\ UNCHANGED <<disk, durable, host, self, active, conf, previous, mailbox, download>>

UPrepare ==
    /\ At("u_prepare")
    /\ IF Relaunchable(sup.job)
       THEN /\ handoff' = sup.job
            /\ Begin("apply", sup.job, "ok") /\ Go("u_apply")
            /\ UNCHANGED <<running, handlers>>
       ELSE FailUpdate /\ UNCHANGED handoff
    /\ UNCHANGED <<installed, metadata, journal, published, staging, disturbances, durable, host,
                   self, active, conf, previous, mailbox, download>>

UApplied ==
    /\ At("u_apply") /\ call.fn = "ok"
    /\ call' = Idle
    /\ IF HasLauncher(sup.job)
       THEN Leave("relaunch") /\ EndDownload
       ELSE /\ sup' = [sup EXCEPT !.phase = "u_start", !.todo = sup.plan]
            /\ UNCHANGED <<journal, staging, self, active, running, conf, previous, inbox>>
    /\ UNCHANGED <<installed, metadata, handoff, published, disturbances, durable, host>>

UNotApplied ==
    /\ sup.phase \in {"u_apply", "u_commit"} /\ call.fn = "failed"
    /\ FailUpdate
    /\ UNCHANGED <<disk, disturbances, durable, host, self, active, conf, previous, mailbox, download>>

(* Every service starts with the configuration it ran with before. *)
UStart ==
    /\ sup.phase \in {"u_start", "u_restore"}
    /\ \E s \in sup.todo : StartService(s, conf[s])
    /\ UNCHANGED <<updateVars, durable, host, self, active, previous, inbox>>

UCommit ==
    /\ At("u_start") /\ sup.todo = {}
    /\ CommitRequest(sup.job) /\ Go("u_commit")
    /\ UNCHANGED <<installed, metadata, handoff, published, staging, disturbances, durable, host,
                   self, active, running, conf, previous, inbox>>

UCommitted ==
    /\ At("u_commit") /\ call.fn = "ok"
    /\ call' = Idle /\ Go("report")
    /\ UNCHANGED <<disk, disturbances, durable, host, self, active, running, conf, previous, inbox>>

UUndone ==
    /\ At("u_undo") /\ call.fn = "ok"
    /\ call' = Idle /\ Finish(sup.job)
    /\ sup' = [sup EXCEPT !.phase = "u_restore", !.todo = IF sup.exit = "stopped" THEN {} ELSE sup.plan]
    /\ UNCHANGED <<installed, metadata, journal, published, staging, disturbances, durable, host,
                   self, active, running, conf, previous, inbox>>

(* Update and rollback failed: the whole group stops. *)
UAbandoned ==
    /\ \/ At("u_undo") /\ call.fn = "failed" /\ UNCHANGED disturbances
       \/ At("u_restore") /\ sup.todo # {} /\ Fault
    /\ call' = Idle
    /\ UpdateFinished(sup.job, "failed")
    /\ Leave("failed") /\ EndDownload
    /\ abandoned' = (abandoned \/ handoff # NoJob)
    /\ UNCHANGED <<installed, metadata, handoff, published, config, applied, restart, managed, executed>>

URestored ==
    /\ At("u_restore") /\ sup.todo = {}
    /\ Go("report")
    /\ UNCHANGED <<updateVars, durable, host, self, active, running, conf, previous, inbox>>

(* A signal while the services start: the update is undone and they stay down. *)
USignal ==
    /\ At("u_start") /\ sup.todo # {} /\ Interrupt
    /\ RollbackRequest(sup.job)
    /\ sup' = [sup EXCEPT !.phase = "u_undo", !.exit = "stopped"]
    /\ StopServices(sup.plan)
    /\ UNCHANGED <<disk, durable, host, self, active, conf, previous, mailbox, download>>

-----------------------------------------------------------------------------
(* Restart jobs *)

RestartFailed == restart' = Ended("failed") /\ reservation' = FALSE

(* A request that is not of the pending job is an error of the launcher's loop: the whole group stops. *)
RestartRefused ==
    /\ Serving /\ mailbox.restart.kind = "restart" /\ restart.state # "pending"
    /\ LeaveReady /\ EndDownload
    /\ UNCHANGED <<installed, metadata, handoff, published, call, disturbances>>

(* The file must still hold what was requested. *)
TakeRestart ==
    /\ Serving /\ mailbox.restart.kind = "restart" /\ restart.state = "pending"
    /\ LET r == mailbox.restart
           all == managed /\ r.mode = "all" IN
       IF config = r.config /\ PlanAllowed(active, r.config, r.mode)
       THEN /\ restart' = [restart EXCEPT !.state = "running", !.manager = all]
            /\ sup' = [sup EXCEPT !.phase = "r_stop", !.target = r.config,
                                  !.plan = restart_plan(active, r.config, r.mode)]
            /\ previous' = conf
            /\ UNCHANGED <<applied, reservation>>
       ELSE RestartFailed /\ applied' = active /\ UNCHANGED <<sup, previous>>
    /\ mailbox' = [mailbox EXCEPT !.restart = NoRequest]
    /\ UNCHANGED <<updateVars, config, update, host, self, active, running, conf, download,
                   handlers>>

RStop ==
    /\ At("r_stop")
    /\ IF restart.manager
       THEN Leave("relaunch") /\ EndDownload
       ELSE /\ StopServices(sup.plan)
            /\ sup' = [sup EXCEPT !.phase = "r_start", !.todo = sup.plan]
            /\ UNCHANGED <<journal, staging, self, active, conf, previous, mailbox, download>>
    /\ UNCHANGED <<installed, metadata, handoff, published, call, disturbances, durable, host>>

RStart ==
    /\ At("r_start")
    /\ \E s \in sup.todo : StartService(s, sup.target)
    /\ UNCHANGED <<updateVars, durable, host, self, active, previous, inbox>>

(* Mutant: only the service that failed goes back. *)
RestoreOne(s) == {s}

ToRestore(s) == sup.plan

(* A service had to be killed, or one does not start: the affected ones go back. *)
RFails ==
    /\ \/ At("r_stop")
       \/ At("r_start") /\ sup.todo # {}
    /\ Fault
    /\ \E s \in sup.plan :
        /\ At("r_stop") \/ SelectedFirst(s)
        /\ StopServices(ToRestore(s))
        /\ sup' = [sup EXCEPT !.phase = "r_restore", !.todo = ToRestore(s)]
    /\ UNCHANGED <<disk, call, durable, host, self, active, conf, previous, mailbox, download>>

RDone ==
    /\ At("r_start") /\ sup.todo = {}
    /\ active' = sup.target /\ applied' = sup.target
    /\ restart' = Ended("complete") /\ reservation' = FALSE
    /\ sup' = [Down EXCEPT !.phase = "serve", !.ready = TRUE]
    /\ previous' = [s \in Group |-> First]
    /\ UNCHANGED <<updateVars, config, update, host, self, running, conf, inbox>>

RRestore ==
    /\ At("r_restore")
    /\ \E s \in sup.todo : StartService(s, previous[s])
    /\ UNCHANGED <<updateVars, durable, host, self, active, previous, inbox>>

RRestored ==
    /\ At("r_restore") /\ sup.todo = {}
    /\ RestartFailed /\ applied' = active
    /\ sup' = [Down EXCEPT !.phase = "serve", !.ready = TRUE]
    /\ previous' = [s \in Group |-> First]
    /\ UNCHANGED <<updateVars, config, update, host, self, active, running, conf, inbox>>

(* Restart and rollback failed: the whole group stops. *)
RAbandoned ==
    /\ At("r_restore") /\ sup.todo # {} /\ Fault
    /\ RestartFailed /\ Leave("failed") /\ EndDownload
    /\ UNCHANGED <<installed, metadata, handoff, published, call, config, applied, update, host>>

RSignal ==
    /\ \/ At("r_stop")
       \/ At("r_start") /\ sup.todo # {}
    /\ Interrupt
    /\ RestartFailed /\ Leave("stopped") /\ EndDownload
    /\ UNCHANGED <<installed, metadata, handoff, published, call, config, applied, update, host>>

-----------------------------------------------------------------------------
(* The administrators: the handlers of the administration service *)

(* control_identity: the launcher is ready, and the service runs. *)
Reachable == sup.ready /\ running["admin"] # NotRunning

Ask(a, request) ==
    /\ handlers[a].step = "idle"
    /\ handlers' = [handlers EXCEPT ![a] = [step |-> "checked", request |-> request]]
    /\ UNCHANGED <<updateVars, durable, host, sup, self, active, running, conf, previous, mailbox,
                   download>>

(* Identifiers of jobs are random. *)
Unused == {j \in Jobs : journal[j].state = "none" /\ j \notin {update.job, mailbox.update.job}
                        /\ \A a \in Admins : handlers[a].request.job # j}

(* request_supervisor_update and request_supervisor_restart, up to the reservation *)
AskStage(a) ==
    /\ Reachable /\ Affected(applied, config) = {} /\ Unused # {}
    /\ Ask(a, [NoRequest EXCEPT !.kind = "stage", !.job = CHOOSE j \in Unused : TRUE,
                                !.version = published])

AskApply(a) ==
    /\ Reachable /\ Affected(applied, config) = {} /\ update.state = "staged"
    /\ Ask(a, [NoRequest EXCEPT !.kind = "apply", !.job = update.job])

AskRestart(a, mode) ==
    /\ Reachable /\ PlanAllowed(applied, config, mode)
    /\ Ask(a, [NoRequest EXCEPT !.kind = "restart", !.mode = mode, !.config = config])

(* Mutant: an administrator who saw the reservation free takes it. *)
Overlooked == TRUE

Free == ~reservation

Reserve(a) ==
    /\ handlers[a].step = "checked"
    /\ IF Free
       THEN handlers' = [handlers EXCEPT ![a].step = "reserved"] /\ reservation' = TRUE
       ELSE handlers' = [handlers EXCEPT ![a] = NoHandler] /\ UNCHANGED reservation
    /\ UNCHANGED <<updateVars, config, applied, restart, update, host, sup, self, active, running,
                   conf, previous, mailbox, download>>

Pending(r) == IF r.kind = "stage" THEN "pending_download" ELSE "pending_apply"

(* The status comes before the request. *)
Announced(r) ==
    CASE r.kind = "restart" ->
            restart' = [state |-> "pending", config |-> r.config, manager |-> FALSE] /\ UNCHANGED update
      [] OTHER -> update' = [job |-> r.job, state |-> Pending(r)] /\ UNCHANGED restart

Post(a) ==
    /\ handlers[a].step = "reserved"
    /\ LET r == handlers[a].request IN
        /\ Announced(r)
        /\ mailbox' = IF r.kind = "restart" THEN [mailbox EXCEPT !.restart = r]
                      ELSE [mailbox EXCEPT !.update = r]
    /\ handlers' = [handlers EXCEPT ![a] = NoHandler]
    /\ UNCHANGED <<updateVars, config, applied, reservation, host, sup, self, active, running, conf,
                   previous, download>>

(* The request cannot be written: the reservation goes; a restart job is
   journalled as failed, an update job stays as it was announced.            *)
PostFails(a) ==
    /\ handlers[a].step = "reserved" /\ Fault
    /\ IF handlers[a].request.kind = "restart"
       THEN \/ UNCHANGED <<restart, update>>
            \/ restart' = Ended("failed")
               /\ UNCHANGED update
       ELSE UNCHANGED <<restart, update>> \/ Announced(handlers[a].request)
    /\ reservation' = FALSE
    /\ handlers' = [handlers EXCEPT ![a] = NoHandler]
    /\ UNCHANGED <<disk, call, config, applied, host, sup, self, active, running, conf, previous,
                   mailbox, download>>

-----------------------------------------------------------------------------
(* The settings are saved, by an administrator or by hand. *)
SaveConfig(c) ==
    /\ c # config /\ Disturbed
    /\ config' = c
    /\ UNCHANGED <<disk, call, applied, restart, update, reservation, host, sup, self, active, running,
                   conf, previous, inbox>>

(* The launcher is killed, and its services with it. *)
Kill ==
    /\ ~At("down") /\ Interrupt
    /\ Gone /\ sup' = [Down EXCEPT !.exit = "failed"]
    /\ call' = Idle /\ staging' = NoJob
    /\ UNCHANGED <<diskVars, published, durable, host>>

Edit == \E f \in Modules : EditModule(f) /\ UNCHANGED superVars

Transact == CallStep /\ UNCHANGED superVars

StartUp ==
    \/ Pre \/ PreDone \/ Exec \/ ExecFails \/ ExecRestored \/ Recover
    \/ RecoverDone \/ Recovered \/ Resume \/ Unwound \/ StartNext \/ StartFails \/ AllStarted
    \/ Ready \/ Released \/ Acknowledge \/ Acknowledged \/ FinishRelaunch \/ Report

Updating ==
    \/ DownloadEnds \/ TakeStage \/ TakeApply \/ UStop \/ UFails \/ UPrepare \/ UApplied
    \/ UNotApplied \/ UStart \/ UCommit \/ UCommitted \/ UUndone \/ UAbandoned \/ URestored

Restarting ==
    \/ RestartRefused \/ TakeRestart \/ RStop \/ RStart \/ RFails \/ RDone \/ RRestore \/ RRestored \/ RAbandoned

Launching == StartUp \/ Updating \/ Restarting

Administer ==
    \E a \in Admins :
        \/ AskStage(a) \/ AskApply(a) \/ \E mode \in Asked : AskRestart(a, mode)
        \/ Reserve(a) \/ Post(a) \/ PostFails(a)

Disturb ==
    \/ Publish /\ UNCHANGED superVars
    \/ Edit \/ Kill \/ StartStopped \/ USignal \/ RSignal \/ ServiceDies \/ Shutdown
    \/ \E c \in Configs : SaveConfig(c)

Next == Boot \/ Launching \/ Transact \/ Download \/ Administer \/ Disturb

(* The launcher's loop and the writes it is in run, and so does the download;
   the service manager starts a launcher that failed or asked for it.         *)
AutoBoot == Boot /\ managed /\ sup.exit \in {"failed", "relaunch"}

Fairness ==
    /\ WF_vars(Launching) /\ WF_vars(Transact) /\ WF_vars(Download) /\ WF_vars(AutoBoot)
    /\ \A a \in Admins : WF_vars(Post(a))

Spec == Init /\ [][Next]_vars /\ Fairness

-----------------------------------------------------------------------------
(* Properties *)

ApplyPhases == {"u_stop", "u_prepare", "u_apply", "u_start", "u_commit", "u_undo", "u_restore"}
RestartPhases == {"r_stop", "r_start", "r_restore"}

(* Maintenance is exclusive: of the requests that hold the reservation, the
   requests in the mailbox, the download and the job in progress there is at
   most one, and while there is one the reservation stands, so that no
   administrator can begin another (request_supervisor_update,
   request_supervisor_restart, SupervisorControl::ready).  The exception is a
   launcher update whose own rollback failed: it is reported, and the
   reservation released, a second time when its handoff is settled, and a
   request of that moment loses the reservation.                             *)
InProgress ==
    {<<"handler", a>> : a \in {b \in Admins : handlers[b].step = "reserved"}}
    \cup {<<"request", k>> : k \in {k \in {"update", "restart"} : mailbox[k].kind # "none"}}
    \cup {<<"download", j>> : j \in {download} \ {NoJob}}
    \cup {<<"job", p>> : p \in {sup.phase} \cap (ApplyPhases \cup RestartPhases)}

OneMaintenanceJob ==
    ~abandoned => Cardinality(InProgress) <= 1 /\ (InProgress # {} => reservation)

(* A launcher's job that is neither complete nor undone keeps its handoff, so
   the recovery at start-up always knows what to do with it and the launcher
   can start (recover_interrupted_updates refuses, at every start, a launcher's
   job without one; finish_update_relaunch removes it).                      *)
LauncherCanStart == \A j \in Jobs : Unfinished(j) /\ HasLauncher(j) => handoff = j

(* An update was committed on top of a newer one.  Whoever asks to apply a job
   looks at the reported job first and reserves later: another job may have been
   downloaded and applied in between (request_supervisor_update,
   apply_staged_update, which compares only the files the job replaces).     *)
Superseded ==
    \E j \in Jobs : journal[j].state = "complete" /\ journal[j].version < journal[j].oldMetadata

(* While the group serves, every service that runs was started from the
   modules that are installed, the launcher is the one installed, and the modules
   are one release: the one the baseline names, whatever was interrupted, failed
   or rolled back before (recover_interrupted_updates, recover_launcher_update,
   apply_staged_update).  Modules replaced by hand are exempt, and so is what
   follows an update that went back.                                         *)
Release == IF metadata = 0 THEN 1 ELSE metadata
ServedByOneRelease ==
    At("serve") =>
        /\ Superseded \/ \A f \in Modules : installed[f] \in {Build[Release][f], HandEdit}
        /\ installed[Launcher] \in {self, HandEdit}
        /\ \A s \in Group : running[s] # NotRunning =>
            \A f \in Modules : s \in UsedBy[f] => installed[f] \in {running[s][f], HandEdit}

(* While the group serves, a running service uses, of every setting it reads,
   the value of the applied configuration, which is the one the launcher
   reports to administrators (restart_plan, restart_failed).                 *)
RunningUsesApplied ==
    At("serve") => \A s \in Group :
        running[s] # NotRunning => \A k \in Reads(s) \cap Keys : conf[s][k] = applied[k]

(* The configuration that the download thread reads does not change under it:
   no restart job runs beside a download (with the exception above).         *)
DownloadReadsOneConfig ==
    [][download # NoJob /\ ~abandoned => active' = active \/ self' = 0]_vars

(* A rollback never overwrites a module that was replaced by hand; only
   writing the new content in apply may, when the edit comes after its check. *)
HandEditsSurviveRollback ==
    [][\A f \in Modules : (installed[f] = HandEdit /\ installed'[f] # HandEdit) => call.fn = "write"]_vars
=============================================================================
