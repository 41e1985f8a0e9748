-------------------------- MODULE SupervisorProofs --------------------------
(***************************************************************************)
(* Proofs about Supervisor, for any modules, releases, services, settings,  *)
(* update jobs and administrators: maintenance is exclusive, a launcher can *)
(* always start, services run with the applied configuration, a download    *)
(* reads one configuration, and a rollback spares modules replaced by hand. *)
(***************************************************************************)
EXTENDS Supervisor, FiniteSetTheorems, TLAPS

-----------------------------------------------------------------------------
(* The inductive invariant.  A launcher that starts finds on disk what an
   earlier one left: the parts say which of the jobs can be half done then, which
   job the call, the handoff and the requests are about, who holds the
   reservation, and which configuration each service was started with.      *)

Started == {"recover", "recover_wait", "resume", "resume_wait", "start", "unwind_wait", "ready",
            "released", "ack", "ack_wait", "finish"}
AfterReady == {"ack", "ack_wait", "serve"} \cup ApplyPhases \cup RestartPhases
Serviced == AfterReady \cup {"finish", "report", "unwind_wait"}
WaitPhases == {"pre_wait", "exec_wait", "recover_wait", "resume_wait", "unwind_wait", "ack_wait",
               "u_apply", "u_commit", "u_undo"}
BeforeRecovery == {"down", "pre", "pre_wait", "exec", "exec_wait", "recover", "recover_wait"}
Rolling == {"roll", "restore", "ok", "failed"}

(* A job whose staging is over, so that what it replaces is fixed, and which
   the download thread has let go.                                           *)
Past(j) == j \in Jobs /\ journal[j].state \notin {"none", "staging"}
Settled(j) == Past(j) /\ j # download

(* A job of which nothing is known yet but that it was asked for. *)
Announceable(r) == r.job \in Jobs /\ journal[r.job].state = "none" /\ r.version \in Releases

(* The download thread has a job to itself; whatever else is worked on was staged. *)
JobsAreKnown ==
    /\ \A j \in Jobs : journal[j].state # "none" => journal[j].version \in Releases
    /\ staging # NoJob =>
        /\ staging = download /\ journal[staging].state = "staging"
        /\ journal[staging].applied = {} /\ ~journal[staging].metadataApplied
    /\ download # NoJob =>
        /\ sup.ready
        /\ staging = download \/ journal[download].state \in {"staged", "failed"}
    /\ \A j \in {sup.job, handoff, call.job} : j # NoJob => Settled(j)
    /\ update.state = "staged" => Settled(update.job)
    /\ update.job = NoJob => handoff = NoJob /\ sup.phase \notin ApplyPhases

RequestsAreKnown ==
    /\ \A a \in Admins :
        LET r == handlers[a].request IN
        /\ IF handlers[a].step = "idle" THEN handlers[a] = NoHandler ELSE r.kind # "none"
        /\ r.kind = "apply" => Settled(r.job)
        /\ r.kind = "stage" =>
            /\ Announceable(r) /\ r.job # mailbox.update.job
            /\ \A b \in Admins : b # a => handlers[b].request.job # r.job
    /\ mailbox.update.kind # "restart" /\ mailbox.restart.kind \in {"none", "restart"}
    /\ mailbox.update.kind = "apply" => Settled(mailbox.update.job)
    /\ mailbox.update.kind = "stage" => Announceable(mailbox.update)

(* What holds in which phase. *)
PhasesFit ==
    /\ sup.ready => sup.phase \in Serviced
    /\ sup.phase \in AfterReady => sup.ready
    /\ ~sup.ready => handlers = [a \in Admins |-> NoHandler] /\ mailbox = NoMail
    /\ sup.phase \in Started => sup.job = handoff /\ download = NoJob
    /\ sup.phase \in ApplyPhases \cup {"resume_wait", "unwind_wait", "ack", "ack_wait", "finish", "report"}
       => sup.job # NoJob
    /\ sup.phase \in {"serve", "report", "u_stop", "u_prepare", "u_start", "u_commit", "u_restore"} \cup RestartPhases
       => handoff = NoJob
    /\ sup.phase \in {"u_apply", "u_undo"} => handoff \in {NoJob, sup.job}
    /\ sup.phase \in RestartPhases \cup {"serve"} => sup.job = NoJob
    /\ sup.phase \in {"finish", "u_restore", "report"} => journal[sup.job].state \in {"rolled_back", "complete"}
    /\ handoff # NoJob => HasLauncher(handoff)
    /\ sup.phase = "recover_wait" => handoff = NoJob

(* The operation in progress is that of the phase. *)
CallFits ==
    /\ IF sup.phase \in WaitPhases THEN call.fn # "idle" /\ call.job \in Jobs
                                   ELSE call.fn = "idle" /\ call.job = NoJob
    /\ sup.phase \in {"pre_wait", "exec_wait"} =>
        call.job = handoff /\ call.fn \in Rolling /\ call.then = "ok"
    /\ sup.phase = "recover_wait" =>
        call.fn \in Rolling \cup {"remark"} /\ call.then = "remark" /\ ~HasLauncher(call.job)
    /\ sup.phase \in {"resume_wait", "unwind_wait", "u_undo"} =>
        /\ call.job = sup.job /\ call.fn \in Rolling /\ call.then = "ok"
        /\ call.fn = "ok" => journal[sup.job].state = "rolled_back"
    /\ sup.phase \in {"ack_wait", "u_commit"} =>
        /\ call.job = sup.job /\ call.fn \in {"baseline", "mark", "ok", "failed"}
        /\ call.fn = "ok" => journal[sup.job].state = "complete"
    /\ sup.phase = "u_apply" =>
        /\ call.job = sup.job /\ call.fn \in {"apply", "replace", "write"} \cup Rolling
        /\ call.fn \in {"roll", "restore"} => call.then = "failed"
        /\ HasLauncher(sup.job) => handoff = sup.job
        /\ handoff = sup.job => journal[sup.job].state # "complete"

(* Only the job in progress, or that of the handoff, is half done. *)
OneUnfinished ==
    /\ sup.phase \notin BeforeRecovery => \A j \in Jobs : Unfinished(j) => j \in {sup.job, handoff}
    /\ handoff # NoJob => \A j \in Jobs : Unfinished(j) => j = handoff

(* Whoever holds the reservation is alone. *)
Working == sup.phase \in ApplyPhases \cup RestartPhases
Reserved(a) == handlers[a].step = "reserved"

OneHolder ==
    /\ \A a \in Admins : Reserved(a) =>
        /\ \A b \in Admins : Reserved(b) => a = b
        /\ mailbox = NoMail /\ download = NoJob /\ ~Working /\ reservation
    /\ mailbox.update = NoRequest \/ mailbox.restart = NoRequest
    /\ mailbox # NoMail => download = NoJob /\ ~Working /\ reservation
    /\ download # NoJob => ~Working /\ reservation
    /\ Working => reservation
    /\ sup.phase \in {"ack", "ack_wait", "unwind_wait", "finish", "report"}
       => mailbox = NoMail /\ download = NoJob /\ \A a \in Admins : ~Reserved(a)
    /\ sup.ready /\ sup.phase = "report" => reservation
    /\ handoff # NoJob => reservation /\ ~RestartAbandoned
    /\ RestartAbandoned =>
        \/ ~sup.ready /\ sup.phase \notin {"released", "report", "finish", "unwind_wait"}
        \/ sup.phase = "serve" /\ mailbox.restart.kind = "restart"
        \/ sup.phase \in RestartPhases

MaintenanceFits == ~abandoned => OneHolder

(* A service runs with what is applied, as far as the restart plan knows what it reads. *)
Unplanned == {<<"storage", "ports/auth">>, <<"smtp", "mail_hostname">>}
Used(s) == {k \in Reads(s) \cap Keys : <<s, k>> \notin Unplanned}
Uses(c, s, d) == \A k \in Used(s) : c[s][k] = d[k]

ConfigsFit ==
    /\ sup.ready \/ sup.phase = "released" => applied = active
    /\ (sup.ready /\ sup.phase \notin RestartPhases) \/ sup.phase \in {"ready", "released"}
       => \A s \in Group : Uses(conf, s, active)
    /\ sup.phase \in {"finish", "report"} => sup.ready \/ sup.exit # "none"
    /\ sup.phase = "start" => \A s \in Group \ sup.todo : conf[s] = active
    /\ sup.phase \in RestartPhases =>
        /\ \A s \in Group : Uses(previous, s, active)
        /\ \A s \in Group \ sup.plan :
            /\ conf[s] = previous[s]
            /\ \A k \in Used(s) : active[k] = sup.target[k]
    /\ sup.phase \in {"r_start", "r_restore"} => sup.todo \subseteq sup.plan
    /\ sup.phase = "r_start" => \A s \in sup.plan \ sup.todo : conf[s] = sup.target
    /\ sup.phase = "r_restore" => \A s \in sup.plan \ sup.todo : conf[s] = previous[s]

SupervisorInvariant ==
    /\ SupervisorTypeOK
    /\ JobsAreKnown /\ RequestsAreKnown /\ PhasesFit /\ CallFits /\ OneUnfinished /\ LauncherCanStart
    /\ MaintenanceFits /\ ConfigsFit

-----------------------------------------------------------------------------
(* Values and their types *)

SupRecords == [phase : Phases, exit : Exits, todo : SUBSET Group, plan : SUBSET Group,
               job : Jobs \cup {NoJob}, target : Configs, ready : BOOLEAN]
CallRecords == [fn : Steps, job : Jobs \cup {NoJob}, file : Modules \cup {NoModule},
                then : {"ok", "failed", "remark"}, marks : SUBSET Modules]
HandlerRecords == [step : {"idle", "checked", "reserved"}, request : Requests]
NoHandlers == [a \in Admins |-> NoHandler]

LEMMA FirstIsConfig == First \in Configs
BY RestartPlanAssumption DEF First, Configs

LEMMA ConstantsAreTyped ==
    /\ Down \in SupRecords /\ Idle \in CallRecords
    /\ NoRequest \in Requests /\ NoHandlers \in [Admins -> HandlerRecords]
    /\ NoMail \in [update : Requests, restart : Requests]
<1>1. Down \in SupRecords
  BY FirstIsConfig DEF Down, SupRecords, Phases, Exits
<1>2. Idle \in CallRecords
  BY DEF Idle, CallRecords, Steps
<1>3. NoRequest.config \in Configs /\ 0 \in 0 .. Newest
  BY FirstIsConfig, ModuleUpdateAssumption DEF NoRequest, First
<1>4. NoRequest \in Requests
  BY <1>3 DEF NoRequest, Requests, Modes
<1> QED BY <1>1, <1>2, <1>4 DEF NoHandlers, NoHandler, HandlerRecords, NoMail

(* What a request to roll back, or to commit, answers at once or begins. *)
LEMMA RollbackBegins ==
    ASSUME NEW j \in Jobs, RollbackRequest(j)
    PROVE  /\ call' \in CallRecords /\ call'.job = j /\ call'.then = "ok"
           /\ call'.fn \in {"roll", "ok", "failed"}
           /\ call'.fn = "ok" => journal[j].state = "rolled_back"
BY ConstantsAreTyped DEF RollbackRequest, Begin, Idle, CallRecords, Steps

LEMMA CommitBegins ==
    ASSUME NEW j \in Jobs, CommitRequest(j), journal \in [Jobs -> Entries]
    PROVE  /\ call' \in CallRecords /\ call'.job = j
           /\ call'.fn \in {"baseline", "ok", "failed"}
           /\ call'.fn = "ok" => journal[j].state = "complete"
           /\ \/ journal' = journal
              \/ /\ journal[j].state = "installed"
                 /\ journal' = [journal EXCEPT ![j] = [journal[j] EXCEPT !.metadataApplied = TRUE]]
BY ConstantsAreTyped DEF CommitRequest, Begin, Idle, CallRecords, Steps, save_job

LEMMA BeginIsTyped ==
    ASSUME NEW fn \in Steps, NEW j \in Jobs, NEW then \in {"ok", "failed", "remark"}, Begin(fn, j, then)
    PROVE  call' \in CallRecords /\ call'.fn = fn /\ call'.job = j /\ call'.then = then
BY ConstantsAreTyped DEF Begin, Idle, CallRecords, Steps

(* The journal: entries keep their type, whatever field is saved. *)
LEMMA SavedEntry ==
    ASSUME journal \in [Jobs -> Entries], NEW j \in Jobs, NEW e \in Entries, save_job(j, e)
    PROVE  /\ journal' \in [Jobs -> Entries] /\ journal'[j] = e
           /\ \A i \in Jobs : i # j => journal'[i] = journal[i]
BY DEF save_job

LEMMA EntryFields ==
    ASSUME NEW e \in Entries, NEW state \in States, NEW applied1 \in SUBSET Modules, NEW flag \in BOOLEAN
    PROVE  /\ [e EXCEPT !.state = state] \in Entries
           /\ [e EXCEPT !.applied = applied1] \in Entries
           /\ [e EXCEPT !.metadataApplied = flag] \in Entries
           /\ [e EXCEPT !.booted = flag] \in Entries
           /\ [e EXCEPT !.state = state, !.applied = applied1] \in Entries
BY DEF Entries

-----------------------------------------------------------------------------
(* The type invariant *)

LEMMA StatesAreStrings ==
    {"staging", "staged", "cancelled", "applying", "installed", "complete", "rolled_back", "failed"} \subseteq States
BY DEF States

LEMMA DisturbedIsTyped ==
    ASSUME disturbances \in 0 .. MaxDisturbances, Disturbed
    PROVE  disturbances' \in 0 .. MaxDisturbances
BY ModuleUpdateAssumption DEF Disturbed

LEMMA NewIsContent ==
    ASSUME UpdateTypeOK, JobsAreKnown, NEW j \in Jobs, journal[j].state # "none", NEW f \in Modules
    PROVE  New(j, f) \in 0 .. Newest /\ New(j, f) \in Contents
<1>1. journal[j].version \in Releases
  BY DEF JobsAreKnown
<1>2. Build[journal[j].version] \in [Modules -> 0 .. Newest]
  BY <1>1, ModuleUpdateAssumption
<1> QED BY <1>2 DEF New, Contents

(* An operation in progress is about a job that was staged. *)
LEMMA CallHasJob ==
    ASSUME JobsAreKnown, CallFits, call.fn # "idle"
    PROVE  call.job \in Jobs /\ Settled(call.job) /\ journal[call.job].state \notin {"none", "staging"}
<1>1. call.job \in Jobs
  BY DEF CallFits
<1>2. Settled(call.job)
  BY <1>1, ModuleUpdateAssumption DEF JobsAreKnown
<1> QED BY <1>1, <1>2 DEF Settled, Past

LEMMA CallStepTypes ==
    ASSUME UpdateTypeOK, JobsAreKnown, CallFits, CallStep
    PROVE  UpdateTypeOK'
<1> DEFINE j == call.job
           e == journal[call.job]
<1>1. call \in CallRecords
  BY DEF UpdateTypeOK, CallRecords
<1>2. call.fn # "idle"
  BY DEF CallStep, ApplyAnswered, ApplyRefused, ApplyChecked, JournalModule, WriteModule, WriteFails,
     AllReplaced, RollMetadata, RollModule, JournalRestored, RollFails, RolledBack, WriteMetadata,
     MarkComplete, CommitFails, RemarkFailed
<1>3. j \in Jobs /\ e.state # "none" /\ e \in Entries
  BY <1>2, CallHasJob DEF UpdateTypeOK
<1>4. e.applied \subseteq Modules /\ e.oldMetadata \in 0 .. Newest /\ e.old \in [Modules -> Contents] /\ e.files \subseteq Modules
  BY <1>3 DEF Entries
<1>5. \A fn \in Steps : Answer(fn) => call' \in CallRecords
  BY <1>1 DEF Answer, CallRecords
<1>6. call' \in CallRecords
  <2>1. CASE JournalModule
    <3>1. PICK f \in e.files \ e.applied : call' = [call EXCEPT !.fn = "write", !.file = f]
      BY <2>1 DEF JournalModule
    <3> QED BY <3>1, <1>1, <1>4 DEF CallRecords, Steps
  <2>2. CASE RollModule
    <3>1. PICK f \in e.applied : call' = [call EXCEPT !.fn = "restore", !.file = f]
      BY <2>2 DEF RollModule
    <3> QED BY <3>1, <1>1, <1>4 DEF CallRecords, Steps
  <2>3. CASE WriteModule \/ JournalRestored
    BY <2>3, <1>1 DEF WriteModule, JournalRestored, CallRecords, Steps
  <2>4. CASE WriteFails
    BY <2>4, <1>1, <1>4 DEF WriteFails, CallRecords, Steps
  <2>5. CASE RolledBack
    BY <2>5, <1>1 DEF RolledBack, Answer, CallRecords, Steps
  <2>6. CASE RollMetadata
    BY <2>6, <1>1 DEF RollMetadata
  <2>7. CASE \/ ApplyAnswered \/ ApplyRefused \/ ApplyChecked \/ AllReplaced \/ RollFails \/ WriteMetadata
             \/ MarkComplete \/ CommitFails \/ RemarkFailed
    BY <2>7, <1>5 DEF Steps, ApplyAnswered, ApplyRefused, ApplyChecked, AllReplaced, RollFails, WriteMetadata,
       MarkComplete, CommitFails, RemarkFailed
  <2> QED BY <2>1, <2>2, <2>3, <2>4, <2>5, <2>6, <2>7 DEF CallStep
<1>7. disturbances' \in 0 .. MaxDisturbances /\ published' = published /\ handoff' = handoff /\ staging' = staging
  BY DisturbedIsTyped DEF UpdateTypeOK, CallStep, ApplyAnswered, ApplyRefused, ApplyChecked, JournalModule,
     WriteModule, WriteFails, AllReplaced, RollMetadata, RollModule, JournalRestored, RollFails, RolledBack,
     WriteMetadata, MarkComplete, CommitFails, RemarkFailed, Fault, diskVars
<1>8. installed' \in [Modules -> Contents]
  <2>1. CASE WriteModule
    <3>1. \A f \in Modules : New(j, f) \in Contents
      BY <1>3, NewIsContent
    <3> QED BY <2>1, <3>1 DEF WriteModule, UpdateTypeOK
  <2>2. CASE RollModule
    BY <2>2, <1>4 DEF RollModule, UpdateTypeOK
  <2>3. CASE ~(WriteModule \/ RollModule)
    BY <2>3 DEF UpdateTypeOK, CallStep, ApplyAnswered, ApplyRefused, ApplyChecked, JournalModule, WriteFails,
       AllReplaced, RollMetadata, JournalRestored, RollFails, RolledBack, WriteMetadata, MarkComplete,
       CommitFails, RemarkFailed, diskVars
  <2> QED BY <2>1, <2>2, <2>3
<1>9. metadata' \in 0 .. Newest
  <2>1. e.version \in 0 .. Newest
    BY <1>3 DEF Entries
  <2> QED BY <2>1, <1>4 DEF UpdateTypeOK, CallStep, ApplyAnswered, ApplyRefused, ApplyChecked, JournalModule,
       WriteModule, WriteFails, AllReplaced, RollMetadata, RollModule, JournalRestored, RollFails, RolledBack,
       WriteMetadata, MarkComplete, CommitFails, RemarkFailed, diskVars
<1>10. journal' \in [Jobs -> Entries]
  <2>1. \/ journal' = journal
        \/ \E entry \in Entries : save_job(j, entry)
    <3>1. CASE ApplyChecked
      <4>1. [e EXCEPT !.state = "applying", !.oldMetadata = metadata, !.metadataApplied = FALSE] \in Entries
        BY <1>3 DEF Entries, States, UpdateTypeOK
      <4> QED BY <3>1, <4>1 DEF ApplyChecked
    <3>2. CASE JournalModule
      <4>1. PICK f \in e.files \ e.applied : save_job(j, [e EXCEPT !.applied = @ \cup {f}])
        BY <3>2 DEF JournalModule, JournalFirst
      <4>2. [e EXCEPT !.applied = @ \cup {f}] \in Entries
        BY <1>3, <1>4 DEF Entries
      <4> QED BY <4>1, <4>2
    <3>3. CASE JournalRestored
      <4>1. [e EXCEPT !.applied = @ \ {call.file}] \in Entries
        BY <1>3, <1>4 DEF Entries
      <4> QED BY <3>3, <4>1 DEF JournalRestored
    <3>4. CASE RollFails
      <4>1. [e EXCEPT !.state = "failed", !.applied = @ \cup call.marks] \in Entries
        BY <1>1, <1>3, <1>4 DEF Entries, States, CallRecords
      <4> QED BY <3>4, <4>1 DEF RollFails
    <3>5. CASE RollMetadata
      BY <3>5, <1>3, EntryFields, StatesAreStrings DEF RollMetadata, Entries
    <3>6. \A state \in States : State(j, state) => \E entry \in Entries : save_job(j, entry)
      <4> SUFFICES ASSUME NEW state \in States, State(j, state) PROVE \E entry \in Entries : save_job(j, entry)
        OBVIOUS
      <4>1. [e EXCEPT !.state = state] \in Entries
        BY <1>3 DEF Entries
      <4> QED BY <4>1 DEF State
    <3>7. CASE ApplyRefused \/ AllReplaced \/ RolledBack \/ MarkComplete \/ RemarkFailed
      BY <3>6, <3>7, StatesAreStrings DEF ApplyRefused, AllReplaced, RolledBack, MarkComplete, RemarkFailed
    <3>8. CASE ApplyAnswered \/ WriteModule \/ WriteFails \/ RollModule \/ WriteMetadata \/ CommitFails
      BY <3>8 DEF ApplyAnswered, WriteModule, WriteFails, RollModule, WriteMetadata, CommitFails, diskVars
    <3> QED BY <3>1, <3>2, <3>3, <3>4, <3>5, <3>7, <3>8 DEF CallStep
  <2> QED BY <2>1, <1>3, SavedEntry DEF UpdateTypeOK
<1> QED BY <1>6, <1>7, <1>8, <1>9, <1>10 DEF UpdateTypeOK, CallRecords

LEMMA EndDownloadTypes ==
    ASSUME UpdateTypeOK, EndDownload
    PROVE  journal' \in [Jobs -> Entries] /\ staging' \in Jobs \cup {NoJob}
<1>1. CASE staging = NoJob
  BY <1>1 DEF EndDownload, UpdateTypeOK
<1>2. CASE staging # NoJob
  <2>1. staging \in Jobs /\ journal[staging] \in Entries
    BY <1>2 DEF UpdateTypeOK
  <2>2. [journal[staging] EXCEPT !.state = "cancelled"] \in Entries
    BY <2>1 DEF Entries, States
  <2> QED BY <1>2, <2>1, <2>2, SavedEntry DEF EndDownload, StageCancelled, State, UpdateTypeOK
<1> QED BY <1>1, <1>2

(* What a step does to the transaction's variables when it is not one of the writes in progress. *)
LEMMA StartUpUpdateTypes ==
    ASSUME SupervisorTypeOK, JobsAreKnown, PhasesFit, CallFits, StartUp
    PROVE  UpdateTypeOK'
<1> USE DEF disk
<1>1. UpdateTypeOK /\ call \in CallRecords /\ Idle \in CallRecords /\ sup \in SupRecords
  BY ConstantsAreTyped DEF SupervisorTypeOK, UpdateTypeOK, CallRecords, SupRecords
<1>2. sup.job \in Jobs \cup {NoJob} /\ handoff \in Jobs \cup {NoJob}
  BY <1>1 DEF SupRecords, UpdateTypeOK
<1>3. CASE Pre
  <2>1. CASE TryOnce
    <3>1. [journal[handoff] EXCEPT !.booted = TRUE] \in Entries
      BY <2>1, <1>1, <1>2 DEF TryOnce, Entries, UpdateTypeOK
    <3> QED BY <1>1, <1>2, <1>3, <2>1, <3>1, SavedEntry DEF Pre, TryOnce, CountBoot, UpdateTypeOK
  <2>2. CASE RestoreLauncher
    BY <1>1, <1>2, <1>3, <2>2, BeginIsTyped DEF Pre, RestoreLauncher, UpdateTypeOK, CallRecords, Steps
  <2>3. CASE NothingToRecover
    BY <1>1, <1>3, <2>3 DEF Pre, NothingToRecover, UpdateTypeOK
  <2> QED BY <1>3, <2>1, <2>2, <2>3 DEF Pre
<1>4. CASE \/ PreDone \/ ExecRestored \/ RecoverDone \/ Unwound
  BY <1>1, <1>4 DEF PreDone, ExecRestored, RecoverDone, Unwound, UpdateTypeOK, CallRecords
<1>5. CASE ExecFails
  BY <1>1, <1>2, <1>5, RollbackBegins DEF ExecFails, UpdateTypeOK, CallRecords
<1>6. CASE Recover
  BY <1>1, <1>6, BeginIsTyped DEF Recover, UpdateTypeOK, CallRecords, Steps
<1>7. CASE Resume
  BY <1>1, <1>2, <1>7, RollbackBegins DEF Resume, UpdateTypeOK, CallRecords
<1>8. CASE StartFails \/ Acknowledged
  <2>1. /\ UNCHANGED disk
        /\ disturbances' \in 0 .. MaxDisturbances
        /\ StartupFails \/ call' \in {Idle}
    BY <1>1, <1>8, DisturbedIsTyped DEF StartFails, Acknowledged, Fault, UpdateTypeOK
  <2>2. StartupFails => call' \in CallRecords
    BY <1>1, <1>2, RollbackBegins DEF StartupFails
  <2> QED BY <1>1, <2>1, <2>2 DEF UpdateTypeOK, CallRecords
<1>9. CASE Acknowledge
  <2>1. sup.job \in Jobs
    BY <1>2, <1>9 DEF PhasesFit, Acknowledge, At
  <2>2. CASE CommitRequest(sup.job)
    <3>1. journal \in [Jobs -> Entries]
      BY <1>1 DEF UpdateTypeOK
    <3>2. journal' \in [Jobs -> Entries]
      <4>1. [journal[sup.job] EXCEPT !.metadataApplied = TRUE] \in Entries
        BY <2>1, <3>1 DEF Entries
      <4> QED BY <2>1, <2>2, <3>1, <4>1, CommitBegins
    <3> QED BY <1>1, <1>9, <2>1, <2>2, <3>1, <3>2, CommitBegins DEF Acknowledge, UpdateTypeOK, CallRecords
  <2> QED BY <1>1, <1>9, <2>2 DEF Acknowledge, UpdateTypeOK
<1>10. CASE FinishRelaunch
  BY <1>1, <1>2, <1>10 DEF FinishRelaunch, Finish, UpdateTypeOK
<1>11. CASE Report
  BY <1>1, <1>11, EndDownloadTypes DEF Report, UpdateTypeOK
<1>12. CASE Exec \/ Recovered \/ StartNext \/ AllStarted \/ Ready \/ Released
  BY <1>1, <1>12 DEF Exec, Recovered, StartNext, AllStarted, Ready, Released, updateVars, UpdateTypeOK
<1> QED BY <1>3, <1>4, <1>5, <1>6, <1>7, <1>8, <1>9, <1>10, <1>11, <1>12 DEF StartUp

LEMMA StageTypes ==
    ASSUME UpdateTypeOK, StageVerified(self) \/ StageFails(self)
    PROVE  UpdateTypeOK'
<1>1. staging \in Jobs /\ journal[staging] \in Entries /\ journal \in [Jobs -> Entries]
  BY DEF StageVerified, StageFails, UpdateTypeOK
<1>2. CASE StageVerified(self)
  <2>1. [journal[staging] EXCEPT !.state = "staged", !.files = {f \in Modules : New(staging, f) # installed[f]},
                                 !.old = installed] \in Entries
    BY <1>1 DEF Entries, States, UpdateTypeOK
  <2> QED BY <1>1, <1>2, <2>1, SavedEntry DEF StageVerified, UpdateTypeOK
<1>3. CASE StageFails(self)
  <2>1. [journal[staging] EXCEPT !.state = "failed"] \in Entries
    BY <1>1 DEF Entries, States
  <2> QED BY <1>1, <1>3, <2>1, SavedEntry, DisturbedIsTyped DEF StageFails, State, Fault, UpdateTypeOK
<1> QED BY <1>2, <1>3

LEMMA UpdatingUpdateTypes ==
    ASSUME SupervisorTypeOK, JobsAreKnown, RequestsAreKnown, PhasesFit, CallFits, Updating
    PROVE  UpdateTypeOK'
<1> USE DEF disk
<1>1. UpdateTypeOK /\ call \in CallRecords /\ Idle \in CallRecords /\ sup \in SupRecords
  BY ConstantsAreTyped DEF SupervisorTypeOK, UpdateTypeOK, CallRecords, SupRecords
<1>2. sup.job \in Jobs \cup {NoJob} /\ handoff \in Jobs \cup {NoJob} /\ journal \in [Jobs -> Entries]
  BY <1>1 DEF SupRecords, UpdateTypeOK
<1>3. sup.phase \in ApplyPhases => sup.job \in Jobs
  BY <1>2 DEF PhasesFit
<1>4. FailUpdate /\ sup.phase \in ApplyPhases => call' \in CallRecords
  BY <1>1, <1>3, RollbackBegins DEF FailUpdate
<1>5. CASE TakeStage
  <2>1. mailbox.update.job \in Jobs /\ mailbox.update.version \in 0 .. Newest
    BY <1>5, ModuleUpdateAssumption DEF TakeStage, RequestsAreKnown, Announceable, Releases
  <2>2. [NoEntry EXCEPT !.state = "staging", !.version = mailbox.update.version] \in Entries
    <3>1. NoEntry \in Entries
      BY ModuleUpdateAssumption DEF NoEntry, Entries, States, Contents
    <3> QED BY <2>1, <3>1 DEF Entries, States
  <2> QED BY <1>1, <1>2, <1>5, <2>1, <2>2, SavedEntry DEF TakeStage, StageBegin, UpdateTypeOK
<1>6. CASE UStop
  BY <1>1, <1>3, <1>6, BeginIsTyped DEF UStop, At, ApplyPhases, UpdateTypeOK, CallRecords, Steps
<1>7. CASE UFails
  BY <1>1, <1>4, <1>7, DisturbedIsTyped DEF UFails, At, Fault, ApplyPhases, UpdateTypeOK, CallRecords
<1>8. CASE UPrepare
  <2>1. sup.job \in Jobs /\ (FailUpdate => call' \in CallRecords)
    BY <1>3, <1>4, <1>8 DEF UPrepare, At, ApplyPhases
  <2>2. call' \in CallRecords /\ handoff' \in Jobs \cup {NoJob}
    BY <1>2, <1>8, <2>1, BeginIsTyped DEF UPrepare, Steps
  <2> QED BY <1>1, <1>8, <2>2 DEF UPrepare, UpdateTypeOK, CallRecords
<1>9. CASE UApplied \/ UAbandoned
  <2>1. journal' \in [Jobs -> Entries] /\ staging' \in Jobs \cup {NoJob}
    BY <1>1, <1>9, EndDownloadTypes DEF UApplied, UAbandoned, UpdateTypeOK
  <2>2. disturbances' \in 0 .. MaxDisturbances
    BY <1>1, <1>9, DisturbedIsTyped DEF UApplied, UAbandoned, Fault, UpdateTypeOK
  <2> QED BY <1>1, <1>9, <2>1, <2>2 DEF UApplied, UAbandoned, UpdateTypeOK, CallRecords
<1>10. CASE UNotApplied
  BY <1>1, <1>4, <1>10 DEF UNotApplied, ApplyPhases, UpdateTypeOK, CallRecords
<1>11. CASE UCommit
  <2>1. sup.job \in Jobs
    BY <1>3, <1>11 DEF UCommit, At, ApplyPhases
  <2>2. journal' \in [Jobs -> Entries]
    <3>1. [journal[sup.job] EXCEPT !.metadataApplied = TRUE] \in Entries
      BY <1>2, <2>1 DEF Entries
    <3> QED BY <1>2, <1>11, <2>1, <3>1, CommitBegins DEF UCommit
  <2> QED BY <1>1, <1>2, <1>11, <2>1, <2>2, CommitBegins DEF UCommit, UpdateTypeOK, CallRecords
<1>12. CASE UCommitted \/ UUndone
  BY <1>1, <1>2, <1>12 DEF UCommitted, UUndone, Finish, UpdateTypeOK, CallRecords
<1>13. CASE DownloadEnds \/ TakeApply \/ UStart \/ URestored
  BY <1>1, <1>13 DEF DownloadEnds, TakeApply, UStart, URestored, updateVars, UpdateTypeOK
<1> QED BY <1>5, <1>6, <1>7, <1>8, <1>9, <1>10, <1>11, <1>12, <1>13 DEF Updating

LEMMA OtherUpdateTypes ==
    ASSUME SupervisorTypeOK, JobsAreKnown, PhasesFit, CallFits,
           Boot \/ Restarting \/ Administer \/ Disturb
    PROVE  UpdateTypeOK'
<1> USE DEF disk
<1>1. UpdateTypeOK /\ call \in CallRecords /\ Idle \in CallRecords /\ sup \in SupRecords
  BY ConstantsAreTyped DEF SupervisorTypeOK, UpdateTypeOK, CallRecords, SupRecords
<1>2. CASE Boot \/ TakeRestart \/ RStart \/ RDone \/ RRestore \/ RRestored
  BY <1>1, <1>2 DEF Boot, TakeRestart, RStart, RDone, RRestore, RRestored, updateVars, UpdateTypeOK
<1>3. CASE RStop \/ RAbandoned \/ RSignal \/ ServiceDies \/ RestartRefused \/ Shutdown
  <2>1. /\ UNCHANGED <<installed, metadata, handoff, published, call>>
        /\ EndDownload \/ UNCHANGED <<journal, staging>>
        /\ UNCHANGED disturbances \/ Disturbed
    BY <1>3 DEF RStop, RAbandoned, RSignal, ServiceDies, RestartRefused, Shutdown, Fault, Interrupt, LeaveReady
  <2>2. journal' \in [Jobs -> Entries] /\ staging' \in Jobs \cup {NoJob}
    BY <1>1, <2>1, EndDownloadTypes DEF UpdateTypeOK
  <2> QED BY <1>1, <2>1, <2>2, DisturbedIsTyped DEF UpdateTypeOK
<1>4. CASE RFails \/ StartStopped \/ \E c \in Configs : SaveConfig(c)
  BY <1>1, <1>4, DisturbedIsTyped DEF RFails, StartStopped, SaveConfig, Fault, Interrupt, UpdateTypeOK
<1>5. CASE Administer
  <2>1. PICK a \in Admins : \/ AskStage(a) \/ AskApply(a) \/ \E mode \in Asked : AskRestart(a, mode)
                            \/ Reserve(a) \/ Post(a) \/ PostFails(a)
    BY <1>5 DEF Administer
  <2>2. CASE PostFails(a)
    BY <1>1, <2>2, DisturbedIsTyped DEF PostFails, Fault, UpdateTypeOK
  <2> QED BY <1>1, <2>1, <2>2 DEF AskStage, AskApply, AskRestart, Ask, Reserve, Post, updateVars, UpdateTypeOK
<1>6. CASE USignal
  <2>1. sup.job \in Jobs
    BY <1>1, <1>6 DEF USignal, At, PhasesFit, ApplyPhases, SupRecords
  <2> QED BY <1>1, <1>6, <2>1, RollbackBegins, DisturbedIsTyped DEF USignal, Interrupt, UpdateTypeOK, CallRecords
<1>7. CASE Kill
  BY <1>1, <1>7, DisturbedIsTyped DEF Kill, Interrupt, diskVars, UpdateTypeOK, CallRecords
<1>8. CASE Publish
  BY <1>1, <1>8, ModuleUpdateAssumption DEF Publish, UpdateTypeOK, Releases
<1>9. CASE Edit
  <2>1. PICK f \in Modules : EditModule(f)
    BY <1>9 DEF Edit
  <2> QED BY <1>1, <2>1, DisturbedIsTyped DEF EditModule, UpdateTypeOK, Contents
<1> QED BY <1>2, <1>3, <1>4, <1>5, <1>6, <1>7, <1>8, <1>9 DEF Restarting, Disturb

(* The status files, and what the launcher knows of its own configuration. *)
StatusTypes ==
    /\ config \in Configs /\ applied \in Configs \cup {<<>>} /\ active \in Configs
    /\ restart \in [state : {"idle", "pending", "running", "complete", "failed"},
                    config : Configs, manager : BOOLEAN]
    /\ update \in [job : Jobs \cup {NoJob}, state : UpdateStates]
    /\ reservation \in BOOLEAN /\ managed \in BOOLEAN /\ abandoned \in BOOLEAN /\ self \in Contents
    /\ executed \in [Broken -> {"never", "runs", "fails"}]

GroupTypes ==
    /\ sup \in SupRecords
    /\ running \in [Group -> [Modules -> Contents \cup {-1}]]
    /\ conf \in [Group -> Configs] /\ previous \in [Group -> Configs]

InboxTypes ==
    /\ mailbox \in [update : Requests, restart : Requests]
    /\ download \in Jobs \cup {NoJob}
    /\ handlers \in [Admins -> HandlerRecords]

LEMMA TypesSplit == SupervisorTypeOK <=> UpdateTypeOK /\ StatusTypes /\ GroupTypes /\ InboxTypes
BY DEF SupervisorTypeOK, StatusTypes, GroupTypes, InboxTypes, SupRecords, HandlerRecords

LEMMA EndedIsTyped ==
    ASSUME NEW state \in {"idle", "pending", "running", "complete", "failed"}
    PROVE  Ended(state) \in [state : {"idle", "pending", "running", "complete", "failed"},
                             config : Configs, manager : BOOLEAN]
BY FirstIsConfig DEF Ended

LEMMA FinishedIsTyped ==
    ASSUME NEW j \in Jobs, NEW state \in UpdateStates, UpdateFinished(j, state)
    PROVE  update' \in [job : Jobs \cup {NoJob}, state : UpdateStates] /\ reservation' = FALSE
BY DEF UpdateFinished

LEMMA GoneTypes ==
    ASSUME Gone
    PROVE  /\ active' \in Configs /\ self' \in Contents
           /\ running' \in [Group -> [Modules -> Contents \cup {-1}]]
           /\ conf' \in [Group -> Configs] /\ previous' \in [Group -> Configs]
           /\ InboxTypes'
<1>1. 0 \in Contents
  BY ModuleUpdateAssumption DEF Contents
<1>2. InboxTypes'
  BY ConstantsAreTyped DEF Gone, InboxTypes, NoHandlers
<1> QED BY <1>1, <1>2, FirstIsConfig DEF Gone, Nothing, NotRunning

LEMMA AbandonTypes ==
    ASSUME StatusTypes, Abandon
    PROVE  /\ restart' \in [state : {"idle", "pending", "running", "complete", "failed"},
                            config : Configs, manager : BOOLEAN]
           /\ reservation' \in BOOLEAN
BY EndedIsTyped DEF Abandon, StatusTypes

LEMMA ExecutionTypes ==
    ASSUME StatusTypes, NEW outcome \in {"runs", "fails"}, Execution(outcome)
    PROVE  executed' \in [Broken -> {"never", "runs", "fails"}]
BY DEF Execution, StatusTypes

LEMMA StartUpStatusTypes ==
    ASSUME SupervisorTypeOK, PhasesFit, CallFits, StartUp
    PROVE  StatusTypes'
<1> USE DEF durable, host
<1>1. StatusTypes /\ UpdateTypeOK /\ sup \in SupRecords
  BY TypesSplit DEF GroupTypes
<1>2. CASE LeaveUnready
  BY <1>1, <1>2, GoneTypes, AbandonTypes DEF LeaveUnready, Leave, StatusTypes
<1>3. CASE LeaveReady
  BY <1>1, <1>3, GoneTypes DEF LeaveReady, Leave, StatusTypes
<1>4. CASE Pre \/ PreDone \/ ExecRestored \/ Recover \/ Recovered \/ Resume \/ StartNext \/ AllStarted
           \/ Acknowledge \/ FinishRelaunch
  BY <1>1, <1>4 DEF Pre, PreDone, ExecRestored, Recover, Recovered, Resume, StartNext, AllStarted,
     Acknowledge, FinishRelaunch, StatusTypes
<1>5. CASE Exec
  <2>1. installed[Launcher] \in Contents
    BY <1>1, ModuleUpdateAssumption DEF UpdateTypeOK
  <2> QED BY <1>1, <1>5, <2>1, ExecutionTypes DEF Exec, StatusTypes
<1>6. CASE ExecFails
  BY <1>1, <1>6, ExecutionTypes DEF ExecFails, StatusTypes
<1>7. CASE RecoverDone
  <2>1. call.job \in Jobs
    BY <1>7 DEF RecoverDone, At, CallFits, WaitPhases
  <2>2. CASE UpdateFinished(call.job, "failed")
    BY <1>1, <1>7, <2>1, <2>2, FinishedIsTyped, <1>2 DEF RecoverDone, StatusTypes, UpdateStates
  <2> QED BY <1>2, <1>7, <2>2 DEF RecoverDone
<1>8. CASE Unwound \/ StartFails \/ Acknowledged
  <2>1. LeaveUnready \/ LeaveReady \/ UNCHANGED <<durable, host, self, active>>
    BY <1>8 DEF Unwound, StartFails, Acknowledged, StartupFails
  <2> QED BY <1>1, <1>2, <1>3, <2>1 DEF StatusTypes
<1>9. CASE Ready
  BY <1>1, <1>9, EndedIsTyped DEF Ready, StatusTypes
<1>10. CASE Released
  <2>1. update' \in [job : Jobs \cup {NoJob}, state : UpdateStates]
    BY <1>1, <1>10 DEF Released, StatusTypes, UpdateStates
  <2>2. reservation' \in BOOLEAN
    BY <1>1, <1>10 DEF Released, StatusTypes, StaleReservation, LauncherUpdate
  <2> QED BY <1>1, <1>10, <2>1, <2>2 DEF Released, StatusTypes
<1>11. CASE Report
  <2>1. sup.job \in Jobs
    BY <1>1, <1>11 DEF Report, At, PhasesFit, SupRecords
  <2>2. update' \in [job : Jobs \cup {NoJob}, state : UpdateStates] /\ reservation' = FALSE
    BY <1>11, <2>1, FinishedIsTyped DEF Report, UpdateStates
  <2>3. restart' = restart \/ restart' = Ended("failed")
    BY <1>11 DEF Report
  <2>4. active' \in Configs /\ self' \in Contents
    BY <1>1, <1>11, GoneTypes DEF Report, Leave, StatusTypes
  <2> QED BY <1>1, <1>11, <2>2, <2>3, <2>4, EndedIsTyped DEF Report, StatusTypes
<1> QED BY <1>4, <1>5, <1>6, <1>7, <1>8, <1>9, <1>10, <1>11 DEF StartUp

LEMMA UpdatingStatusTypes ==
    ASSUME SupervisorTypeOK, JobsAreKnown, RequestsAreKnown, PhasesFit, Updating
    PROVE  StatusTypes'
<1> USE DEF durable, host
<1>1. StatusTypes /\ sup \in SupRecords /\ download \in Jobs \cup {NoJob}
  BY TypesSplit DEF GroupTypes, InboxTypes
<1>2. CASE DownloadEnds
  <2>1. download \in Jobs /\ journal[download].state \in UpdateStates
    BY <1>1, <1>2 DEF DownloadEnds, JobsAreKnown, UpdateStates
  <2> QED BY <1>1, <1>2, <2>1, FinishedIsTyped DEF DownloadEnds, StatusTypes
<1>3. CASE TakeStage
  <2>1. mailbox.update.job \in Jobs
    BY <1>3 DEF TakeStage, RequestsAreKnown, Announceable
  <2> QED BY <1>1, <1>3, <2>1 DEF TakeStage, StatusTypes, UpdateStates
<1>4. CASE TakeApply
  <2>1. mailbox.update.job \in Jobs
    BY <1>4 DEF TakeApply, RequestsAreKnown, Settled, Past
  <2> QED BY <1>1, <1>4, <2>1 DEF TakeApply, StatusTypes, UpdateStates
<1>5. CASE UApplied
  BY <1>1, <1>5, GoneTypes DEF UApplied, Leave, StatusTypes
<1>6. CASE UAbandoned
  <2>1. sup.job \in Jobs
    BY <1>1, <1>6 DEF UAbandoned, At, PhasesFit, ApplyPhases, SupRecords
  <2> QED BY <1>1, <1>6, <2>1, GoneTypes, FinishedIsTyped DEF UAbandoned, Leave, StatusTypes, UpdateStates
<1>7. CASE UStop \/ UFails \/ UPrepare \/ UNotApplied \/ UStart \/ UCommit \/ UCommitted \/ UUndone \/ URestored
  BY <1>1, <1>7 DEF UStop, UFails, UPrepare, UNotApplied, UStart, UCommit, UCommitted, UUndone, URestored, StatusTypes
<1> QED BY <1>2, <1>3, <1>4, <1>5, <1>6, <1>7 DEF Updating

LEMMA OtherStatusTypes ==
    ASSUME SupervisorTypeOK, RequestsAreKnown, Boot \/ Restarting \/ Administer \/ Disturb
    PROVE  StatusTypes'
<1> USE DEF durable, host
<1>1. StatusTypes /\ sup \in SupRecords /\ InboxTypes
  BY TypesSplit DEF GroupTypes
<1>2. CASE Boot \/ RStart \/ RFails \/ RRestore \/ USignal
  BY <1>1, <1>2 DEF Boot, RStart, RFails, RRestore, USignal, StatusTypes
<1>3. CASE TakeRestart
  <2>1. [restart EXCEPT !.state = "running", !.manager = managed /\ mailbox.restart.mode = "all"]
          \in [state : {"idle", "pending", "running", "complete", "failed"}, config : Configs, manager : BOOLEAN]
    BY <1>1 DEF StatusTypes
  <2> QED BY <1>1, <1>3, <2>1, EndedIsTyped DEF TakeRestart, RestartFailed, StatusTypes
<1>4. CASE RStop \/ Kill \/ ServiceDies \/ RestartRefused \/ Shutdown
  BY <1>1, <1>4, GoneTypes DEF RStop, Kill, ServiceDies, RestartRefused, Shutdown, LeaveReady, Leave, StatusTypes
<1>5. CASE RDone \/ RRestored
  BY <1>1, <1>5, EndedIsTyped DEF RDone, RRestored, RestartFailed, StatusTypes, SupRecords
<1>6. CASE RAbandoned \/ RSignal
  BY <1>1, <1>6, GoneTypes, EndedIsTyped DEF RAbandoned, RSignal, RestartFailed, Leave, StatusTypes
<1>7. CASE StartStopped
  BY <1>1, <1>7, GoneTypes, AbandonTypes DEF StartStopped, Leave, StatusTypes
<1>8. CASE Administer
  <2>1. PICK a \in Admins : \/ AskStage(a) \/ AskApply(a) \/ \E mode \in Asked : AskRestart(a, mode)
                            \/ Reserve(a) \/ Post(a) \/ PostFails(a)
    BY <1>8 DEF Administer
  <2>2. CASE \/ AskStage(a) \/ AskApply(a) \/ \E mode \in Asked : AskRestart(a, mode)
    BY <1>1, <2>2 DEF AskStage, AskApply, AskRestart, Ask, StatusTypes
  <2>3. CASE Reserve(a)
    BY <1>1, <2>3 DEF Reserve, StatusTypes
  <2>4. handlers[a].request \in Requests
    BY <1>1 DEF InboxTypes, HandlerRecords
  <2>5. Announced(handlers[a].request) =>
           /\ restart' \in [state : {"idle", "pending", "running", "complete", "failed"},
                            config : Configs, manager : BOOLEAN]
           /\ update' \in [job : Jobs \cup {NoJob}, state : UpdateStates]
    <3>1. SUFFICES ASSUME NEW r \in Requests, Announced(r)
                   PROVE  /\ restart' \in [state : {"idle", "pending", "running", "complete", "failed"},
                                            config : Configs, manager : BOOLEAN]
                          /\ update' \in [job : Jobs \cup {NoJob}, state : UpdateStates]
      BY <2>4
    <3>2. r.config \in Configs /\ r.job \in Jobs \cup {NoJob} /\ Pending(r) \in UpdateStates
      BY DEF Requests, Pending, UpdateStates
    <3>3. CASE r.kind = "restart"
      <4>1. restart' = [state |-> "pending", config |-> r.config, manager |-> FALSE] /\ update' = update
        BY <3>1, <3>3 DEF Announced
      <4> QED BY <1>1, <3>2, <4>1 DEF StatusTypes
    <3>4. CASE r.kind # "restart"
      <4>1. update' = [job |-> r.job, state |-> Pending(r)] /\ restart' = restart
        BY <3>1, <3>4 DEF Announced
      <4> QED BY <1>1, <3>2, <4>1 DEF StatusTypes
    <3> QED BY <3>3, <3>4
  <2>6. CASE Post(a)
    BY <1>1, <2>5, <2>6 DEF Post, StatusTypes
  <2>7. CASE PostFails(a)
    BY <1>1, <2>5, <2>7, EndedIsTyped DEF PostFails, StatusTypes
  <2> QED BY <2>1, <2>2, <2>3, <2>6, <2>7
<1>9. CASE \E c \in Configs : SaveConfig(c)
  BY <1>1, <1>9 DEF SaveConfig, StatusTypes
<1>10. CASE Publish /\ UNCHANGED superVars
  BY <1>1, <1>10 DEF superVars, StatusTypes
<1>11. CASE Edit
  BY <1>1, <1>11 DEF Edit, superVars, StatusTypes
<1> QED BY <1>2, <1>3, <1>4, <1>5, <1>6, <1>7, <1>8, <1>9, <1>10, <1>11 DEF Restarting, Disturb

(* What the launcher's own record becomes. *)
SupIs(phase, todo, plan, job, target, ready) ==
    /\ sup' \in SupRecords
    /\ sup'.phase = phase /\ sup'.todo = todo /\ sup'.plan = plan
    /\ sup'.job = job /\ sup'.target = target /\ sup'.ready = ready

LEMMA GoIs ==
    ASSUME sup \in SupRecords, NEW p \in Phases, Go(p)
    PROVE  SupIs(p, sup.todo, sup.plan, sup.job, sup.target, sup.ready)
BY DEF SupRecords, Go, SupIs

LEMMA GoExitIs ==
    ASSUME sup \in SupRecords, NEW p \in Phases, NEW e \in Exits, sup' = [sup EXCEPT !.phase = p, !.exit = e]
    PROVE  SupIs(p, sup.todo, sup.plan, sup.job, sup.target, sup.ready)
BY DEF SupRecords, SupIs

LEMMA GoTodoIs ==
    ASSUME sup \in SupRecords, NEW p \in Phases, NEW t \in SUBSET Group, sup' = [sup EXCEPT !.phase = p, !.todo = t]
    PROVE  SupIs(p, t, sup.plan, sup.job, sup.target, sup.ready)
BY DEF SupRecords, SupIs

LEMMA ExecutedIs ==
    ASSUME sup \in SupRecords, NEW p \in Phases, NEW j \in Jobs \cup {NoJob},
           sup' = [sup EXCEPT !.phase = p, !.exit = "none", !.job = j]
    PROVE  SupIs(p, sup.todo, sup.plan, j, sup.target, sup.ready)
BY DEF SupRecords, SupIs, Exits

LEMMA ReadyIs ==
    ASSUME sup \in SupRecords, NEW p \in Phases, sup' = [sup EXCEPT !.ready = TRUE, !.phase = p]
    PROVE  SupIs(p, sup.todo, sup.plan, sup.job, sup.target, TRUE)
BY DEF SupRecords, SupIs

LEMMA JobTakenIs ==
    ASSUME sup \in SupRecords, NEW p \in Phases, NEW j \in Jobs, NEW q \in SUBSET Group,
           sup' = [sup EXCEPT !.phase = p, !.job = j, !.plan = q]
    PROVE  SupIs(p, sup.todo, q, j, sup.target, sup.ready)
BY DEF SupRecords, SupIs

LEMMA RestartTakenIs ==
    ASSUME sup \in SupRecords, NEW p \in Phases, NEW c \in Configs, NEW q \in SUBSET Group,
           sup' = [sup EXCEPT !.phase = p, !.target = c, !.plan = q]
    PROVE  SupIs(p, sup.todo, q, sup.job, c, sup.ready)
BY DEF SupRecords, SupIs

LEMMA DownIs ==
    ASSUME NEW p \in Phases, NEW e \in Exits,
           \/ sup' = [Down EXCEPT !.exit = e] /\ p = "down"
           \/ sup' = [Down EXCEPT !.phase = p]
           \/ sup' = [Down EXCEPT !.exit = e, !.phase = p]
    PROVE  SupIs(p, {}, {}, NoJob, First, FALSE)
<1>1. Down \in SupRecords
  BY ConstantsAreTyped
<1>2. [Down EXCEPT !.exit = e] \in SupRecords /\ [Down EXCEPT !.phase = p] \in SupRecords
      /\ [Down EXCEPT !.exit = e, !.phase = p] \in SupRecords
  BY <1>1 DEF SupRecords
<1>3. sup' \in SupRecords
  BY <1>2
<1> QED BY <1>3 DEF Down, SupIs

LEMMA LeaveIs ==
    ASSUME NEW e \in Exits, Leave(e)
    PROVE  \E p \in {"down", "exec"} : SupIs(p, {}, {}, NoJob, First, FALSE)
<1>1. CASE e = "relaunch" /\ ~managed
  <2>1. sup' = [Down EXCEPT !.exit = e, !.phase = "exec"] /\ "exec" \in Phases
    BY <1>1 DEF Leave, Phases
  <2>2. SupIs("exec", {}, {}, NoJob, First, FALSE)
    BY <2>1, DownIs
  <2> QED BY <2>2
<1>2. CASE ~(e = "relaunch" /\ ~managed)
  <2>1. sup' = [Down EXCEPT !.exit = e, !.phase = "down"] /\ "down" \in Phases
    BY <1>2 DEF Leave, Phases
  <2>2. SupIs("down", {}, {}, NoJob, First, FALSE)
    BY <2>1, DownIs
  <2> QED BY <2>2
<1> QED BY <1>1, <1>2

LEMMA ServeIs ==
    ASSUME sup' = [Down EXCEPT !.phase = "serve", !.ready = TRUE]
    PROVE  SupIs("serve", {}, {}, NoJob, First, TRUE)
<1>1. Down \in SupRecords /\ "serve" \in Phases
  BY ConstantsAreTyped DEF Phases
<1>2. [Down EXCEPT !.phase = "serve", !.ready = TRUE] \in SupRecords
  BY <1>1 DEF SupRecords
<1> QED BY <1>2 DEF Down, SupIs

LEMMA StartServiceIs ==
    ASSUME UpdateTypeOK, GroupTypes, NEW s \in sup.todo, NEW with \in Configs, StartService(s, with)
    PROVE  /\ SupIs(sup.phase, sup.todo \ {s}, sup.plan, sup.job, sup.target, sup.ready)
           /\ running' \in [Group -> [Modules -> Contents \cup {-1}]]
           /\ conf' \in [Group -> Configs] /\ conf' = [conf EXCEPT ![s] = with] /\ s \in Group
<1>1. s \in Group
  BY DEF GroupTypes, SupRecords
<1>2. Signature(s) \in [Modules -> Contents \cup {-1}]
  BY DEF Signature, UpdateTypeOK
<1>3. SupIs(sup.phase, sup.todo \ {s}, sup.plan, sup.job, sup.target, sup.ready)
  BY DEF StartService, GroupTypes, SupRecords, SupIs
<1> QED BY <1>1, <1>2, <1>3 DEF StartService, GroupTypes

LEMMA StopServicesIs ==
    ASSUME GroupTypes, InboxTypes, NEW selected, StopServices(selected)
    PROVE  /\ running' \in [Group -> [Modules -> Contents \cup {-1}]]
           /\ handlers' \in {handlers, NoHandlers}
<1>1. running' \in [Group -> [Modules -> Contents \cup {-1}]]
  BY DEF StopServices, GroupTypes, NotRunning
<1>2. CASE "admin" \in selected
  BY <1>1, <1>2 DEF StopServices, NoHandlers
<1>3. CASE "admin" \notin selected
  <2>1. handlers' = [a \in Admins |-> handlers[a]]
    BY <1>3 DEF StopServices
  <2> QED BY <1>1, <2>1 DEF InboxTypes
<1> QED BY <1>2, <1>3

(* What steps of the launcher leave of the requests. *)
InboxKept == handlers' \in {handlers, NoHandlers} /\ mailbox' = mailbox /\ download' = download
InboxGone == handlers' = NoHandlers /\ mailbox' = NoMail /\ download' = NoJob

LEMMA InboxAfterGone == Gone => InboxGone
BY DEF Gone, InboxGone, NoHandlers

LEMMA StartUpInbox ==
    ASSUME SupervisorTypeOK, StartUp
    PROVE  InboxKept \/ InboxGone
<1>1. GroupTypes /\ InboxTypes
  BY TypesSplit
<1>2. LeaveUnready \/ LeaveReady => InboxGone
  BY InboxAfterGone DEF LeaveUnready, LeaveReady, Leave
<1>3. StartupFails => InboxKept \/ InboxGone
  BY <1>1, <1>2, StopServicesIs DEF StartupFails, InboxKept
<1>4. UNCHANGED inbox => InboxKept
  BY DEF inbox, InboxKept
<1>5. CASE Pre \/ PreDone \/ Exec \/ ExecFails \/ ExecRestored \/ Recover \/ Recovered \/ Resume \/ StartNext
           \/ AllStarted \/ Ready \/ Released \/ Acknowledge \/ FinishRelaunch
  BY <1>4, <1>5 DEF Pre, PreDone, Exec, ExecFails, ExecRestored, Recover, Recovered, Resume, StartNext,
     AllStarted, Ready, Released, Acknowledge, FinishRelaunch, inbox
<1>6. CASE RecoverDone \/ Unwound \/ StartFails \/ Acknowledged
  BY <1>2, <1>3, <1>4, <1>6 DEF RecoverDone, Unwound, StartFails, Acknowledged
<1>7. CASE Report
  BY <1>4, <1>7, InboxAfterGone DEF Report, Leave
<1> QED BY <1>5, <1>6, <1>7 DEF StartUp

LEMMA UpdatingInbox ==
    ASSUME SupervisorTypeOK, Updating
    PROVE  InboxKept \/ InboxGone \/ DownloadEnds \/ TakeStage \/ TakeApply
<1>1. GroupTypes /\ InboxTypes
  BY TypesSplit
<1>2. UNCHANGED inbox => InboxKept
  BY DEF inbox, InboxKept
<1>3. FailUpdate /\ UNCHANGED <<mailbox, download>> => InboxKept
  BY <1>1, StopServicesIs DEF FailUpdate, InboxKept
<1>4. CASE UStart \/ UCommit \/ UCommitted \/ UUndone \/ URestored
  BY <1>2, <1>4 DEF UStart, UCommit, UCommitted, UUndone, URestored, inbox
<1>5. CASE UApplied \/ UAbandoned
  BY <1>2, <1>5, InboxAfterGone DEF UApplied, UAbandoned, Leave
<1>6. CASE UStop
  BY <1>1, <1>6, StopServicesIs DEF UStop, InboxKept
<1>7. CASE UFails \/ UNotApplied
  BY <1>3, <1>7 DEF UFails, UNotApplied
<1>8. CASE UPrepare
  BY <1>3, <1>8 DEF UPrepare, InboxKept
<1> QED BY <1>4, <1>5, <1>6, <1>7, <1>8 DEF Updating

LEMMA OtherInbox ==
    ASSUME SupervisorTypeOK, Boot \/ Restarting \/ Disturb \/ Download \/ Transact
    PROVE  InboxKept \/ InboxGone \/ TakeRestart
<1>1. GroupTypes /\ InboxTypes
  BY TypesSplit
<1>2. UNCHANGED inbox => InboxKept
  BY DEF inbox, InboxKept
<1>3. CASE Boot \/ RStart \/ RDone \/ RRestore \/ RRestored \/ \E c \in Configs : SaveConfig(c)
  BY <1>2, <1>3 DEF Boot, RStart, RDone, RRestore, RRestored, SaveConfig, inbox
<1>4. CASE RStop \/ RFails \/ USignal
  BY <1>1, <1>4, StopServicesIs, InboxAfterGone DEF RStop, RFails, USignal, Leave, InboxKept
<1>5. CASE RAbandoned \/ Kill \/ StartStopped \/ RSignal \/ ServiceDies \/ RestartRefused \/ Shutdown
  BY <1>5, InboxAfterGone DEF RAbandoned, Kill, StartStopped, RSignal, ServiceDies, RestartRefused, Shutdown, LeaveReady, Leave
<1>6. CASE (Publish /\ UNCHANGED superVars) \/ Edit \/ Download \/ Transact
  BY <1>6 DEF Edit, Download, Transact, superVars, InboxKept
<1> QED BY <1>3, <1>4, <1>5, <1>6 DEF Restarting, Disturb

LEMMA InboxStepTypes ==
    ASSUME SupervisorTypeOK, RequestsAreKnown, Next
    PROVE  InboxTypes'
<1>1. InboxTypes /\ UpdateTypeOK /\ StatusTypes
  BY TypesSplit
<1>2. InboxKept \/ InboxGone => InboxTypes'
  BY <1>1, ConstantsAreTyped DEF InboxKept, InboxGone, InboxTypes
<1>3. CASE DownloadEnds
  BY <1>1, <1>3 DEF DownloadEnds, InboxTypes
<1>4. CASE TakeStage
  BY <1>1, <1>4, ConstantsAreTyped DEF TakeStage, RequestsAreKnown, Announceable, InboxTypes
<1>5. CASE TakeApply
  BY <1>1, <1>5, ConstantsAreTyped DEF TakeApply, InboxTypes
<1>6. CASE TakeRestart
  BY <1>1, <1>6, ConstantsAreTyped DEF TakeRestart, InboxTypes
<1>7. CASE Administer
  <2>1. PICK a \in Admins : \/ AskStage(a) \/ AskApply(a) \/ \E mode \in Asked : AskRestart(a, mode)
                            \/ Reserve(a) \/ Post(a) \/ PostFails(a)
    BY <1>7 DEF Administer
  <2>2. \A r \in Requests : Ask(a, r) => InboxTypes'
    BY <1>1 DEF Ask, InboxTypes, HandlerRecords
  <2>3. CASE AskStage(a)
    <3>1. (CHOOSE j \in Unused : TRUE) \in Jobs /\ published \in 0 .. Newest
      BY <1>1, <2>3, ModuleUpdateAssumption DEF AskStage, Unused, UpdateTypeOK, Releases
    <3>2. [NoRequest EXCEPT !.kind = "stage", !.job = CHOOSE j \in Unused : TRUE, !.version = published] \in Requests
      BY <3>1, ConstantsAreTyped DEF Requests
    <3> QED BY <2>2, <2>3, <3>2 DEF AskStage
  <2>4. CASE AskApply(a)
    <3>1. [NoRequest EXCEPT !.kind = "apply", !.job = update.job] \in Requests
      BY <1>1, ConstantsAreTyped DEF Requests, StatusTypes
    <3> QED BY <2>2, <2>4, <3>1 DEF AskApply
  <2>5. ASSUME NEW mode \in Asked, AskRestart(a, mode) PROVE InboxTypes'
    <3>1. [NoRequest EXCEPT !.kind = "restart", !.mode = mode, !.config = config] \in Requests
      BY <1>1, ConstantsAreTyped, SupervisorAssumption DEF Requests, StatusTypes
    <3> QED BY <2>2, <2>5, <3>1 DEF AskRestart
  <2>6. CASE Reserve(a)
    <3>1. NoHandler \in HandlerRecords /\ [handlers[a] EXCEPT !.step = "reserved"] \in HandlerRecords
      BY <1>1, ConstantsAreTyped DEF NoHandler, HandlerRecords, InboxTypes
    <3>2. handlers' \in {[handlers EXCEPT ![a] = [handlers[a] EXCEPT !.step = "reserved"]],
                        [handlers EXCEPT ![a] = NoHandler]}
      BY <2>6 DEF Reserve
    <3> QED BY <1>1, <2>6, <3>1, <3>2 DEF Reserve, InboxTypes
  <2>7. CASE Post(a) \/ PostFails(a)
    <3>1. NoHandler \in HandlerRecords /\ handlers[a].request \in Requests
      BY <1>1, ConstantsAreTyped DEF NoHandler, HandlerRecords, InboxTypes
    <3> QED BY <1>1, <2>7, <3>1 DEF Post, PostFails, InboxTypes
  <2> QED BY <2>1, <2>3, <2>4, <2>5, <2>6, <2>7
<1> QED BY <1>2, <1>3, <1>4, <1>5, <1>6, <1>7, StartUpInbox, UpdatingInbox, OtherInbox DEF Next, Launching

LEMMA StartUpGroupTypes ==
    ASSUME SupervisorTypeOK, PhasesFit, StartUp
    PROVE  GroupTypes'
<1>1. GroupTypes /\ UpdateTypeOK /\ InboxTypes /\ StatusTypes /\ sup \in SupRecords
  BY TypesSplit DEF GroupTypes
<1>2. \A e \in Exits : Leave(e) => GroupTypes'
  BY GoneTypes, LeaveIs DEF Leave, GroupTypes, SupIs
<1>3. LeaveUnready \/ LeaveReady => GroupTypes'
  BY <1>2 DEF LeaveUnready, LeaveReady, Exits
<1>4. \A p \in Phases : Go(p) => sup' \in SupRecords
  BY <1>1, GoIs DEF SupIs
<1>5. sup' = [Down EXCEPT !.exit = "failed"] => sup' \in SupRecords
  BY DownIs DEF SupIs, Exits, Phases
<1>6. \A e \in Exits, p \in Phases : sup' = [sup EXCEPT !.phase = p, !.exit = e] => sup' \in SupRecords
  BY <1>1, GoExitIs DEF SupIs
<1>7. \A p \in Phases : \A t \in SUBSET Group : sup' = [sup EXCEPT !.phase = p, !.todo = t] => sup' \in SupRecords
  BY <1>1, GoTodoIs DEF SupIs
<1>8. StartupFails => GroupTypes'
  <2>1. CASE LeaveUnready \/ LeaveReady
    BY <1>3, <2>1
  <2>2. CASE StartupFails /\ ~(LeaveUnready \/ LeaveReady)
    BY <1>1, <1>7, <2>2, StopServicesIs DEF StartupFails, GroupTypes, Phases
  <2> QED BY <2>1, <2>2
<1>9. CASE \/ Pre \/ PreDone \/ ExecFails \/ ExecRestored \/ Recover \/ Recovered \/ Resume \/ AllStarted
           \/ Ready \/ Acknowledge \/ FinishRelaunch
  <2>1. UNCHANGED <<running, conf, previous>>
    BY <1>9 DEF Pre, PreDone, ExecFails, ExecRestored, Recover, Recovered, Resume, AllStarted, Ready,
       Acknowledge, FinishRelaunch
  <2>2. sup' \in SupRecords
    BY <1>4, <1>5, <1>6, <1>7, <1>9 DEF Pre, PreDone, ExecFails, ExecRestored, Recover, Recovered, Resume,
       AllStarted, Ready, Acknowledge, FinishRelaunch, Phases, Exits
  <2> QED BY <1>1, <2>1, <2>2 DEF GroupTypes
<1>10. CASE Exec
  <2>1. handoff \in Jobs \cup {NoJob}
    BY <1>1 DEF UpdateTypeOK
  <2>2. sup' \in SupRecords
    BY <1>1, <1>10, <2>1, ExecutedIs DEF Exec, SupIs, Phases
  <2> QED BY <1>1, <1>10, <2>2 DEF Exec, GroupTypes
<1>11. CASE RecoverDone
  BY <1>1, <1>3, <1>4, <1>11 DEF RecoverDone, GroupTypes, Phases
<1>12. CASE Unwound
  BY <1>1, <1>3, <1>6, <1>12 DEF Unwound, GroupTypes, Phases, Exits
<1>13. CASE StartNext
  BY <1>1, <1>13, StartServiceIs DEF StartNext, GroupTypes, StatusTypes, SupIs
<1>14. CASE StartFails
  BY <1>8, <1>14 DEF StartFails
<1>15. CASE Released
  BY <1>1, <1>15, ReadyIs DEF Released, GroupTypes, SupIs, Phases
<1>16. CASE Acknowledged
  BY <1>1, <1>4, <1>8, <1>16 DEF Acknowledged, GroupTypes, Phases
<1>17. CASE Report
  <2>1. sup.exit \in Exits
    BY <1>1 DEF SupRecords
  <2> QED BY <1>1, <1>2, <1>17, <2>1, ServeIs DEF Report, GroupTypes, SupIs
<1> QED BY <1>9, <1>10, <1>11, <1>12, <1>13, <1>14, <1>15, <1>16, <1>17 DEF StartUp

LEMMA UpdatingGroupTypes ==
    ASSUME SupervisorTypeOK, RequestsAreKnown, PhasesFit, Updating
    PROVE  GroupTypes'
<1>1. GroupTypes /\ UpdateTypeOK /\ InboxTypes /\ StatusTypes /\ sup \in SupRecords
  BY TypesSplit DEF GroupTypes
<1>2. \A e \in Exits : Leave(e) => GroupTypes'
  BY GoneTypes, LeaveIs DEF Leave, GroupTypes, SupIs
<1>3. \A p \in Phases : Go(p) => sup' \in SupRecords
  BY <1>1, GoIs DEF SupIs
<1>4. \A p \in Phases : \A t \in SUBSET Group : sup' = [sup EXCEPT !.phase = p, !.todo = t] => sup' \in SupRecords
  BY <1>1, GoTodoIs DEF SupIs
<1>5. FailUpdate /\ UNCHANGED <<conf, previous>> => GroupTypes'
  BY <1>1, <1>3, <1>4, StopServicesIs DEF FailUpdate, GroupTypes, Phases
<1>6. CASE DownloadEnds \/ TakeStage
  BY <1>1, <1>6 DEF DownloadEnds, TakeStage, GroupTypes
<1>7. CASE TakeApply
  <2>1. mailbox.update.job \in Jobs
    BY <1>7 DEF TakeApply, RequestsAreKnown, Settled, Past
  <2>2. UpdatePlan(mailbox.update.job) \in SUBSET Group
    <3>1. journal[mailbox.update.job].files \subseteq Modules
      BY <1>1, <2>1 DEF UpdateTypeOK, Entries
    <3> QED BY <3>1, SupervisorAssumption DEF UpdatePlan
  <2>3. sup' \in SupRecords
    BY <1>1, <1>7, <2>1, <2>2, JobTakenIs DEF TakeApply, SupIs, Phases
  <2> QED BY <1>1, <1>7, <2>3 DEF TakeApply, GroupTypes
<1>8. CASE UStop
  BY <1>1, <1>3, <1>8, StopServicesIs DEF UStop, GroupTypes, Phases
<1>9. CASE UFails \/ UNotApplied
  BY <1>5, <1>9 DEF UFails, UNotApplied
<1>10. CASE UPrepare
  BY <1>1, <1>3, <1>5, <1>10 DEF UPrepare, GroupTypes, Phases
<1>11. CASE UApplied
  BY <1>1, <1>2, <1>4, <1>11 DEF UApplied, GroupTypes, Phases, Exits, SupRecords
<1>12. CASE UStart
  <2>1. PICK s \in sup.todo : StartService(s, conf[s])
    BY <1>12 DEF UStart
  <2>2. conf[s] \in Configs
    BY <1>1 DEF GroupTypes, SupRecords
  <2> QED BY <1>1, <1>12, <2>1, <2>2, StartServiceIs DEF UStart, GroupTypes, SupIs
<1>13. CASE UCommit \/ UCommitted \/ URestored
  BY <1>1, <1>3, <1>13 DEF UCommit, UCommitted, URestored, GroupTypes, Phases
<1>14. CASE UUndone
  <2>1. (IF sup.exit = "stopped" THEN {} ELSE sup.plan) \in SUBSET Group
    BY <1>1 DEF SupRecords
  <2> QED BY <1>1, <1>4, <1>14, <2>1 DEF UUndone, GroupTypes, Phases
<1>15. CASE UAbandoned
  BY <1>2, <1>15 DEF UAbandoned, Exits
<1> QED BY <1>6, <1>7, <1>8, <1>9, <1>10, <1>11, <1>12, <1>13, <1>14, <1>15 DEF Updating

LEMMA OtherGroupTypes ==
    ASSUME SupervisorTypeOK, PhasesFit, Boot \/ Restarting \/ Administer \/ Disturb
    PROVE  GroupTypes'
<1>1. GroupTypes /\ UpdateTypeOK /\ InboxTypes /\ StatusTypes /\ sup \in SupRecords
  BY TypesSplit DEF GroupTypes
<1>2. \A e \in Exits : Leave(e) => GroupTypes'
  BY GoneTypes, LeaveIs DEF Leave, GroupTypes, SupIs
<1>3. \A p \in Phases : \A t \in SUBSET Group : sup' = [sup EXCEPT !.phase = p, !.todo = t] => sup' \in SupRecords
  BY <1>1, GoTodoIs DEF SupIs
<1>4. sup.plan \in SUBSET Group /\ sup.target \in Configs
  BY <1>1 DEF SupRecords
<1>5. CASE Boot
  <2>1. sup' \in SupRecords
    BY <1>5, DownIs DEF Boot, SupIs, Phases, Exits
  <2> QED BY <1>1, <1>5, <2>1 DEF Boot, GroupTypes
<1>6. CASE TakeRestart
  <2>1. mailbox.restart.config \in Configs /\ mailbox.restart.mode \in Modes
    BY <1>1 DEF InboxTypes, Requests
  <2>2. restart_plan(active, mailbox.restart.config, mailbox.restart.mode) \in SUBSET Group
    BY <2>1 DEF restart_plan, Affected, Modes
  <2>3. sup' \in SupRecords
    <3>1. \/ sup' = sup
          \/ sup' = [sup EXCEPT !.phase = "r_stop", !.target = mailbox.restart.config,
                       !.plan = restart_plan(active, mailbox.restart.config, mailbox.restart.mode)]
      BY <1>6 DEF TakeRestart
    <3>2. PICK c \in Configs, q \in SUBSET Group :
            sup' = sup \/ sup' = [sup EXCEPT !.phase = "r_stop", !.target = c, !.plan = q]
      BY <2>1, <2>2, <3>1
    <3>3. "r_stop" \in Phases
      BY DEF Phases
    <3> QED BY <1>1, <3>2, <3>3, RestartTakenIs DEF SupIs
  <2> QED BY <1>1, <1>6, <2>3 DEF TakeRestart, GroupTypes
<1>7. CASE RStop
  BY <1>1, <1>2, <1>3, <1>4, <1>7, StopServicesIs DEF RStop, GroupTypes, Phases, Exits
<1>8. CASE RStart \/ RRestore
  <2>1. PICK s \in sup.todo : StartService(s, sup.target) \/ StartService(s, previous[s])
    BY <1>8 DEF RStart, RRestore
  <2>2. previous[s] \in Configs
    BY <1>1 DEF GroupTypes, SupRecords
  <2> QED BY <1>1, <1>4, <1>8, <2>1, <2>2, StartServiceIs DEF RStart, RRestore, GroupTypes, SupIs
<1>9. CASE RFails
  BY <1>1, <1>3, <1>4, <1>9, StopServicesIs DEF RFails, ToRestore, GroupTypes, Phases
<1>10. CASE RDone \/ RRestored
  <2>1. [s \in Group |-> First] \in [Group -> Configs]
    BY FirstIsConfig
  <2> QED BY <1>1, <1>10, <2>1, ServeIs DEF RDone, RRestored, GroupTypes, SupIs
<1>11. CASE RAbandoned \/ StartStopped \/ RSignal \/ ServiceDies \/ RestartRefused \/ Shutdown
  BY <1>2, <1>11 DEF RAbandoned, StartStopped, RSignal, ServiceDies, RestartRefused, Shutdown, LeaveReady, Exits
<1>12. CASE Administer
  BY <1>1, <1>12 DEF Administer, AskStage, AskApply, AskRestart, Ask, Reserve, Post, PostFails, GroupTypes
<1>13. CASE Kill
  BY <1>13, GoneTypes, DownIs DEF Kill, GroupTypes, SupIs, Phases, Exits
<1>14. CASE USignal
  <2>1. sup' \in SupRecords
    BY <1>1, <1>14, GoExitIs DEF USignal, SupIs, Phases, Exits
  <2> QED BY <1>1, <1>14, <2>1, StopServicesIs DEF USignal, GroupTypes
<1>15. CASE \E c \in Configs : SaveConfig(c)
  BY <1>1, <1>15 DEF SaveConfig, GroupTypes
<1>16. CASE (Publish /\ UNCHANGED superVars) \/ Edit
  BY <1>1, <1>16 DEF Edit, superVars, GroupTypes
<1> QED BY <1>5, <1>6, <1>7, <1>8, <1>9, <1>10, <1>11, <1>12, <1>13, <1>14, <1>15, <1>16 DEF Restarting, Disturb

LEMMA TypesStep ==
    ASSUME SupervisorInvariant, [Next]_vars
    PROVE  SupervisorTypeOK'
<1> USE DEF SupervisorInvariant
<1>1. UpdateTypeOK /\ StatusTypes /\ GroupTypes /\ InboxTypes
  BY TypesSplit
<1>2. SupervisorTypeOK' <=> UpdateTypeOK' /\ StatusTypes' /\ GroupTypes' /\ InboxTypes'
  BY TypesSplit, PTL
<1>3. CASE UNCHANGED vars
  BY <1>3 DEF vars, updateVars, superVars, SupervisorTypeOK, UpdateTypeOK
<1>4. CASE Transact
  <2>1. UpdateTypeOK'
    BY <1>1, <1>4, CallStepTypes DEF Transact
  <2>2. StatusTypes' /\ GroupTypes' /\ InboxTypes'
    BY <1>1, <1>4 DEF Transact, superVars, StatusTypes, GroupTypes, InboxTypes
  <2> QED BY <1>2, <2>1, <2>2
<1>5. CASE Download
  <2>1. UpdateTypeOK'
    BY <1>1, <1>5, StageTypes DEF Download
  <2>2. StatusTypes' /\ GroupTypes' /\ InboxTypes'
    BY <1>1, <1>5 DEF Download, superVars, StatusTypes, GroupTypes, InboxTypes
  <2> QED BY <1>2, <2>1, <2>2
<1>6. CASE StartUp
  BY <1>2, <1>6, StartUpUpdateTypes, StartUpStatusTypes, StartUpGroupTypes, InboxStepTypes DEF Next, Launching
<1>7. CASE Updating
  BY <1>2, <1>7, UpdatingUpdateTypes, UpdatingStatusTypes, UpdatingGroupTypes, InboxStepTypes DEF Next, Launching
<1>8. CASE Boot \/ Restarting \/ Administer \/ Disturb
  BY <1>2, <1>8, OtherUpdateTypes, OtherStatusTypes, OtherGroupTypes, InboxStepTypes DEF Next, Launching
<1> QED BY <1>3, <1>4, <1>5, <1>6, <1>7, <1>8 DEF Next, Launching

-----------------------------------------------------------------------------
(* The jobs and the phases *)

Control == JobsAreKnown /\ RequestsAreKnown /\ PhasesFit /\ CallFits /\ OneUnfinished /\ LauncherCanStart

(* What a job has become stays, and what it replaces; a job not begun stays so. *)
PastStays ==
    \A j \in Jobs : Past(j) =>
        /\ journal'[j].state \notin {"none", "staging"}
        /\ journal'[j].files = journal[j].files /\ journal'[j].version = journal[j].version
NoneStays == \A j \in Jobs : journal[j].state = "none" => journal'[j].state = "none"

(* Before the launcher is ready nothing is asked of it. *)
LEMMA QuietBeforeReady ==
    ASSUME JobsAreKnown, PhasesFit, ~sup.ready
    PROVE  handlers = NoHandlers /\ mailbox = NoMail /\ download = NoJob /\ staging = NoJob
BY DEF JobsAreKnown, PhasesFit, NoHandlers

LEMMA RequestsKept ==
    ASSUME SupervisorTypeOK, RequestsAreKnown, InboxKept, PastStays, NoneStays
    PROVE  RequestsAreKnown'
<1>1. \A j : Settled(j) => Settled(j)'
  BY DEF Settled, Past, PastStays, InboxKept
<1>2. \A r : Announceable(r) => r.job \in Jobs /\ journal'[r.job].state = "none" /\ r.version \in Releases
  BY DEF Announceable, NoneStays
<1>3. handlers' = handlers \/ \A a \in Admins : handlers'[a] = NoHandler
  BY DEF InboxKept, NoHandlers
<1>4. CASE handlers' = handlers
  BY <1>1, <1>2, <1>4 DEF RequestsAreKnown, InboxKept, Announceable
<1>5. CASE \A a \in Admins : handlers'[a] = NoHandler
  <2>1. NoHandler.request.kind = "none" /\ NoHandler.step = "idle"
    BY DEF NoHandler, NoRequest
  <2> QED BY <1>1, <1>2, <1>5, <2>1 DEF RequestsAreKnown, InboxKept, Announceable
<1> QED BY <1>3, <1>4, <1>5

LEMMA RequestsGone ==
    ASSUME InboxGone
    PROVE  RequestsAreKnown'
<1>1. \A a \in Admins : handlers'[a] = NoHandler
  BY DEF InboxGone, NoHandlers
<1>2. NoHandler.request.kind = "none" /\ NoHandler.step = "idle" /\ NoMail.update.kind = "none" /\ NoMail.restart.kind = "none"
  BY DEF NoHandler, NoRequest, NoMail
<1>3. mailbox' = NoMail
  BY DEF InboxGone
<1> QED BY <1>1, <1>2, <1>3 DEF RequestsAreKnown

(* What the journal says of the jobs, but for what a commit and the first boot add. *)
SameJobs ==
    \A j \in Jobs :
        /\ journal'[j].state = journal[j].state /\ journal'[j].version = journal[j].version
        /\ journal'[j].files = journal[j].files /\ journal'[j].applied = journal[j].applied
        /\ journal'[j].metadataApplied = journal[j].metadataApplied \/ journal[j].state = "installed"

LEMMA SameJobsAreKept ==
    ASSUME SameJobs
    PROVE  /\ PastStays /\ NoneStays
           /\ \A j \in Jobs : /\ Unfinished(j)' <=> Unfinished(j)
                              /\ HasLauncher(j)' <=> HasLauncher(j)
                              /\ Past(j)' <=> Past(j)
<1>1. \A j \in Jobs : Unfinished(j)' <=> Unfinished(j)
  BY DEF SameJobs, Unfinished
<1> QED BY <1>1 DEF SameJobs, PastStays, NoneStays, Past, HasLauncher

(* A step of the launcher that changes no job. *)
LEMMA SavedMoveKeeps ==
    ASSUME SupervisorInvariant, SameJobs, staging' = staging, InboxKept,
           sup.ready => sup'.ready,
           sup'.job = sup.job \/ sup'.job \in {NoJob, handoff}, handoff' \in {handoff, NoJob, sup.job},
           call'.job = NoJob \/ (call'.job \in Jobs /\ Settled(call'.job)),
           update' = update \/ update'.state # "staged",
           update'.job = NoJob => (handoff' = NoJob /\ sup'.phase \notin ApplyPhases),
           handoff' = handoff \/ LauncherCanStart',
           PhasesFit', CallFits', OneUnfinished'
    PROVE  Control'
<1> USE DEF SupervisorInvariant
<1>1. RequestsAreKnown'
  BY SameJobsAreKept, RequestsKept
<1>2. LauncherCanStart'
  BY SameJobsAreKept DEF LauncherCanStart
<1>3. \A j \in Jobs : (Past(j)' <=> Past(j)) /\ (Settled(j)' <=> Settled(j))
  BY SameJobsAreKept DEF Settled, InboxKept
<1>4. \A j \in {sup'.job, handoff', call'.job} : j # NoJob => j \in Jobs /\ Settled(j)
  BY DEF JobsAreKnown, Settled, Past
<1>5. JobsAreKnown'
  <2>1. (staging # NoJob =>
           /\ staging = download /\ journal[staging].state = "staging"
           /\ journal[staging].applied = {} /\ ~journal[staging].metadataApplied)'
    BY DEF JobsAreKnown, InboxKept, SameJobs, SupervisorTypeOK, UpdateTypeOK
  <2>2. (download # NoJob =>
           sup.ready /\ (staging = download \/ journal[download].state \in {"staged", "failed"}))'
    BY DEF JobsAreKnown, InboxKept, SameJobs, SupervisorTypeOK
  <2>3. (update.state = "staged" => Settled(update.job))'
    <3>1. update'.state = "staged" => update' = update /\ update.job \in Jobs /\ Settled(update.job)
      BY DEF JobsAreKnown, Settled, Past
    <3> QED BY <1>3, <3>1 DEF Settled, Past
  <2>4. (\A j \in {sup.job, handoff, call.job} : j # NoJob => Settled(j))'
    BY <1>3, <1>4
  <2>5. (\A j \in Jobs : journal[j].state # "none" => journal[j].version \in Releases)'
    BY DEF JobsAreKnown, SameJobs
  <2> QED BY <2>1, <2>2, <2>3, <2>4, <2>5 DEF JobsAreKnown
<1> QED BY <1>1, <1>2, <1>5 DEF Control

LEMMA MoveKeeps ==
    ASSUME SupervisorInvariant, journal' = journal, staging' = staging, InboxKept,
           sup.ready => sup'.ready,
           sup'.job = sup.job \/ sup'.job \in {NoJob, handoff}, handoff' \in {handoff, NoJob, sup.job},
           call'.job = NoJob \/ (call'.job \in Jobs /\ Settled(call'.job)),
           update' = update \/ update'.state # "staged",
           update'.job = NoJob => (handoff' = NoJob /\ sup'.phase \notin ApplyPhases),
           handoff' = handoff \/ LauncherCanStart',
           PhasesFit', CallFits', OneUnfinished'
    PROVE  Control'
<1>1. SameJobs
  BY DEF SameJobs
<1> QED BY <1>1, SavedMoveKeeps

(* A download that is given up, or that dies with the launcher. *)
Discarded ==
    /\ staging' = NoJob
    /\ \A j \in Jobs :
        \/ journal'[j] = journal[j]
        \/ j = staging /\ journal'[j] = [journal[j] EXCEPT !.state = "cancelled"]

LEMMA EndDownloadDiscards ==
    ASSUME UpdateTypeOK, EndDownload
    PROVE  Discarded
<1>1. CASE staging = NoJob
  BY <1>1 DEF EndDownload, Discarded
<1>2. CASE staging # NoJob
  <2>1. staging \in Jobs /\ [journal[staging] EXCEPT !.state = "cancelled"] \in Entries
    BY <1>2 DEF UpdateTypeOK, Entries, States
  <2> QED BY <1>2, <2>1, SavedEntry DEF EndDownload, StageCancelled, State, Discarded, UpdateTypeOK
<1> QED BY <1>1, <1>2

LEMMA DiscardedKeeps ==
    ASSUME UpdateTypeOK, JobsAreKnown, Discarded
    PROVE  /\ PastStays /\ NoneStays
           /\ \A j \in Jobs : Past(j) => journal'[j] = journal[j]
           /\ \A j \in Jobs : Unfinished(j)' => Unfinished(j) /\ Past(j)
           /\ \A j \in Jobs : /\ journal'[j].version = journal[j].version /\ journal'[j].files = journal[j].files
                              /\ journal'[j].state = "none" <=> journal[j].state = "none"
<1>1. \A j \in Jobs : journal[j] \in Entries
  BY DEF UpdateTypeOK
<1>2. \A e \in Entries : LET d == [e EXCEPT !.state = "cancelled"] IN
        d.state = "cancelled" /\ d.version = e.version /\ d.files = e.files
  BY DEF Entries
<1>3. staging # NoJob => journal[staging].state = "staging"
  BY DEF JobsAreKnown
<1>4. \A j \in Jobs : j = staging => j # NoJob
  BY ModuleUpdateAssumption
<1>5. \A j \in Jobs : Past(j) => journal'[j] = journal[j]
  BY <1>3, <1>4 DEF Discarded, Past
<1>6. \A j \in Jobs : /\ journal'[j].version = journal[j].version /\ journal'[j].files = journal[j].files
                      /\ journal'[j].state = "none" <=> journal[j].state = "none"
  BY <1>1, <1>2, <1>3, <1>4 DEF Discarded
<1>7. \A j \in Jobs : journal'[j] = journal[j] \/ journal'[j].state = "cancelled"
  BY <1>1, <1>2 DEF Discarded
<1>8. \A j \in Jobs : Unfinished(j)' => Unfinished(j) /\ Past(j)
  BY <1>7 DEF Unfinished, Past
<1> QED BY <1>5, <1>6, <1>8 DEF PastStays, NoneStays, Past

Quiet == call.fn = "idle" /\ call.job = NoJob

LEMMA IdleIsQuiet == call' = Idle => Quiet'
BY DEF Quiet, Idle

(* The launcher is gone: what it was doing is over, and the journal alone
   says what is half done.                                                   *)
LEMMA ExitKeeps ==
    ASSUME SupervisorInvariant, InboxGone, Discarded, Quiet', handoff' = handoff,
           \E p \in {"down", "exec"} : SupIs(p, {}, {}, NoJob, First, FALSE),
           update' = update \/ (update'.state # "staged" /\ (update'.job = NoJob => handoff = NoJob))
    PROVE  Control'
<1> USE DEF SupervisorInvariant
<1>0. UpdateTypeOK
  BY DEF SupervisorTypeOK
<1>1. PICK p \in {"down", "exec"} : SupIs(p, {}, {}, NoJob, First, FALSE)
  OBVIOUS
<1>2. /\ \A j \in Jobs : Past(j) => journal'[j] = journal[j]
      /\ \A j \in Jobs : Unfinished(j)' => Unfinished(j) /\ Past(j)
      /\ \A j \in Jobs : /\ journal'[j].version = journal[j].version /\ journal'[j].files = journal[j].files
                         /\ journal'[j].state = "none" <=> journal[j].state = "none"
  BY <1>0, DiscardedKeeps
<1>3. sup'.phase = p /\ sup'.job = NoJob /\ ~sup'.ready
  BY <1>1 DEF SupIs
<1>4. handlers' = NoHandlers /\ mailbox' = NoMail /\ download' = NoJob /\ staging' = NoJob
  BY DEF InboxGone, Discarded
<1>5. call'.fn = "idle" /\ call'.job = NoJob
  BY DEF Quiet
<1>6. \A j \in Jobs : Settled(j) => Settled(j)'
  BY <1>2, <1>4, ModuleUpdateAssumption DEF Settled, Past
<1>7. handoff \in Jobs \cup {NoJob}
  BY <1>0 DEF UpdateTypeOK
<1>8. RequestsAreKnown'
  BY RequestsGone
<1>9. handoff # NoJob => Settled(handoff) /\ HasLauncher(handoff) /\ HasLauncher(handoff)' /\ Past(handoff)
  BY <1>2, <1>7 DEF JobsAreKnown, PhasesFit, Settled, HasLauncher
<1>10. JobsAreKnown'
  <2>1. \A j \in Jobs : journal'[j].state # "none" => journal'[j].version \in Releases
    BY <1>2 DEF JobsAreKnown
  <2>2. \A j \in {sup'.job, handoff', call'.job} : j # NoJob => Settled(j)'
    BY <1>3, <1>5, <1>6, <1>7, <1>9
  <2>3. (update.state = "staged" => Settled(update.job))'
    <3>1. update'.state = "staged" => Settled(update.job) /\ update' = update
      BY DEF JobsAreKnown
    <3> QED BY <3>1, <1>6 DEF Settled, Past
  <2>4. update'.job = NoJob => handoff' = NoJob /\ sup'.phase \notin ApplyPhases
    BY <1>3 DEF JobsAreKnown, ApplyPhases
  <2> QED BY <2>1, <2>2, <2>3, <2>4, <1>4 DEF JobsAreKnown
<1>11. PhasesFit'
  BY <1>3, <1>4, <1>9 DEF PhasesFit, Started, AfterReady, Serviced, ApplyPhases, RestartPhases, NoHandlers
<1>12. CallFits'
  BY <1>3, <1>5 DEF CallFits, WaitPhases
<1>13. OneUnfinished'
  BY <1>2, <1>3 DEF OneUnfinished, BeforeRecovery
<1>14. LauncherCanStart'
  BY <1>2 DEF LauncherCanStart, HasLauncher
<1> QED BY <1>8, <1>10, <1>11, <1>12, <1>13, <1>14 DEF Control

LauncherEnds ==
    /\ InboxGone /\ Discarded /\ Quiet' /\ handoff' = handoff
    /\ \E p \in {"down", "exec"} : SupIs(p, {}, {}, NoJob, First, FALSE)
    /\ update' = update \/ (update'.state # "staged" /\ (update'.job = NoJob => handoff = NoJob))
    /\ ~abandoned' /\ handoff # NoJob => reservation' /\ ~RestartAbandoned'

LEMMA NoDownloadNoStaging ==
    ASSUME JobsAreKnown, download = NoJob
    PROVE  staging = NoJob
BY DEF JobsAreKnown

LEMMA NothingDiscarded ==
    ASSUME staging = NoJob, staging' = staging, journal' = journal
    PROVE  Discarded
BY DEF Discarded

LEMMA HandoffHoldsReservation ==
    ASSUME SupervisorInvariant, ~abandoned, handoff # NoJob
    PROVE  reservation /\ ~RestartAbandoned
BY DEF SupervisorInvariant, MaintenanceFits, OneHolder

(* A launcher that is not up yet, and gives up. *)
LEMMA UnreadyEnds ==
    ASSUME SupervisorInvariant, ~sup.ready, UNCHANGED <<disk, durable, inbox>>, Quiet',
           abandoned' = abandoned, sup' = [Down EXCEPT !.exit = "failed"]
    PROVE  LauncherEnds
<1>1. handlers = NoHandlers /\ mailbox = NoMail /\ download = NoJob /\ staging = NoJob
  BY QuietBeforeReady DEF SupervisorInvariant
<1>2. InboxGone /\ Discarded /\ update' = update /\ handoff' = handoff
  BY <1>1, NothingDiscarded DEF InboxGone, disk, inbox, durable
<1>3. SupIs("down", {}, {}, NoJob, First, FALSE)
  BY DownIs DEF Phases, Exits
<1>4. ~abandoned' /\ handoff # NoJob => reservation' /\ ~RestartAbandoned'
  BY HandoffHoldsReservation DEF durable, RestartAbandoned
<1> QED BY <1>2, <1>3, <1>4 DEF LauncherEnds

(* One that leaves with no download to give up. *)
LEMMA LeavingEnds ==
    ASSUME SupervisorInvariant, download = NoJob, NEW e \in Exits, Leave(e), Quiet', UNCHANGED disk,
           update' = update, abandoned' = abandoned, Abandon \/ UNCHANGED <<restart, reservation>>
    PROVE  LauncherEnds
<1>1. Discarded /\ handoff' = handoff
  BY NoDownloadNoStaging, NothingDiscarded DEF disk, SupervisorInvariant
<1>2. InboxGone
  BY InboxAfterGone DEF Leave
<1>3. ASSUME ~abandoned', handoff # NoJob PROVE reservation' /\ ~RestartAbandoned'
  <2>1. reservation /\ ~RestartAbandoned
    BY <1>3, HandoffHoldsReservation
  <2>2. restart' = restart
    BY <2>1 DEF Abandon
  <2>3. reservation'
    BY <2>1 DEF Abandon
  <2> QED BY <2>1, <2>2, <2>3 DEF RestartAbandoned
<1> QED BY <1>1, <1>2, <1>3, LeaveIs DEF LauncherEnds

LEMMA UnreadyHasNoDownload ==
    ASSUME SupervisorInvariant, sup.phase \notin Serviced \/ sup.phase \in Started
    PROVE  download = NoJob /\ staging = NoJob
<1>1. sup.phase \notin Serviced => ~sup.ready
  BY DEF SupervisorInvariant, PhasesFit
<1>2. download = NoJob
  BY <1>1, QuietBeforeReady DEF SupervisorInvariant, PhasesFit
<1> QED BY <1>2, NoDownloadNoStaging DEF SupervisorInvariant

LEMMA LeaveUnreadyEnds ==
    ASSUME SupervisorInvariant, LeaveUnready \/ LeaveReady, download = NoJob, Quiet', UNCHANGED disk
    PROVE  LauncherEnds
<1>1. Leave("failed") /\ "failed" \in Exits
  BY DEF LeaveUnready, LeaveReady, Exits
<1>2. update' = update /\ abandoned' = abandoned /\ (Abandon \/ UNCHANGED <<restart, reservation>>)
  BY DEF LeaveUnready, LeaveReady, host, durable
<1> QED BY <1>1, <1>2, LeavingEnds

LEMMA StartUpEnds ==
    ASSUME SupervisorInvariant,
           \/ PreDone /\ call.fn # "ok"
           \/ ExecFails /\ ~(~managed /\ sup.exit = "relaunch" /\ handoff # NoJob)
           \/ ExecRestored /\ call.fn # "ok"
           \/ RecoverDone /\ call.fn # "ok"
           \/ Unwound /\ call.fn # "ok"
           \/ (StartFails \/ (Acknowledged /\ call.fn # "ok"))
              /\ ~(sup.job # NoJob /\ journal[sup.job].state # "complete")
           \/ StartStopped
    PROVE  LauncherEnds
<1> USE DEF SupervisorInvariant
<1>1. sup.phase \in {"pre_wait", "exec", "exec_wait"} => ~sup.ready
  BY DEF PhasesFit, Serviced, AfterReady, ApplyPhases, RestartPhases
<1>2. sup.phase \in {"exec", "start"} => Quiet
  BY DEF CallFits, WaitPhases, Quiet
<1>3. CASE PreDone /\ call.fn # "ok"
  BY <1>1, <1>3, IdleIsQuiet, UnreadyEnds DEF PreDone, At, host
<1>4. CASE ExecFails /\ ~(~managed /\ sup.exit = "relaunch" /\ handoff # NoJob)
  BY <1>1, <1>2, <1>4, UnreadyEnds DEF ExecFails, At, Quiet
<1>5. CASE ExecRestored /\ call.fn # "ok"
  BY <1>1, <1>5, IdleIsQuiet, UnreadyEnds DEF ExecRestored, At, host
<1>6. CASE RecoverDone /\ call.fn # "ok"
  <2>1. download = NoJob
    BY <1>6, UnreadyHasNoDownload DEF RecoverDone, At, Serviced, AfterReady, ApplyPhases, RestartPhases
  <2> QED BY <1>6, <2>1, IdleIsQuiet, LeaveUnreadyEnds DEF RecoverDone
<1>7. CASE Unwound /\ call.fn # "ok"
  <2>1. download = NoJob
    BY <1>7, UnreadyHasNoDownload DEF Unwound, Started
  <2> QED BY <1>7, <2>1, IdleIsQuiet, LeaveUnreadyEnds DEF Unwound
<1>8. CASE (StartFails \/ (Acknowledged /\ call.fn # "ok"))
           /\ ~(sup.job # NoJob /\ journal[sup.job].state # "complete")
  <2>1. download = NoJob
    BY <1>8, UnreadyHasNoDownload DEF StartFails, Acknowledged, At, Started
  <2>2. UNCHANGED disk /\ call' = Idle /\ (LeaveUnready \/ LeaveReady)
    BY <1>8 DEF StartFails, Acknowledged, StartupFails
  <2> QED BY <2>1, <2>2, IdleIsQuiet, LeaveUnreadyEnds
<1>9. CASE StartStopped
  <2>1. download = NoJob
    BY <1>9, UnreadyHasNoDownload DEF StartStopped, At, Started
  <2>2. Quiet'
    BY <1>2, <1>9 DEF StartStopped, At, Quiet
  <2>3. Leave("stopped") /\ "stopped" \in Exits /\ UNCHANGED disk /\ update' = update /\ abandoned' = abandoned /\ Abandon
    BY <1>9 DEF StartStopped, Exits, host
  <2> QED BY <2>1, <2>2, <2>3, LeavingEnds
<1> QED BY <1>3, <1>4, <1>5, <1>6, <1>7, <1>8, <1>9

(* One that gives up the download when it leaves. *)
LEMMA DownloadingEnds ==
    ASSUME SupervisorInvariant, NEW e \in Exits, Leave(e), EndDownload, Quiet', handoff' = handoff,
           update' = update \/ (update'.state # "staged" /\ update'.job # NoJob),
           ~abandoned' /\ handoff # NoJob => reservation' /\ ~RestartAbandoned'
    PROVE  LauncherEnds
<1>1. Discarded
  BY EndDownloadDiscards DEF SupervisorInvariant, SupervisorTypeOK
<1> QED BY <1>1, LeaveIs, InboxAfterGone DEF LauncherEnds, Leave

LEMMA LaterEnds ==
    ASSUME SupervisorInvariant,
           \/ Report /\ sup.exit # "none"
           \/ UApplied /\ HasLauncher(sup.job)
           \/ RStop /\ restart.manager
           \/ UAbandoned \/ RAbandoned \/ RSignal \/ ServiceDies \/ RestartRefused \/ Shutdown \/ Kill
    PROVE  LauncherEnds
<1> USE DEF SupervisorInvariant
<1>1. sup.phase \notin WaitPhases => Quiet
  BY DEF CallFits, Quiet
<1>2. sup.phase \in ApplyPhases \cup {"report"} => sup.job # NoJob
  BY DEF PhasesFit
<1>3. sup.phase \in RestartPhases \cup {"report"} => handoff = NoJob
  BY DEF PhasesFit
<1>4. ASSUME UNCHANGED <<restart, reservation, abandoned>>
      PROVE  ~abandoned' /\ handoff # NoJob => reservation' /\ ~RestartAbandoned'
  BY <1>4, HandoffHoldsReservation DEF RestartAbandoned
<1>5. CASE Report /\ sup.exit # "none"
  <2>1. Quiet' /\ handoff = NoJob /\ handoff' = handoff
    BY <1>1, <1>3, <1>5 DEF Report, At, WaitPhases, Quiet
  <2>2. update'.state # "staged" /\ update'.job # NoJob
    BY <1>2, <1>5 DEF Report, At, UpdateFinished
  <2>3. sup.exit \in Exits
    BY DEF SupervisorTypeOK
  <2> QED BY <1>5, <2>1, <2>2, <2>3, DownloadingEnds DEF Report
<1>6. CASE UApplied /\ HasLauncher(sup.job)
  <2>1. Leave("relaunch") /\ "relaunch" \in Exits /\ EndDownload /\ Quiet' /\ handoff' = handoff /\ update' = update
    BY <1>6, IdleIsQuiet DEF UApplied, Exits, durable
  <2>2. UNCHANGED <<restart, reservation, abandoned>>
    BY <1>6 DEF UApplied, durable, host
  <2> QED BY <1>4, <2>1, <2>2, DownloadingEnds
<1>7. CASE RStop /\ restart.manager
  <2>1. Leave("relaunch") /\ "relaunch" \in Exits /\ EndDownload /\ handoff' = handoff /\ update' = update
    BY <1>7 DEF RStop, Exits, durable
  <2>2. Quiet' /\ handoff = NoJob
    BY <1>1, <1>3, <1>7 DEF RStop, At, WaitPhases, RestartPhases, Quiet
  <2> QED BY <2>1, <2>2, DownloadingEnds
<1>8. CASE UAbandoned
  <2>1. Leave("failed") /\ "failed" \in Exits /\ EndDownload /\ Quiet' /\ handoff' = handoff
    BY <1>8, IdleIsQuiet DEF UAbandoned, Exits
  <2>2. update'.state # "staged" /\ update'.job # NoJob
    BY <1>2, <1>8 DEF UAbandoned, At, UpdateFinished, ApplyPhases
  <2>3. abandoned' \/ handoff = NoJob
    BY <1>8 DEF UAbandoned
  <2> QED BY <2>1, <2>2, <2>3, DownloadingEnds
<1>9. CASE RAbandoned \/ RSignal
  <2>1. Quiet' /\ handoff = NoJob /\ handoff' = handoff /\ update' = update /\ EndDownload
    BY <1>1, <1>3, <1>9 DEF RAbandoned, RSignal, At, WaitPhases, RestartPhases, Quiet
  <2>2. \E e \in {"failed", "stopped"} : Leave(e)
    BY <1>9 DEF RAbandoned, RSignal
  <2>3. PICK e \in Exits : Leave(e)
    BY <2>2 DEF Exits
  <2> QED BY <2>1, <2>3, DownloadingEnds
<1>10. CASE ServiceDies \/ RestartRefused \/ Shutdown
  <2>1. Quiet' /\ handoff' = handoff /\ EndDownload
    BY <1>1, <1>10 DEF ServiceDies, RestartRefused, Shutdown, Serving, At, WaitPhases, Quiet
  <2>2. UNCHANGED <<restart, reservation, abandoned>> /\ update' = update
    BY <1>10 DEF ServiceDies, RestartRefused, Shutdown, LeaveReady, durable, host
  <2>3. \E e \in {"failed", "stopped"} : Leave(e)
    BY <1>10 DEF ServiceDies, RestartRefused, Shutdown, LeaveReady
  <2>4. PICK e \in Exits : Leave(e)
    BY <2>3 DEF Exits
  <2> QED BY <1>4, <2>1, <2>2, <2>4, DownloadingEnds
<1>11. CASE Kill
  <2>1. Discarded /\ Quiet' /\ handoff' = handoff /\ InboxGone
    BY <1>11, IdleIsQuiet, InboxAfterGone DEF Kill, Discarded, diskVars
  <2>2. UNCHANGED <<restart, reservation, abandoned>> /\ update' = update
    BY <1>11 DEF Kill, durable, host
  <2>3. SupIs("down", {}, {}, NoJob, First, FALSE)
    BY <1>11, DownIs DEF Kill, Phases, Exits
  <2> QED BY <1>4, <2>1, <2>2, <2>3 DEF LauncherEnds
<1> QED BY <1>5, <1>6, <1>7, <1>8, <1>9, <1>10, <1>11

(* Nothing of the invariant but the journal is left to hold of a launcher that ended. *)
LEMMA EndKeeps ==
    ASSUME SupervisorInvariant, LauncherEnds
    PROVE  Control' /\ MaintenanceFits' /\ ConfigsFit'
<1>1. Control'
  BY ExitKeeps DEF LauncherEnds
<1>2. PICK p \in {"down", "exec"} : SupIs(p, {}, {}, NoJob, First, FALSE)
  BY DEF LauncherEnds
<1>3. sup'.phase = p /\ ~sup'.ready
  BY <1>2 DEF SupIs
<1>4. mailbox' = NoMail /\ download' = NoJob /\ \A a \in Admins : handlers'[a].step = "idle"
  BY DEF LauncherEnds, InboxGone, NoHandlers, NoHandler
<1>5. ASSUME ~abandoned' PROVE OneHolder'
  <2>1. NoMail.update = NoRequest /\ NoMail.restart = NoRequest
    BY DEF NoMail
  <2>2. handoff' # NoJob => reservation' /\ ~RestartAbandoned'
    BY <1>5 DEF LauncherEnds
  <2> QED BY <1>3, <1>4, <2>1, <2>2 DEF OneHolder, Reserved, Working, ApplyPhases, RestartPhases
<1>6. ConfigsFit'
  BY <1>3 DEF ConfigsFit, RestartPhases
<1> QED BY <1>1, <1>5, <1>6 DEF MaintenanceFits

-----------------------------------------------------------------------------
(* The launcher's steps keep the jobs and the phases in order *)

(* A step of the launcher between its operations. *)
LEMMA QuietMove ==
    ASSUME SupervisorInvariant, Quiet, Quiet', UNCHANGED <<journal, staging>>, InboxKept,
           sup.ready => sup'.ready,
           sup'.job = sup.job \/ sup'.job \in {NoJob, handoff}, handoff' \in {handoff, NoJob},
           update' = update \/ update'.state # "staged",
           update'.job = NoJob => (handoff' = NoJob /\ sup'.phase \notin ApplyPhases),
           handoff' = handoff \/ LauncherCanStart',
           sup'.phase \notin WaitPhases, PhasesFit', OneUnfinished'
    PROVE  Control'
<1>1. call'.job = NoJob /\ CallFits'
  BY DEF Quiet, CallFits, WaitPhases
<1> QED BY <1>1, MoveKeeps

LEMMA StartUpQuietMoves ==
    ASSUME SupervisorInvariant,
           Boot \/ Exec \/ Recovered \/ StartNext \/ AllStarted \/ Ready
    PROVE  Control'
<1> USE DEF SupervisorInvariant
<1>1. UpdateTypeOK /\ GroupTypes /\ InboxTypes /\ StatusTypes /\ sup \in SupRecords /\ handoff \in Jobs \cup {NoJob}
  BY TypesSplit DEF GroupTypes, UpdateTypeOK
<1>2. /\ sup.phase \in {"down", "exec", "recover", "start", "ready"}
      /\ UNCHANGED <<journal, staging, handoff, call, update>> /\ InboxKept
      /\ UNCHANGED <<handlers, mailbox, download>>
  BY DEF Boot, Exec, Recovered, StartNext, AllStarted, Ready, At, updateVars, durable, inbox, InboxKept
<1>3. Quiet /\ Quiet'
  BY <1>2 DEF CallFits, WaitPhases, Quiet
<1>4. download = NoJob /\ ~sup.ready
  BY <1>2, UnreadyHasNoDownload DEF PhasesFit, Serviced, AfterReady, ApplyPhases, RestartPhases, Started
<1>5. /\ ~sup'.ready
      /\ \/ sup'.phase \in {"pre", "exec"} /\ sup'.job = NoJob /\ sup.phase = "down"
         \/ sup'.phase = "recover" /\ sup'.job = handoff
         \/ sup.phase \in {"recover", "start", "ready"}
            /\ sup'.phase \in {"resume", "start", "ready", "released"} /\ sup'.job = sup.job
  <2>1. CASE Boot
    <3>1. PICK p \in {"pre", "exec"} : sup' = [Down EXCEPT !.phase = p]
      BY <2>1 DEF Boot
    <3>2. SupIs(p, {}, {}, NoJob, First, FALSE)
      BY <3>1, DownIs DEF Phases, Exits
    <3> QED BY <3>2, <2>1 DEF SupIs, Boot, At
  <2>2. CASE Exec
    <3>1. SupIs("recover", sup.todo, sup.plan, handoff, sup.target, sup.ready)
      BY <1>1, <2>2, ExecutedIs DEF Exec, Phases
    <3> QED BY <1>4, <3>1 DEF SupIs
  <2>3. CASE Recovered \/ AllStarted \/ Ready
    <3>1. PICK p \in {"resume", "ready", "released"} : Go(p)
      BY <2>3 DEF Recovered, AllStarted, Ready
    <3>2. SupIs(p, sup.todo, sup.plan, sup.job, sup.target, sup.ready)
      BY <1>1, <3>1, GoIs DEF Phases
    <3> QED BY <1>4, <2>3, <3>2 DEF SupIs, Recovered, AllStarted, Ready, At
  <2>4. CASE StartNext
    <3>1. PICK s \in sup.todo : StartService(s, active)
      BY <2>4 DEF StartNext
    <3>2. SupIs(sup.phase, sup.todo \ {s}, sup.plan, sup.job, sup.target, sup.ready)
      BY <1>1, <3>1, StartServiceIs DEF StatusTypes
    <3> QED BY <1>4, <2>4, <3>2 DEF SupIs, StartNext, At
  <2> QED BY <2>1, <2>2, <2>3, <2>4
<1>6. PhasesFit'
  BY <1>2, <1>4, <1>5 DEF PhasesFit, Started, AfterReady, Serviced, ApplyPhases, RestartPhases, HasLauncher
<1>7. OneUnfinished'
  <2>1. Recovered => \A j \in Jobs : Unfinished(j) => j = handoff
    BY DEF Recovered, Interrupted
  <2>2. \A j \in Jobs : Unfinished(j)' <=> Unfinished(j)
    BY <1>2 DEF Unfinished
  <2>3. sup.phase \in {"recover", "start", "ready"} /\ sup'.phase \in {"resume", "start", "ready", "released"}
        => \A j \in Jobs : Unfinished(j) => j \in {sup.job, handoff}
    <3>1. sup.phase \in {"start", "ready"} => sup.phase \notin BeforeRecovery
      BY DEF BeforeRecovery
    <3>2. sup.phase = "recover" => Recovered \/ sup'.phase \notin {"resume", "start", "ready", "released"}
      BY <1>1, <1>4, <1>5 DEF Boot, Exec, StartNext, AllStarted, Ready, At
    <3> QED BY <2>1, <3>1, <3>2 DEF OneUnfinished
  <2> QED BY <1>2, <1>5, <2>2, <2>3 DEF OneUnfinished, BeforeRecovery
<1> QED BY <1>2, <1>3, <1>4, <1>5, <1>6, <1>7, QuietMove DEF JobsAreKnown, WaitPhases, ApplyPhases

LEMMA ReadinessMoves ==
    ASSUME SupervisorInvariant,
           \/ Resume /\ (sup.job = NoJob \/ Installable)
           \/ Released
           \/ Acknowledge /\ journal[sup.job].state = "rolled_back"
           \/ FinishRelaunch
           \/ Report /\ sup.exit = "none"
    PROVE  Control'
<1> USE DEF SupervisorInvariant
<1>1. UpdateTypeOK /\ GroupTypes /\ StatusTypes /\ sup \in SupRecords /\ handoff \in Jobs \cup {NoJob}
      /\ sup.job \in Jobs \cup {NoJob}
  BY TypesSplit DEF GroupTypes, UpdateTypeOK, SupRecords
<1>2. /\ sup.phase \in {"resume", "released", "ack", "finish", "report"}
      /\ UNCHANGED <<journal, staging, call>> /\ InboxKept
      /\ UNCHANGED <<handlers, mailbox, download>>
  BY DEF Resume, Released, Acknowledge, FinishRelaunch, Report, At, updateVars, disk, inbox, InboxKept
<1>3. Quiet /\ Quiet'
  BY <1>2 DEF CallFits, WaitPhases, Quiet
<1>4. sup.phase # "report" => download = NoJob /\ sup.job = handoff
  BY <1>2 DEF PhasesFit, Started
<1>5. \A j \in Jobs : Unfinished(j) => j \in {sup.job, handoff}
  BY <1>2 DEF OneUnfinished, BeforeRecovery
<1>6. \A j \in Jobs : Unfinished(j)' <=> Unfinished(j)
  BY <1>2 DEF Unfinished
<1>7. \A j \in Jobs : HasLauncher(j)' <=> HasLauncher(j)
  BY <1>2 DEF HasLauncher
<1>8. CASE Resume /\ (sup.job = NoJob \/ Installable)
  <2>1. SupIs("start", Group, sup.plan, sup.job, sup.target, sup.ready)
    BY <1>1, <1>8, GoTodoIs DEF Resume, Phases
  <2>2. handoff' = handoff /\ update' = update /\ sup.phase = "resume" /\ ~sup.ready
    BY <1>8 DEF Resume, disk, durable, At, PhasesFit, Serviced, AfterReady, ApplyPhases, RestartPhases
  <2>3. PhasesFit'
    BY <1>2, <1>4, <2>1, <2>2
       DEF SupIs, PhasesFit, Started, AfterReady, Serviced, ApplyPhases, RestartPhases, HasLauncher
  <2>4. OneUnfinished'
    BY <1>5, <1>6, <2>1, <2>2 DEF SupIs, OneUnfinished
  <2> QED BY <1>2, <1>3, <2>1, <2>2, <2>3, <2>4, QuietMove DEF JobsAreKnown, SupIs, WaitPhases, ApplyPhases
<1>9. CASE Released
  <2>1. PICK p \in {"ack", "serve"} : /\ sup' = [sup EXCEPT !.ready = TRUE, !.phase = p]
                                      /\ p = "ack" <=> sup.job # NoJob
    BY <1>9 DEF Released
  <2>2. SupIs(p, sup.todo, sup.plan, sup.job, sup.target, TRUE)
    BY <1>1, <2>1, ReadyIs DEF Phases
  <2>3. handoff' = handoff /\ sup.phase = "released"
    BY <1>9 DEF Released, updateVars, At
  <2>4. update' = update \/ update' = [update EXCEPT !.state = "failed"]
    BY <1>9 DEF Released
  <2>5. (update' = update \/ update'.state # "staged") /\ update'.job = update.job
    BY <1>1, <2>4 DEF StatusTypes
  <2>6. PhasesFit'
    BY <1>2, <1>4, <2>1, <2>2, <2>3
       DEF SupIs, PhasesFit, Started, AfterReady, Serviced, ApplyPhases, RestartPhases, HasLauncher
  <2>7. OneUnfinished'
    BY <1>5, <1>6, <2>2, <2>3 DEF SupIs, OneUnfinished
  <2> QED BY <1>2, <1>3, <2>2, <2>3, <2>5, <2>6, <2>7, QuietMove DEF JobsAreKnown, SupIs, WaitPhases, ApplyPhases
<1>10. CASE Acknowledge /\ journal[sup.job].state = "rolled_back"
  <2>1. SupIs("finish", sup.todo, sup.plan, sup.job, sup.target, sup.ready)
    BY <1>1, <1>10, GoIs DEF Acknowledge, Phases
  <2>2. handoff' = handoff /\ update' = update /\ sup.phase = "ack"
    BY <1>10 DEF Acknowledge, durable, At
  <2>3. sup.ready /\ sup.job # NoJob
    BY <2>2 DEF PhasesFit, AfterReady
  <2>4. PhasesFit'
    BY <1>2, <1>4, <1>10, <2>1, <2>2, <2>3
       DEF SupIs, PhasesFit, Started, AfterReady, Serviced, ApplyPhases, RestartPhases, HasLauncher
  <2>5. OneUnfinished'
    BY <1>5, <1>6, <2>1, <2>2 DEF SupIs, OneUnfinished
  <2> QED BY <1>2, <1>3, <2>1, <2>2, <2>3, <2>4, <2>5, QuietMove DEF JobsAreKnown, SupIs, WaitPhases, ApplyPhases
<1>11. CASE FinishRelaunch
  <2>1. SupIs("report", sup.todo, sup.plan, sup.job, sup.target, sup.ready)
    BY <1>1, <1>11, GoIs DEF FinishRelaunch, Phases
  <2>2. handoff' = NoJob /\ update' = update /\ sup.phase = "finish"
    BY <1>4, <1>11 DEF FinishRelaunch, Finish, durable, At
  <2>3. sup.job # NoJob /\ journal[sup.job].state \in {"rolled_back", "complete"}
    BY <2>2 DEF PhasesFit
  <2>4. \A j \in Jobs : ~Unfinished(j)
    BY <1>1, <1>4, <1>5, <2>2, <2>3 DEF Unfinished
  <2>5. PhasesFit'
    BY <1>2, <2>1, <2>2, <2>3
       DEF SupIs, PhasesFit, Started, AfterReady, Serviced, ApplyPhases, RestartPhases
  <2>6. OneUnfinished' /\ LauncherCanStart'
    BY <1>6, <2>4 DEF OneUnfinished, LauncherCanStart
  <2> QED BY <1>2, <1>3, <2>1, <2>2, <2>5, <2>6, QuietMove DEF JobsAreKnown, SupIs, WaitPhases, ApplyPhases
<1>12. CASE Report /\ sup.exit = "none"
  <2>1. SupIs("serve", {}, {}, NoJob, First, TRUE)
    BY <1>12, ServeIs DEF Report
  <2>2. handoff' = handoff /\ sup.phase = "report"
    BY <1>12 DEF Report, At
  <2>3. handoff = NoJob /\ sup.job # NoJob /\ journal[sup.job].state \in {"rolled_back", "complete"}
    BY <2>2 DEF PhasesFit
  <2>4. update'.state # "staged" /\ update'.job = sup.job
    BY <1>12 DEF Report, UpdateFinished
  <2>5. \A j \in Jobs : ~Unfinished(j)
    BY <1>1, <1>5, <2>3, ModuleUpdateAssumption DEF Unfinished
  <2>6. PhasesFit'
    BY <1>2, <2>1, <2>2, <2>3
       DEF SupIs, PhasesFit, Started, AfterReady, Serviced, ApplyPhases, RestartPhases
  <2>7. OneUnfinished'
    BY <1>6, <2>5 DEF OneUnfinished
  <2> QED BY <1>2, <1>3, <2>1, <2>2, <2>3, <2>4, <2>6, <2>7, QuietMove DEF SupIs, WaitPhases, ApplyPhases
<1> QED BY <1>8, <1>9, <1>10, <1>11, <1>12

(* The steps before readiness that begin or end an operation. *)
LEMMA RecoveryMoves ==
    ASSUME SupervisorInvariant,
           \/ Pre /\ journal' = journal
           \/ PreDone /\ call.fn = "ok"
           \/ ExecFails /\ RollbackRequest(handoff) /\ handoff # NoJob /\ Go("exec_wait")
           \/ ExecRestored /\ call.fn = "ok"
           \/ Recover
           \/ RecoverDone /\ call.fn = "ok"
    PROVE  Control'
<1> USE DEF SupervisorInvariant
<1>1. UpdateTypeOK /\ GroupTypes /\ StatusTypes /\ sup \in SupRecords /\ handoff \in Jobs \cup {NoJob}
      /\ sup.job \in Jobs \cup {NoJob}
  BY TypesSplit DEF GroupTypes, UpdateTypeOK, SupRecords
<1>2. /\ sup.phase \in {"pre", "pre_wait", "exec", "exec_wait", "recover", "recover_wait"}
      /\ UNCHANGED <<journal, staging, handoff>> /\ InboxKept
      /\ UNCHANGED <<handlers, mailbox, download>>
  BY DEF Pre, PreDone, ExecFails, ExecRestored, Recover, RecoverDone, At, disk, inbox, InboxKept
<1>3. download = NoJob /\ staging = NoJob /\ ~sup.ready
  BY <1>2, UnreadyHasNoDownload DEF PhasesFit, Serviced, AfterReady, ApplyPhases, RestartPhases, Started
<1>4. \A j \in Jobs : (Unfinished(j)' <=> Unfinished(j)) /\ (HasLauncher(j)' <=> HasLauncher(j))
  BY <1>2 DEF Unfinished, HasLauncher
<1>5. update' = update \/ (update'.state # "staged" /\ update'.job = call.job /\ RecoverDone)
  BY DEF Pre, PreDone, ExecFails, ExecRestored, Recover, RecoverDone, durable, UpdateFinished
<1>6. \E p \in {"pre_wait", "exec", "exec_wait", "recover_wait", "recover"} :
        SupIs(p, sup.todo, sup.plan, sup.job, sup.target, sup.ready)
  <2>1. CASE ExecRestored /\ call.fn = "ok"
    <3>1. SupIs("exec", sup.todo, sup.plan, sup.job, sup.target, sup.ready)
      BY <1>1, <2>1, GoExitIs DEF ExecRestored, Phases, Exits
    <3> QED BY <3>1
  <2>2. CASE ~(ExecRestored /\ call.fn = "ok")
    <3>1. PICK p \in {"pre_wait", "exec", "exec_wait", "recover_wait", "recover"} : Go(p)
      BY <2>2 DEF Pre, PreDone, ExecFails, Recover, RecoverDone
    <3>2. SupIs(p, sup.todo, sup.plan, sup.job, sup.target, sup.ready)
      BY <1>1, <3>1, GoIs DEF Phases
    <3> QED BY <3>2
  <2> QED BY <2>1, <2>2
<1>7. /\ sup'.phase = "recover" => sup.phase = "recover_wait" /\ sup.job = handoff
      /\ sup'.phase = "recover_wait" => sup.phase = "recover" /\ sup.job = handoff
      /\ sup'.phase = "recover_wait" => Recover
      /\ sup'.phase = "pre_wait" => RestoreLauncher
      /\ sup'.phase = "exec_wait" => handoff # NoJob /\ RollbackRequest(handoff)
      /\ sup'.phase \in {"exec", "recover"} => Quiet'
  <2>1. Go("exec") => sup'.phase # "recover"
    BY <1>1, GoIs DEF SupIs, Phases
  <2>2. CASE Pre /\ journal' = journal
    <3>1. Quiet
      BY <2>2 DEF Pre, At, CallFits, WaitPhases, Quiet
    <3>2. \/ Go("exec") /\ Quiet'
          \/ RestoreLauncher /\ Go("pre_wait")
      BY <2>2, <3>1 DEF Pre, TryOnce, NothingToRecover, Quiet
    <3> QED BY <1>1, <3>2, GoIs DEF SupIs, Phases
  <2>3. CASE PreDone /\ call.fn = "ok"
    BY <1>1, <2>3, GoIs, IdleIsQuiet DEF PreDone, SupIs, Phases
  <2>4. CASE ExecFails /\ RollbackRequest(handoff) /\ handoff # NoJob /\ Go("exec_wait")
    BY <1>1, <2>4, GoIs DEF SupIs, Phases
  <2>5. CASE ExecRestored /\ call.fn = "ok"
    BY <1>1, <2>5, GoExitIs, IdleIsQuiet DEF ExecRestored, SupIs, Phases, Exits
  <2>6. CASE Recover
    BY <1>1, <2>6, GoIs DEF Recover, At, SupIs, Phases, PhasesFit, Started
  <2>7. CASE RecoverDone /\ call.fn = "ok"
    BY <1>1, <2>7, GoIs, IdleIsQuiet DEF RecoverDone, At, SupIs, Phases, PhasesFit, Started
  <2> QED BY <2>2, <2>3, <2>4, <2>5, <2>6, <2>7
<1>8. /\ sup'.phase \in {"pre_wait", "exec_wait"} =>
          /\ call'.job = handoff /\ handoff # NoJob /\ call'.fn \in Rolling /\ call'.then = "ok"
      /\ sup'.phase = "recover_wait" =>
          /\ handoff = NoJob /\ call'.job \in Jobs /\ Settled(call'.job) /\ ~HasLauncher(call'.job)
          /\ call'.fn = "roll" /\ call'.then = "remark"
  <2>1. sup'.phase = "pre_wait" => call'.job = handoff /\ handoff # NoJob /\ call'.fn \in Rolling /\ call'.then = "ok"
    BY <1>7 DEF RestoreLauncher, Begin, Idle, Rolling
  <2>2. sup'.phase = "exec_wait" => call'.job = handoff /\ handoff # NoJob /\ call'.fn \in Rolling /\ call'.then = "ok"
    BY <1>1, <1>7, RollbackBegins DEF Rolling
  <2>3. ASSUME sup'.phase = "recover_wait"
        PROVE  /\ handoff = NoJob /\ call'.job \in Jobs /\ Settled(call'.job) /\ ~HasLauncher(call'.job)
               /\ call'.fn = "roll" /\ call'.then = "remark"
    <3>1. PICK j \in Jobs : Interrupted(j) /\ ~HasLauncher(j) /\ Begin("roll", j, "remark")
      BY <1>7, <2>3 DEF Recover
    <3>2. call'.job = j /\ call'.fn = "roll" /\ call'.then = "remark"
      BY <3>1 DEF Begin, Idle
    <3>3. Unfinished(j) /\ j # handoff
      BY <3>1 DEF Interrupted
    <3>4. handoff = NoJob
      BY <3>3 DEF OneUnfinished
    <3>5. Settled(j)
      BY <1>3, <3>3, ModuleUpdateAssumption DEF Unfinished, Settled, Past
    <3> QED BY <3>1, <3>2, <3>4, <3>5
  <2> QED BY <2>1, <2>2, <2>3
<1>9. handoff # NoJob => Settled(handoff)
  BY DEF JobsAreKnown
<1>10. PhasesFit'
  BY <1>1, <1>2, <1>3, <1>4, <1>6, <1>7, <1>8
     DEF SupIs, PhasesFit, Started, AfterReady, Serviced, ApplyPhases, RestartPhases
<1>11. OneUnfinished'
  BY <1>2, <1>4, <1>6 DEF SupIs, OneUnfinished, BeforeRecovery
<1>12. CallFits'
  <2>1. sup'.phase \in WaitPhases => call'.fn # "idle" /\ call'.job \in Jobs
    BY <1>1, <1>6, <1>8 DEF SupIs, WaitPhases, Rolling
  <2> QED BY <1>2, <1>4, <1>6, <1>7, <1>8, <2>1 DEF SupIs, CallFits, WaitPhases, Quiet, Rolling
<1>13. call'.job = NoJob \/ (call'.job \in Jobs /\ Settled(call'.job))
  BY <1>1, <1>6, <1>7, <1>8, <1>9 DEF SupIs, Quiet
<1>14. update'.job = NoJob => handoff' = NoJob /\ sup'.phase \notin ApplyPhases
  <2>1. RecoverDone => call.job \in Jobs
    BY DEF RecoverDone, At, CallFits, WaitPhases
  <2> QED BY <1>2, <1>5, <1>6, <2>1, ModuleUpdateAssumption DEF SupIs, JobsAreKnown, ApplyPhases
<1> QED BY <1>2, <1>5, <1>6, <1>10, <1>11, <1>12, <1>13, <1>14, MoveKeeps DEF SupIs

LEMMA StartupFailsIs ==
    ASSUME StartupFails, sup.job # NoJob, journal[sup.job].state # "complete"
    PROVE  /\ RollbackRequest(sup.job)
           /\ sup' = [sup EXCEPT !.phase = "unwind_wait", !.todo = {}]
           /\ StopServices(Group)
           /\ UNCHANGED <<durable, host, self, active, conf, previous, mailbox, download>>
BY DEF StartupFails

LEMMA UnwoundIs ==
    ASSUME Unwound, call.fn = "ok"
    PROVE  /\ sup' = [sup EXCEPT !.phase = "finish", !.exit = "relaunch"]
           /\ UNCHANGED <<durable, host, self, active, running, conf, previous, inbox>>
<1>1. ~(call.fn = "failed" /\ sup.ready)
  OBVIOUS
<1> QED BY <1>1, Zenon DEF Unwound

(* The rollback of a handoff before readiness, and the end of the transaction after it. *)
LEMMA UnwindMoves ==
    ASSUME SupervisorInvariant,
           \/ Resume /\ ~(sup.job = NoJob \/ Installable)
           \/ (StartFails \/ (Acknowledged /\ call.fn # "ok"))
              /\ sup.job # NoJob /\ journal[sup.job].state # "complete"
           \/ (Unwound \/ Acknowledged) /\ call.fn = "ok"
    PROVE  Control'
<1> USE DEF SupervisorInvariant
<1>1. UpdateTypeOK /\ GroupTypes /\ InboxTypes /\ sup \in SupRecords /\ handoff \in Jobs \cup {NoJob}
      /\ sup.job \in Jobs \cup {NoJob}
  BY TypesSplit DEF GroupTypes, UpdateTypeOK, SupRecords
<1> DEFINE Rolls == \/ Resume /\ ~(sup.job = NoJob \/ Installable)
                    \/ (StartFails \/ (Acknowledged /\ call.fn # "ok"))
                       /\ sup.job # NoJob /\ journal[sup.job].state # "complete"
           Ends == (Unwound \/ Acknowledged) /\ call.fn = "ok"
<1>0. (StartFails \/ (Acknowledged /\ call.fn # "ok")) => StartupFails
  BY DEF StartFails, Acknowledged
<1>2. /\ sup.phase \in {"resume", "start", "ack_wait", "resume_wait", "unwind_wait"}
      /\ UNCHANGED <<journal, staging, handoff, update>>
  <2>1. UNCHANGED durable
    BY <1>0, StartupFailsIs, UnwoundIs DEF Resume, Acknowledged
  <2> QED BY <2>1 DEF Resume, StartFails, Acknowledged, Unwound, At, disk, durable
<1>3. sup.job = handoff /\ download = NoJob /\ sup.phase \in Started
  BY <1>2 DEF PhasesFit, Started
<1>4. handlers' \in {handlers, NoHandlers} /\ UNCHANGED <<mailbox, download>>
  BY <1>0, <1>1, StopServicesIs, StartupFailsIs, UnwoundIs DEF Resume, Acknowledged, inbox
<1>5. sup.job \in Jobs
  BY <1>1, <1>2 DEF PhasesFit, Resume, StartFails, Acknowledged, Unwound, At
<1>6. \A j \in Jobs : (Unfinished(j)' <=> Unfinished(j)) /\ (HasLauncher(j)' <=> HasLauncher(j))
  BY <1>2 DEF Unfinished, HasLauncher
<1>7. ASSUME Rolls
      PROVE  /\ \E p \in {"resume_wait", "unwind_wait"}, t \in SUBSET Group :
                   /\ SupIs(p, t, sup.plan, sup.job, sup.target, sup.ready)
                   /\ p = "resume_wait" => sup.phase = "resume"
             /\ RollbackRequest(sup.job)
  <2>1. CASE Resume /\ ~(sup.job = NoJob \/ Installable)
    <3>1. Go("resume_wait") /\ RollbackRequest(sup.job) /\ sup.phase = "resume"
      BY <2>1 DEF Resume, At
    <3>2. SupIs("resume_wait", sup.todo, sup.plan, sup.job, sup.target, sup.ready)
      BY <1>1, <3>1, GoIs DEF Phases
    <3> QED BY <1>1, <3>1, <3>2 DEF SupRecords
  <2>2. CASE (StartFails \/ (Acknowledged /\ call.fn # "ok"))
             /\ sup.job # NoJob /\ journal[sup.job].state # "complete"
    <3>1. sup' = [sup EXCEPT !.phase = "unwind_wait", !.todo = {}] /\ RollbackRequest(sup.job)
      BY <1>0, <2>2, StartupFailsIs
    <3>2. SupIs("unwind_wait", {}, sup.plan, sup.job, sup.target, sup.ready)
      BY <1>1, <3>1, GoTodoIs DEF Phases
    <3> QED BY <3>1, <3>2
  <2> QED BY <1>7, <2>1, <2>2
<1>8. ASSUME Ends
      PROVE  /\ SupIs("finish", sup.todo, sup.plan, sup.job, sup.target, sup.ready)
             /\ Quiet' /\ journal[sup.job].state \in {"rolled_back", "complete"}
  <2>1. CASE Unwound /\ call.fn = "ok"
    <3>1. SupIs("finish", sup.todo, sup.plan, sup.job, sup.target, sup.ready)
      BY <1>1, <2>1, GoExitIs DEF Unwound, Phases, Exits
    <3> QED BY <2>1, <3>1, IdleIsQuiet DEF Unwound, CallFits
  <2>2. CASE Acknowledged /\ call.fn = "ok"
    <3>1. SupIs("finish", sup.todo, sup.plan, sup.job, sup.target, sup.ready)
      BY <1>1, <2>2, GoIs DEF Acknowledged, Phases
    <3> QED BY <2>2, <3>1, IdleIsQuiet DEF Acknowledged, At, CallFits
  <2> QED BY <1>8, <2>1, <2>2
<1>9. sup.ready => sup.phase # "resume"
  BY DEF PhasesFit, Serviced, AfterReady, ApplyPhases, RestartPhases
<1>10. ~sup.ready => handlers = NoHandlers /\ mailbox = NoMail
  BY DEF PhasesFit, NoHandlers
<1>11. ASSUME Rolls PROVE PhasesFit' /\ CallFits' /\ OneUnfinished'
  <2>1. PICK p \in {"resume_wait", "unwind_wait"}, t \in SUBSET Group :
           /\ SupIs(p, t, sup.plan, sup.job, sup.target, sup.ready)
           /\ p = "resume_wait" => sup.phase = "resume"
    BY <1>7, <1>11
  <2>2. /\ call'.job = sup.job /\ call'.then = "ok" /\ call'.fn \in {"roll", "ok", "failed"}
        /\ call'.fn = "ok" => journal[sup.job].state = "rolled_back"
    BY <1>5, <1>7, <1>11, RollbackBegins
  <2>3. PhasesFit'
    BY <1>2, <1>3, <1>4, <1>5, <1>6, <1>9, <1>10, <2>1, ModuleUpdateAssumption
       DEF SupIs, PhasesFit, Started, AfterReady, Serviced, ApplyPhases, RestartPhases, NoHandlers
  <2>4. CallFits'
    BY <1>2, <1>5, <2>1, <2>2 DEF SupIs, CallFits, WaitPhases, Rolling
  <2>5. OneUnfinished'
    BY <1>2, <1>3, <1>6, <2>1 DEF SupIs, OneUnfinished, BeforeRecovery, Started
  <2> QED BY <2>3, <2>4, <2>5
<1>12. ASSUME Ends PROVE PhasesFit' /\ CallFits' /\ OneUnfinished'
  <2>1. SupIs("finish", sup.todo, sup.plan, sup.job, sup.target, sup.ready)
    BY <1>8, <1>12
  <2>2. Quiet' /\ journal[sup.job].state \in {"rolled_back", "complete"}
    BY <1>8, <1>12
  <2>3. PhasesFit'
    BY <1>2, <1>3, <1>4, <1>5, <1>6, <1>10, <2>1, <2>2, ModuleUpdateAssumption
       DEF SupIs, PhasesFit, Started, AfterReady, Serviced, ApplyPhases, RestartPhases, NoHandlers
  <2>4. CallFits'
    BY <2>1, <2>2 DEF SupIs, CallFits, WaitPhases, Quiet
  <2>5. OneUnfinished'
    BY <1>2, <1>3, <1>6, <2>1 DEF SupIs, OneUnfinished, BeforeRecovery
  <2> QED BY <2>3, <2>4, <2>5
<1>13. sup'.job = sup.job /\ sup'.ready = sup.ready /\ sup'.phase \notin ApplyPhases
  BY <1>7, <1>8 DEF SupIs, ApplyPhases
<1>14. call'.job = NoJob \/ (call'.job \in Jobs /\ Settled(call'.job))
  <2>1. Rolls => call'.job = sup.job
    BY <1>5, <1>7, RollbackBegins
  <2>2. Ends => call'.job = NoJob
    BY <1>8 DEF Quiet
  <2>3. Settled(sup.job)
    BY <1>5, ModuleUpdateAssumption DEF JobsAreKnown
  <2> QED BY <1>5, <2>1, <2>2, <2>3
<1> QED BY <1>2, <1>4, <1>11, <1>12, <1>13, <1>14, MoveKeeps DEF InboxKept, JobsAreKnown

(* The new launcher is tried, or committed: the journal says so first. *)
LEMMA CommitMoves ==
    ASSUME SupervisorInvariant,
           \/ Pre /\ TryOnce /\ Go("exec")
           \/ Acknowledge /\ journal[sup.job].state # "rolled_back"
           \/ UCommit
    PROVE  Control'
<1> USE DEF SupervisorInvariant
<1>1. UpdateTypeOK /\ GroupTypes /\ sup \in SupRecords /\ handoff \in Jobs \cup {NoJob}
      /\ sup.job \in Jobs \cup {NoJob} /\ journal \in [Jobs -> Entries]
  BY TypesSplit DEF GroupTypes, UpdateTypeOK, SupRecords
<1>2. /\ sup.phase \in {"pre", "ack", "u_start"}
      /\ UNCHANGED <<staging, handoff, update>> /\ InboxKept /\ UNCHANGED <<handlers, mailbox, download>>
  BY DEF Pre, Acknowledge, UCommit, At, durable, inbox, InboxKept
<1>3. CASE Pre /\ TryOnce /\ Go("exec")
  <2>1. handoff \in Jobs /\ journal[handoff] \in Entries /\ [journal[handoff] EXCEPT !.booted = TRUE] \in Entries
    BY <1>1, <1>3 DEF TryOnce, Entries
  <2>2. SameJobs
    <3>1. journal' = [journal EXCEPT ![handoff] = [journal[handoff] EXCEPT !.booted = TRUE]]
      BY <1>3 DEF TryOnce, CountBoot, save_job
    <3> QED BY <1>1, <2>1, <3>1 DEF SameJobs, Entries
  <2>3. SupIs("exec", sup.todo, sup.plan, sup.job, sup.target, sup.ready) /\ sup.phase = "pre"
    BY <1>1, <1>3, GoIs DEF Phases, Pre, At
  <2>4. Quiet /\ Quiet' /\ ~sup.ready
    BY <1>3, <2>3 DEF TryOnce, CallFits, WaitPhases, Quiet, PhasesFit, Serviced, AfterReady, ApplyPhases, RestartPhases
  <2>5. PhasesFit'
    BY <1>1, <1>2, <2>2, <2>3, <2>4, SameJobsAreKept
       DEF SupIs, PhasesFit, Started, AfterReady, Serviced, ApplyPhases, RestartPhases
  <2>6. CallFits'
    BY <2>3, <2>4 DEF SupIs, CallFits, WaitPhases, Quiet
  <2>7. OneUnfinished'
    BY <1>2, <2>2, <2>3, SameJobsAreKept DEF SupIs, OneUnfinished, BeforeRecovery
  <2> QED BY <1>2, <2>2, <2>3, <2>4, <2>5, <2>6, <2>7, SavedMoveKeeps DEF SupIs, Quiet, JobsAreKnown, ApplyPhases
<1>4. CASE (Acknowledge /\ journal[sup.job].state # "rolled_back") \/ UCommit
  <2>1. CommitRequest(sup.job)
    BY <1>4 DEF Acknowledge, UCommit
  <2>2. sup.job \in Jobs
    BY <1>1, <1>4 DEF PhasesFit, Acknowledge, UCommit, At, ApplyPhases
  <2>3. /\ call'.job = sup.job /\ call'.fn \in {"baseline", "ok", "failed"}
        /\ call'.fn = "ok" => journal[sup.job].state = "complete"
        /\ \/ journal' = journal
           \/ /\ journal[sup.job].state = "installed"
              /\ journal' = [journal EXCEPT ![sup.job] = [journal[sup.job] EXCEPT !.metadataApplied = TRUE]]
    BY <1>1, <2>1, <2>2, CommitBegins
  <2>4. SameJobs
    <3>1. [journal[sup.job] EXCEPT !.metadataApplied = TRUE] \in Entries /\ journal[sup.job] \in Entries
      BY <1>1, <2>2 DEF Entries
    <3> QED BY <1>1, <2>2, <2>3, <3>1 DEF SameJobs, Entries
  <2>5. PICK p \in {"ack_wait", "u_commit"} :
          /\ Go(p)
          /\ \/ p = "ack_wait" /\ sup.phase = "ack"
             \/ p = "u_commit" /\ sup.phase = "u_start"
    BY <1>4 DEF Acknowledge, UCommit, At
  <2>6. SupIs(p, sup.todo, sup.plan, sup.job, sup.target, sup.ready)
    BY <1>1, <2>5, GoIs DEF Phases
  <2>7. PhasesFit'
    BY <1>1, <1>2, <2>2, <2>4, <2>5, <2>6, SameJobsAreKept, ModuleUpdateAssumption
       DEF SupIs, PhasesFit, Started, AfterReady, Serviced, ApplyPhases, RestartPhases
  <2>8. CallFits'
    BY <2>2, <2>3, <2>4, <2>5, <2>6 DEF SupIs, CallFits, WaitPhases, SameJobs
  <2>9. OneUnfinished'
    BY <1>2, <2>4, <2>5, <2>6, SameJobsAreKept DEF SupIs, OneUnfinished, BeforeRecovery
  <2>10. Settled(sup.job)
    BY <2>2, ModuleUpdateAssumption DEF JobsAreKnown
  <2>11. sup.phase = "u_start" => update.job # NoJob
    BY DEF JobsAreKnown, ApplyPhases
  <2> QED BY <1>2, <2>2, <2>3, <2>4, <2>5, <2>6, <2>7, <2>8, <2>9, <2>10, <2>11, SavedMoveKeeps
             DEF SupIs, JobsAreKnown, ApplyPhases
<1> QED BY <1>3, <1>4 DEF Pre

(* The phases of an update between its operations. *)
LEMMA UpdateQuietMoves ==
    ASSUME SupervisorInvariant,
           UStart \/ UCommitted \/ URestored \/ UUndone \/ (UApplied /\ ~HasLauncher(sup.job))
    PROVE  Control'
<1> USE DEF SupervisorInvariant
<1>1. UpdateTypeOK /\ GroupTypes /\ sup \in SupRecords /\ handoff \in Jobs \cup {NoJob}
      /\ sup.job \in Jobs \cup {NoJob}
  BY TypesSplit DEF GroupTypes, UpdateTypeOK, SupRecords
<1>2. /\ sup.phase \in {"u_start", "u_restore", "u_commit", "u_undo", "u_apply"}
      /\ UNCHANGED <<journal, staging, update>> /\ InboxKept /\ UNCHANGED <<handlers, mailbox, download>>
  BY DEF UStart, UCommitted, URestored, UUndone, UApplied, At, updateVars, disk, durable, inbox, InboxKept
<1>3. sup.job \in Jobs /\ sup.ready /\ update.job # NoJob
  BY <1>1, <1>2 DEF PhasesFit, ApplyPhases, AfterReady, JobsAreKnown
<1>4. \A j \in Jobs : (Unfinished(j)' <=> Unfinished(j)) /\ (HasLauncher(j)' <=> HasLauncher(j))
  BY <1>2 DEF Unfinished, HasLauncher
<1>5. \A j \in Jobs : Unfinished(j) => j = sup.job
  BY <1>1, <1>2, ModuleUpdateAssumption DEF OneUnfinished, BeforeRecovery, PhasesFit
<1>6. Quiet'
  <2>1. UStart \/ URestored => Quiet /\ call' = call
    BY DEF UStart, URestored, At, updateVars, CallFits, WaitPhases, Quiet
  <2>2. UCommitted \/ UUndone \/ UApplied => Quiet'
    BY IdleIsQuiet DEF UCommitted, UUndone, UApplied
  <2> QED BY <2>1, <2>2 DEF Quiet
<1>7. handoff \in {NoJob, sup.job} /\ handoff' \in {handoff, NoJob}
  BY <1>2 DEF PhasesFit, UStart, UCommitted, URestored, UUndone, UApplied, updateVars, disk, Finish
<1>8. \E p \in {"u_start", "u_restore", "report"}, t \in SUBSET Group :
        /\ SupIs(p, t, sup.plan, sup.job, sup.target, sup.ready)
        /\ p # "u_start" => journal[sup.job].state \in {"rolled_back", "complete"}
        /\ handoff' = NoJob
  <2>1. CASE UStart
    <3>1. PICK s \in sup.todo : StartService(s, conf[s])
      BY <2>1 DEF UStart
    <3>2. conf[s] \in Configs /\ sup.todo \ {s} \in SUBSET Group
      BY <1>1 DEF GroupTypes, SupRecords
    <3>3. SupIs(sup.phase, sup.todo \ {s}, sup.plan, sup.job, sup.target, sup.ready)
      BY <1>1, <3>1, <3>2, StartServiceIs
    <3>4. sup.phase \in {"u_start", "u_restore"} /\ handoff' = handoff
      BY <2>1 DEF UStart, updateVars
    <3> QED BY <3>2, <3>3, <3>4 DEF PhasesFit
  <2>2. CASE UCommitted \/ URestored
    <3>1. SupIs("report", sup.todo, sup.plan, sup.job, sup.target, sup.ready)
      BY <1>1, <2>2, GoIs DEF UCommitted, URestored, Phases
    <3>2. handoff' = handoff /\ sup.phase \in {"u_commit", "u_restore"} /\ sup.todo \in SUBSET Group
      BY <1>1, <2>2 DEF UCommitted, URestored, At, updateVars, disk, SupRecords
    <3>3. journal[sup.job].state \in {"rolled_back", "complete"}
      BY <2>2 DEF UCommitted, URestored, At, CallFits, PhasesFit
    <3> QED BY <3>1, <3>2, <3>3 DEF PhasesFit
  <2>3. CASE UUndone
    <3>1. PICK t \in SUBSET Group : sup' = [sup EXCEPT !.phase = "u_restore", !.todo = t]
      BY <1>1, <2>3 DEF UUndone, SupRecords
    <3>2. SupIs("u_restore", t, sup.plan, sup.job, sup.target, sup.ready)
      BY <1>1, <3>1, GoTodoIs DEF Phases
    <3>3. journal[sup.job].state = "rolled_back" /\ handoff' = NoJob
      BY <1>7, <2>3 DEF UUndone, At, CallFits, Finish
    <3> QED BY <3>2, <3>3
  <2>4. CASE UApplied /\ ~HasLauncher(sup.job)
    <3>1. sup.plan \in SUBSET Group
      BY <1>1 DEF SupRecords
    <3>2. SupIs("u_start", sup.plan, sup.plan, sup.job, sup.target, sup.ready)
      BY <1>1, <2>4, <3>1, GoTodoIs DEF UApplied, Phases
    <3>3. handoff' = NoJob
      BY <1>7, <2>4 DEF UApplied, PhasesFit
    <3> QED BY <3>1, <3>2, <3>3
  <2> QED BY <2>1, <2>2, <2>3, <2>4
<1>9. PICK p \in {"u_start", "u_restore", "report"}, t \in SUBSET Group :
        /\ SupIs(p, t, sup.plan, sup.job, sup.target, sup.ready)
        /\ p # "u_start" => journal[sup.job].state \in {"rolled_back", "complete"}
        /\ handoff' = NoJob
  BY <1>8
<1>10. handoff' = handoff \/ LauncherCanStart'
  <2>1. CASE UUndone
    <3>1. journal[sup.job].state = "rolled_back"
      BY <2>1 DEF UUndone, At, CallFits
    <3> QED BY <1>4, <1>5, <3>1 DEF LauncherCanStart, Unfinished
  <2>2. CASE ~UUndone
    BY <2>2 DEF UStart, UCommitted, URestored, UApplied, updateVars, disk
  <2> QED BY <2>1, <2>2
<1>11. PhasesFit'
  BY <1>2, <1>3, <1>9, ModuleUpdateAssumption
     DEF SupIs, PhasesFit, Started, AfterReady, Serviced, ApplyPhases, RestartPhases
<1>12. OneUnfinished'
  BY <1>4, <1>5, <1>9 DEF SupIs, OneUnfinished, BeforeRecovery
<1>13. CallFits'
  BY <1>6, <1>9 DEF SupIs, CallFits, WaitPhases, Quiet
<1> QED BY <1>2, <1>3, <1>6, <1>7, <1>9, <1>10, <1>11, <1>12, <1>13, MoveKeeps DEF SupIs, Quiet

LEMMA FailUpdateIs ==
    ASSUME SupervisorInvariant, FailUpdate, sup.phase \in ApplyPhases
    PROVE  /\ sup.job \in Jobs
           /\ \/ /\ SupIs("report", sup.todo, sup.plan, sup.job, sup.target, sup.ready) /\ Quiet'
                 /\ journal[sup.job].state = "complete"
              \/ /\ SupIs("u_undo", {}, sup.plan, sup.job, sup.target, sup.ready)
                 /\ call'.job = sup.job /\ call'.then = "ok" /\ call'.fn \in {"roll", "ok", "failed"}
                 /\ call'.fn = "ok" => journal[sup.job].state = "rolled_back"
<1> USE DEF SupervisorInvariant
<1>1. sup \in SupRecords /\ sup.job \in Jobs
  BY TypesSplit DEF GroupTypes, SupRecords, PhasesFit
<1>2. CASE journal[sup.job].state = "complete"
  BY <1>1, <1>2, GoIs, IdleIsQuiet DEF FailUpdate, Phases
<1>3. CASE journal[sup.job].state # "complete"
  <2>1. RollbackRequest(sup.job) /\ sup' = [sup EXCEPT !.phase = "u_undo", !.todo = {}]
    BY <1>3 DEF FailUpdate
  <2>2. SupIs("u_undo", {}, sup.plan, sup.job, sup.target, sup.ready)
    BY <1>1, <2>1, GoTodoIs DEF Phases
  <2> QED BY <1>1, <2>1, <2>2, RollbackBegins
<1> QED BY <1>2, <1>3

(* The phases that begin the operations of an update. *)
LEMMA UpdateMoves ==
    ASSUME SupervisorInvariant, UStop \/ UFails \/ UNotApplied \/ UPrepare \/ USignal
    PROVE  Control'
<1> USE DEF SupervisorInvariant
<1>1. UpdateTypeOK /\ GroupTypes /\ InboxTypes /\ sup \in SupRecords /\ handoff \in Jobs \cup {NoJob}
      /\ sup.job \in Jobs \cup {NoJob}
  BY TypesSplit DEF GroupTypes, UpdateTypeOK, SupRecords
<1>2. /\ sup.phase \in {"u_stop", "u_start", "u_apply", "u_commit", "u_prepare"}
      /\ UNCHANGED <<journal, staging, update, mailbox, download>>
  BY DEF UStop, UFails, UNotApplied, UPrepare, USignal, At, disk, durable
<1>3. sup.job \in Jobs /\ sup.ready /\ update.job # NoJob
  BY <1>1, <1>2 DEF PhasesFit, ApplyPhases, AfterReady, JobsAreKnown
<1>4. \A j \in Jobs : (Unfinished(j)' <=> Unfinished(j)) /\ (HasLauncher(j)' <=> HasLauncher(j))
  BY <1>2 DEF Unfinished, HasLauncher
<1>5. \A j \in Jobs : Unfinished(j) => j = sup.job
  BY <1>1, <1>2, ModuleUpdateAssumption DEF OneUnfinished, BeforeRecovery, PhasesFit
<1>6. handlers' \in {handlers, NoHandlers}
  <2>1. FailUpdate => handlers' \in {handlers, NoHandlers}
    BY <1>1, StopServicesIs DEF FailUpdate
  <2> QED BY <1>1, <2>1, StopServicesIs DEF UStop, UFails, UNotApplied, UPrepare, USignal
<1>7. handoff \in {NoJob, sup.job} /\ (sup.phase # "u_apply" => handoff = NoJob)
  BY <1>2 DEF PhasesFit
<1>8. Settled(sup.job)
  BY <1>3, ModuleUpdateAssumption DEF JobsAreKnown
<1> DEFINE Undoes ==
              /\ SupIs("u_undo", sup'.todo, sup.plan, sup.job, sup.target, sup.ready)
              /\ call'.job = sup.job /\ call'.then = "ok" /\ call'.fn \in {"roll", "ok", "failed"}
              /\ call'.fn = "ok" => journal[sup.job].state = "rolled_back"
              /\ handoff' = handoff
           Reports ==
              /\ SupIs("report", sup.todo, sup.plan, sup.job, sup.target, sup.ready) /\ Quiet'
              /\ journal[sup.job].state = "complete" /\ handoff' = NoJob /\ handoff = NoJob
           Prepares ==
              /\ SupIs("u_prepare", sup.todo, sup.plan, sup.job, sup.target, sup.ready) /\ Quiet'
              /\ handoff' = NoJob /\ handoff = NoJob
           Applies ==
              /\ SupIs("u_apply", sup.todo, sup.plan, sup.job, sup.target, sup.ready)
              /\ call'.job = sup.job /\ call'.fn = "apply" /\ call'.then = "ok"
              /\ handoff = NoJob
              /\ IF HasLauncher(sup.job) THEN handoff' = sup.job /\ journal[sup.job].state # "complete"
                                         ELSE handoff' = NoJob
<1>9. Undoes \/ Reports \/ Prepares \/ Applies
  <2>1. ASSUME FailUpdate, handoff' = handoff PROVE Undoes \/ Reports
    <3>1. journal[sup.job].state = "complete" => handoff = NoJob
      BY <1>2, <1>7 DEF CallFits
    <3> QED BY <1>2, <2>1, <3>1, FailUpdateIs DEF ApplyPhases, SupIs
  <2>2. CASE UFails \/ UNotApplied
    BY <2>1, <2>2 DEF UFails, UNotApplied, disk
  <2>3. CASE UStop
    <3>1. CASE HasLauncher(sup.job)
      <4>1. Go("u_prepare") /\ call' = call /\ sup.phase = "u_stop" /\ handoff' = handoff
        BY <2>3, <3>1 DEF UStop, At, disk
      <4>2. Quiet'
        BY <4>1 DEF CallFits, WaitPhases, Quiet
      <4> QED BY <1>1, <1>7, <4>1, <4>2, GoIs DEF Phases
    <3>2. CASE ~HasLauncher(sup.job)
      <4>1. Go("u_apply") /\ Begin("apply", sup.job, "ok") /\ sup.phase = "u_stop" /\ handoff' = handoff
        BY <2>3, <3>2 DEF UStop, At, disk
      <4>2. SupIs("u_apply", sup.todo, sup.plan, sup.job, sup.target, sup.ready)
        BY <1>1, <4>1, GoIs DEF Phases
      <4>3. call'.job = sup.job /\ call'.fn = "apply" /\ call'.then = "ok"
        BY <4>1 DEF Begin, Idle
      <4> QED BY <1>7, <3>2, <4>1, <4>2, <4>3
    <3> QED BY <3>1, <3>2
  <2>4. CASE UPrepare
    <3>1. CASE Relaunchable(sup.job)
      <4>1. Go("u_apply") /\ Begin("apply", sup.job, "ok") /\ sup.phase = "u_prepare" /\ handoff' = sup.job
        BY <2>4, <3>1 DEF UPrepare, At
      <4>2. SupIs("u_apply", sup.todo, sup.plan, sup.job, sup.target, sup.ready)
        BY <1>1, <4>1, GoIs DEF Phases
      <4>3. call'.job = sup.job /\ call'.fn = "apply" /\ call'.then = "ok"
        BY <4>1 DEF Begin, Idle
      <4>4. HasLauncher(sup.job) /\ journal[sup.job].state # "complete"
        BY <3>1 DEF Relaunchable
      <4> QED BY <1>7, <4>1, <4>2, <4>3, <4>4
    <3>2. CASE ~Relaunchable(sup.job)
      BY <2>1, <2>4, <3>2 DEF UPrepare
    <3> QED BY <3>1, <3>2
  <2>5. CASE USignal
    <3>1. RollbackRequest(sup.job) /\ sup' = [sup EXCEPT !.phase = "u_undo", !.exit = "stopped"] /\ handoff' = handoff
      BY <2>5 DEF USignal, disk
    <3>2. SupIs("u_undo", sup.todo, sup.plan, sup.job, sup.target, sup.ready)
      BY <1>1, <3>1, GoExitIs DEF Phases, Exits
    <3> QED BY <1>3, <3>1, <3>2, RollbackBegins DEF SupIs
  <2> QED BY <2>2, <2>3, <2>4, <2>5
<1>10. sup'.job = sup.job /\ sup'.ready = sup.ready /\ call'.job \in {NoJob, sup.job}
       /\ handoff' \in {handoff, NoJob, sup.job} /\ (handoff' = handoff \/ Applies)
  BY <1>7, <1>9 DEF SupIs, Quiet
<1>11. PhasesFit'
  <2>1. handoff' # NoJob => HasLauncher(handoff')
    BY <1>7, <1>9 DEF PhasesFit
  <2> QED BY <1>2, <1>3, <1>4, <1>7, <1>9, <2>1, ModuleUpdateAssumption
             DEF SupIs, PhasesFit, Started, AfterReady, Serviced, ApplyPhases, RestartPhases, HasLauncher
<1>12. CallFits'
  BY <1>2, <1>3, <1>4, <1>9, ModuleUpdateAssumption DEF SupIs, CallFits, WaitPhases, Rolling, Quiet
<1>13. OneUnfinished'
  BY <1>4, <1>5, <1>7, <1>9 DEF SupIs, OneUnfinished, BeforeRecovery
<1>14. handoff' = handoff \/ LauncherCanStart'
  BY <1>4, <1>5, <1>10 DEF LauncherCanStart
<1> QED BY <1>2, <1>3, <1>6, <1>8, <1>10, <1>11, <1>12, <1>13, <1>14, MoveKeeps DEF InboxKept

(* A step that leaves the jobs alone, whatever it does to the requests. *)
LEMMA RequestStepKeeps ==
    ASSUME SupervisorInvariant, UNCHANGED <<journal, staging, handoff, call>>,
           download' = download \/ (download' = NoJob /\ staging = NoJob),
           sup.ready => sup'.ready,
           sup'.job \in {sup.job, NoJob} \/ (sup'.job \in Jobs /\ Settled(sup'.job)),
           (update.state = "staged" => Settled(update.job))',
           update'.job = NoJob => (handoff = NoJob /\ sup'.phase \notin ApplyPhases),
           RequestsAreKnown', PhasesFit', CallFits', OneUnfinished'
    PROVE  Control'
<1> USE DEF SupervisorInvariant
<1>1. \A j \in Jobs : Settled(j) => Settled(j)'
  BY ModuleUpdateAssumption DEF Settled, Past
<1>2. \A j \in {sup'.job, handoff', call'.job} : j # NoJob => j \in Jobs /\ Settled(j)
  BY DEF JobsAreKnown, Settled, Past
<1>3. LauncherCanStart'
  BY DEF LauncherCanStart, Unfinished, HasLauncher
<1>4. JobsAreKnown'
  <2>1. (\A j \in {sup.job, handoff, call.job} : j # NoJob => Settled(j))'
    BY <1>1, <1>2
  <2>2. (staging # NoJob => staging = download)' /\ (download # NoJob => sup.ready)'
    BY DEF JobsAreKnown
  <2> QED BY <2>1, <2>2 DEF JobsAreKnown
<1> QED BY <1>3, <1>4 DEF Control

LEMMA RestartMoves ==
    ASSUME SupervisorInvariant,
           \/ TakeRestart \/ RStart \/ RFails \/ RDone \/ RRestore \/ RRestored
           \/ RStop /\ ~restart.manager
    PROVE  Control'
<1> USE DEF SupervisorInvariant
<1>1. UpdateTypeOK /\ GroupTypes /\ InboxTypes /\ sup \in SupRecords
  BY TypesSplit DEF GroupTypes
<1>2. /\ sup.phase \in {"serve", "r_stop", "r_start", "r_restore"}
      /\ UNCHANGED <<journal, staging, handoff, call, update, download>>
  BY DEF TakeRestart, RStart, RFails, RDone, RRestore, RRestored, RStop, Serving, At, updateVars, disk, durable, inbox
<1>3. sup.job = NoJob /\ handoff = NoJob /\ sup.ready /\ Quiet
  BY <1>2 DEF PhasesFit, RestartPhases, AfterReady, CallFits, WaitPhases, Quiet
<1>4. handlers' \in {handlers, NoHandlers} /\ mailbox'.update = mailbox.update
      /\ mailbox'.restart.kind \in {"none", "restart"}
  <2>1. CASE TakeRestart
    <3>1. mailbox' = [mailbox EXCEPT !.restart = NoRequest] /\ handlers' = handlers
      BY <2>1 DEF TakeRestart
    <3> QED BY <1>1, <3>1 DEF InboxTypes, NoRequest
  <2>2. CASE ~TakeRestart
    <3>1. mailbox' = mailbox /\ handlers' \in {handlers, NoHandlers}
      BY <1>1, <2>2, StopServicesIs DEF RStart, RFails, RDone, RRestore, RRestored, RStop, inbox
    <3> QED BY <3>1 DEF RequestsAreKnown
  <2> QED BY <2>1, <2>2
<1>5. sup'.ready /\ sup'.job = NoJob /\ sup'.phase \in {"serve", "r_stop", "r_start", "r_restore"}
  <2>1. CASE TakeRestart
    <3>1. \/ sup' = sup
          \/ sup' = [sup EXCEPT !.phase = "r_stop", !.target = mailbox.restart.config,
                       !.plan = restart_plan(active, mailbox.restart.config, mailbox.restart.mode)]
      BY <2>1 DEF TakeRestart
    <3> QED BY <1>1, <1>2, <1>3, <3>1 DEF SupRecords
  <2>2. CASE RStart \/ RRestore
    <3>1. PICK s \in sup.todo : StartService(s, sup.target) \/ StartService(s, previous[s])
      BY <2>2 DEF RStart, RRestore
    <3>2. sup' = [sup EXCEPT !.todo = @ \ {s}]
      BY <3>1 DEF StartService
    <3> QED BY <1>1, <1>2, <1>3, <3>2 DEF SupRecords
  <2>3. CASE RDone \/ RRestored
    BY <2>3, ServeIs DEF RDone, RRestored, SupIs
  <2>4. CASE RFails \/ (RStop /\ ~restart.manager)
    <3>1. PICK p \in {"r_start", "r_restore"} : sup' = [sup EXCEPT !.phase = p, !.todo = sup.plan]
      BY <2>4 DEF RFails, RStop, ToRestore
    <3> QED BY <1>1, <1>3, <3>1 DEF SupRecords
  <2> QED BY <2>1, <2>2, <2>3, <2>4
<1>6. RequestsAreKnown'
  <2>1. \A j \in Jobs : (Settled(j)' <=> Settled(j))
    BY <1>2 DEF Settled, Past
  <2>2. \A r : Announceable(r)' <=> Announceable(r)
    BY <1>2 DEF Announceable
  <2>3. CASE handlers' = handlers
    BY <1>2, <1>4, <2>3 DEF RequestsAreKnown, Announceable, Settled, Past
  <2>4. CASE handlers' = NoHandlers
    <3>1. \A a \in Admins : handlers'[a] = NoHandler
      BY <2>4 DEF NoHandlers
    <3>2. NoHandler.request.kind = "none" /\ NoHandler.step = "idle"
      BY DEF NoHandler, NoRequest
    <3> QED BY <1>2, <1>4, <3>1, <3>2 DEF RequestsAreKnown, Announceable, Settled, Past
  <2> QED BY <1>4, <2>3, <2>4
<1>7. PhasesFit'
  BY <1>2, <1>3, <1>5, ModuleUpdateAssumption
     DEF PhasesFit, Started, AfterReady, Serviced, ApplyPhases, RestartPhases
<1>8. CallFits'
  BY <1>2, <1>3, <1>5 DEF CallFits, WaitPhases, Quiet
<1>9. OneUnfinished'
  BY <1>2, <1>3, <1>5 DEF OneUnfinished, BeforeRecovery, Unfinished
<1>10. (update.state = "staged" => Settled(update.job))'
  BY <1>2 DEF JobsAreKnown, Settled, Past
<1> QED BY <1>2, <1>3, <1>5, <1>6, <1>7, <1>8, <1>9, <1>10, RequestStepKeeps DEF JobsAreKnown, ApplyPhases

LEMMA TakingMoves ==
    ASSUME SupervisorInvariant, TakeApply \/ DownloadEnds
    PROVE  Control'
<1> USE DEF SupervisorInvariant
<1>1. UpdateTypeOK /\ GroupTypes /\ InboxTypes /\ sup \in SupRecords
  BY TypesSplit DEF GroupTypes
<1>2. /\ sup.phase = "serve" /\ UNCHANGED <<journal, staging, handoff, call, handlers>>
  BY DEF TakeApply, DownloadEnds, Serving, At, updateVars
<1>3. sup.job = NoJob /\ handoff = NoJob /\ sup.ready /\ Quiet
  BY <1>2 DEF PhasesFit, RestartPhases, AfterReady, CallFits, WaitPhases, Quiet
<1>4. \A j \in Jobs : ~Unfinished(j)
  BY <1>2, <1>3, ModuleUpdateAssumption DEF OneUnfinished, BeforeRecovery
<1>5. CASE DownloadEnds
  <2>1. /\ download' = NoJob /\ staging = NoJob /\ mailbox' = mailbox /\ sup' = sup
        /\ update' = [job |-> download, state |-> journal[download].state] /\ download # NoJob
    BY <1>5 DEF DownloadEnds, UpdateFinished
  <2>2. PICK d \in Jobs : d = download /\ Past(d)
    BY <1>1, <2>1 DEF InboxTypes, JobsAreKnown, Past
  <2>3. Settled(d)'
    BY <1>2, <2>1, <2>2, ModuleUpdateAssumption DEF Settled, Past
  <2>4. (update.state = "staged" => Settled(update.job))'
    BY <2>1, <2>2, <2>3 DEF Settled, Past
  <2>5. \A j : Settled(j) => Settled(j)'
    BY <1>2, <2>1, ModuleUpdateAssumption DEF Settled, Past
  <2>6. RequestsAreKnown'
    BY <1>2, <2>1, <2>5 DEF RequestsAreKnown, Announceable
  <2>7. PhasesFit' /\ CallFits' /\ OneUnfinished'
    BY <1>2, <1>3, <1>4, <2>1
       DEF PhasesFit, CallFits, OneUnfinished, Unfinished, HasLauncher, Started, AfterReady, ApplyPhases,
           RestartPhases, WaitPhases
  <2> QED BY <1>2, <1>3, <2>1, <2>2, <2>4, <2>6, <2>7, RequestStepKeeps, ModuleUpdateAssumption
<1>6. CASE TakeApply
  <2>1. PICK j \in Jobs : j = mailbox.update.job /\ Settled(j)
    BY <1>6 DEF TakeApply, RequestsAreKnown, Settled, Past
  <2>2. /\ update' = [job |-> j, state |-> "applying"] /\ download' = download
        /\ mailbox' = [mailbox EXCEPT !.update = NoRequest]
        /\ sup' = [sup EXCEPT !.phase = "u_stop", !.job = j, !.plan = UpdatePlan(j)]
    BY <1>6, <2>1 DEF TakeApply
  <2>3. sup'.phase = "u_stop" /\ sup'.job = j /\ sup'.ready
    BY <1>1, <1>3, <2>2 DEF SupRecords
  <2>4. mailbox'.update = NoRequest /\ mailbox'.restart = mailbox.restart
    BY <1>1, <2>2 DEF InboxTypes
  <2>5. RequestsAreKnown'
    <3>1. \A a \in Admins : handlers[a].request.kind = "stage" => handlers[a].request.job # NoJob
      BY ModuleUpdateAssumption DEF RequestsAreKnown, Announceable
    <3>2. NoRequest.kind = "none" /\ NoRequest.job = NoJob
      BY DEF NoRequest
    <3>3. \A i : Settled(i)' <=> Settled(i)
      BY <1>2, <2>2 DEF Settled, Past
    <3> QED BY <1>2, <2>4, <3>1, <3>2, <3>3 DEF RequestsAreKnown, Announceable
  <2>6. PhasesFit'
    BY <1>2, <1>3, <2>1, <2>3, ModuleUpdateAssumption
       DEF PhasesFit, HasLauncher, Started, AfterReady, Serviced, ApplyPhases, RestartPhases
  <2>7. CallFits' /\ OneUnfinished'
    BY <1>2, <1>3, <1>4, <2>3 DEF CallFits, OneUnfinished, Unfinished, WaitPhases, Quiet
  <2> QED BY <1>2, <1>3, <2>1, <2>2, <2>3, <2>5, <2>6, <2>7, RequestStepKeeps, ModuleUpdateAssumption
<1> QED BY <1>5, <1>6

LEMMA StagingMoves ==
    ASSUME SupervisorInvariant, TakeStage
    PROVE  Control'
<1> USE DEF SupervisorInvariant
<1>1. UpdateTypeOK /\ InboxTypes /\ journal \in [Jobs -> Entries]
  BY TypesSplit DEF UpdateTypeOK
<1>2. PICK j \in Jobs, v \in Releases : /\ j = mailbox.update.job /\ v = mailbox.update.version
                                        /\ journal[j].state = "none"
  BY DEF TakeStage, RequestsAreKnown, Announceable
<1> DEFINE e == [NoEntry EXCEPT !.state = "staging", !.version = v]
<1>3. /\ download' = j /\ staging' = j /\ update' = [job |-> j, state |-> "downloading"]
      /\ mailbox' = [mailbox EXCEPT !.update = NoRequest] /\ sup.phase = "serve"
      /\ UNCHANGED <<handoff, call, sup, handlers>> /\ journal' = [journal EXCEPT ![j] = e]
  BY <1>2 DEF TakeStage, StageBegin, save_job, Serving, At
<1>4. e.state = "staging" /\ e.version = v /\ e.applied = {} /\ ~e.metadataApplied
  BY DEF NoEntry
<1>5. journal'[j] = e /\ \A i \in Jobs : i # j => journal'[i] = journal[i]
  BY <1>1, <1>3
<1>6. sup.job = NoJob /\ handoff = NoJob /\ sup.ready /\ Quiet
  BY <1>3 DEF PhasesFit, RestartPhases, AfterReady, CallFits, WaitPhases, Quiet
<1>7. \A i \in Jobs : Settled(i) => Settled(i)'
  BY <1>2, <1>3, <1>5 DEF Settled, Past
<1>8. \A i \in Jobs : Unfinished(i)' => Unfinished(i)
  BY <1>4, <1>5 DEF Unfinished
<1>9. mailbox'.update = NoRequest /\ mailbox'.restart = mailbox.restart
  BY <1>1, <1>3 DEF InboxTypes
<1>10. JobsAreKnown'
  <2>1. (\A i \in Jobs : journal[i].state # "none" => journal[i].version \in Releases)'
    BY <1>4, <1>5 DEF JobsAreKnown
  <2>2. (staging # NoJob =>
           /\ staging = download /\ journal[staging].state = "staging"
           /\ journal[staging].applied = {} /\ ~journal[staging].metadataApplied)'
    BY <1>3, <1>4, <1>5
  <2>3. (download # NoJob => sup.ready /\ staging = download)'
    BY <1>3, <1>6
  <2>4. (\A i \in {sup.job, handoff, call.job} : i = NoJob)'
    BY <1>3, <1>6 DEF Quiet
  <2>5. (update.state # "staged" /\ update.job # NoJob)'
    BY <1>2, <1>3, ModuleUpdateAssumption
  <2> QED BY <2>1, <2>2, <2>3, <2>4, <2>5 DEF JobsAreKnown
<1>11. RequestsAreKnown'
  <2>1. NoRequest.kind = "none" /\ NoRequest.job = NoJob
    BY DEF NoRequest
  <2>2. \A a \in Admins : handlers[a].request.kind = "stage" =>
          /\ handlers[a].request.job \in Jobs /\ handlers[a].request.job # j
          /\ Announceable(handlers[a].request)
    BY <1>2 DEF RequestsAreKnown, Announceable
  <2>3. \A r : Announceable(r) /\ r.job # j => Announceable(r)'
    BY <1>5 DEF Announceable
  <2>4. \A a \in Admins : handlers[a].request.kind = "apply" =>
          handlers[a].request.job \in Jobs /\ Settled(handlers[a].request.job)
    BY DEF RequestsAreKnown, Settled, Past
  <2>5. \A a \in Admins : /\ handlers[a].request.kind = "apply" => Settled(handlers[a].request.job)'
                          /\ handlers[a].request.kind = "stage" => Announceable(handlers[a].request)'
    BY <1>3, <1>5, <1>7, <2>2, <2>3, <2>4 DEF Settled, Past, Announceable
  <2> QED BY <1>3, <1>9, <2>1, <2>2, <2>5, ModuleUpdateAssumption DEF RequestsAreKnown, Announceable, Settled, Past
<1>12. PhasesFit' /\ CallFits' /\ OneUnfinished' /\ LauncherCanStart'
  <2>1. PhasesFit'
    BY <1>3, <1>6 DEF PhasesFit, Started, AfterReady, ApplyPhases, RestartPhases
  <2>2. CallFits'
    BY <1>3, <1>6 DEF CallFits, WaitPhases, Quiet
  <2>3. \A i \in Jobs : ~Unfinished(i)'
    BY <1>3, <1>6, <1>8, ModuleUpdateAssumption DEF OneUnfinished, BeforeRecovery
  <2> QED BY <2>1, <2>2, <2>3 DEF OneUnfinished, LauncherCanStart
<1> QED BY <1>10, <1>11, <1>12 DEF Control

LEMMA AskKeeps ==
    ASSUME SupervisorInvariant, NEW a \in Admins, NEW r \in Requests, Ask(a, r), r.kind # "none",
           r.kind = "apply" => Settled(r.job),
           r.kind = "stage" => /\ Announceable(r) /\ r.job # mailbox.update.job
                               /\ \A b \in Admins : handlers[b].request.job # r.job,
           r.kind = "restart" => r.job = NoJob
    PROVE  RequestsAreKnown'
<1> USE DEF SupervisorInvariant
<1>1. InboxTypes
  BY TypesSplit
<1>2. /\ handlers'[a] = [step |-> "checked", request |-> r]
      /\ \A b \in Admins : b # a => handlers'[b] = handlers[b]
      /\ UNCHANGED <<mailbox, journal, download>>
  BY <1>1 DEF Ask, InboxTypes, updateVars
<1>3. \A b \in Admins : LET q == handlers[b].request IN
        q.kind = "stage" /\ b # a => q.job # r.job
  <2> SUFFICES ASSUME NEW b \in Admins, b # a, handlers[b].request.kind = "stage"
               PROVE  handlers[b].request.job # r.job
    OBVIOUS
  <2>1. Announceable(handlers[b].request)
    BY DEF RequestsAreKnown
  <2>2. r.kind \in {"stage", "apply", "restart"}
    BY DEF Requests
  <2> QED BY <2>1, <2>2, ModuleUpdateAssumption DEF Announceable, Settled, Past
<1>4. \A b \in Admins : LET q == handlers'[b].request IN
        q.kind = "stage" => \A c \in Admins : c # b => handlers'[c].request.job # q.job
  <2> SUFFICES ASSUME NEW b \in Admins, NEW c \in Admins, c # b, handlers'[b].request.kind = "stage"
               PROVE  handlers'[c].request.job # handlers'[b].request.job
    OBVIOUS
  <2>1. CASE b = a
    BY <1>2, <2>1
  <2>2. CASE b # a /\ c # a
    BY <1>2, <2>2 DEF RequestsAreKnown
  <2>3. CASE c = a
    BY <1>2, <1>3, <2>3
  <2> QED BY <2>1, <2>2, <2>3
<1>5. \A b \in Admins : LET q == handlers'[b].request IN
        /\ IF handlers'[b].step = "idle" THEN handlers'[b] = NoHandler ELSE q.kind # "none"
        /\ q.kind = "apply" => Settled(q.job)
        /\ q.kind = "stage" => Announceable(q) /\ q.job # mailbox'.update.job
  BY <1>2 DEF RequestsAreKnown
<1> QED BY <1>2, <1>4, <1>5 DEF RequestsAreKnown, Announceable, Settled, Past

(* A handler that goes on with its request, or is done with it. *)
LEMMA HandledKeeps ==
    ASSUME SupervisorInvariant, NEW a \in Admins, UNCHANGED <<journal, download>>,
           \A b \in Admins : b # a => handlers'[b] = handlers[b],
           \/ handlers'[a] = NoHandler
           \/ handlers'[a].step # "idle" /\ handlers[a].step # "idle"
              /\ handlers'[a].request = handlers[a].request,
           \/ mailbox'.update = mailbox.update
           \/ mailbox'.update = handlers[a].request /\ handlers[a].request.kind \in {"stage", "apply"}
              /\ handlers'[a] = NoHandler,
           \/ mailbox'.restart = mailbox.restart
           \/ mailbox'.restart = handlers[a].request /\ handlers[a].request.kind = "restart"
    PROVE  RequestsAreKnown'
<1> USE DEF SupervisorInvariant
<1>1. NoRequest.kind = "none" /\ NoRequest.job = NoJob /\ NoHandler.request = NoRequest /\ NoHandler.step = "idle"
  BY DEF NoRequest, NoHandler
<1>2. \A b \in Admins : handlers'[b].request = handlers[b].request \/ (b = a /\ handlers'[b].request = NoRequest)
  BY <1>1
<1>3. \A b \in Admins : LET q == handlers'[b].request IN
        q.kind = "stage" => \A c \in Admins : c # b => handlers'[c].request.job # q.job
  <2> SUFFICES ASSUME NEW b \in Admins, NEW c \in Admins, c # b, handlers'[b].request.kind = "stage"
               PROVE  handlers'[c].request.job # handlers'[b].request.job
    OBVIOUS
  <2>1. handlers'[b].request = handlers[b].request
    BY <1>1, <1>2
  <2>2. handlers[b].request.job # NoJob /\ handlers[c].request.job # handlers[b].request.job
    BY <2>1, ModuleUpdateAssumption DEF RequestsAreKnown, Announceable
  <2> QED BY <1>1, <1>2, <2>1, <2>2
<1>4. \A b \in Admins : handlers'[b].request.kind = "stage" => handlers'[b].request.job # mailbox'.update.job
  <2> SUFFICES ASSUME NEW b \in Admins, handlers'[b].request.kind = "stage"
               PROVE  handlers'[b].request.job # mailbox'.update.job
    OBVIOUS
  <2>1. handlers'[b].request = handlers[b].request /\ (handlers'[a] = NoHandler => b # a)
    BY <1>1, <1>2
  <2>2. mailbox'.update = mailbox.update \/ (mailbox'.update = handlers[a].request /\ b # a)
    BY <2>1
  <2> QED BY <2>1, <2>2 DEF RequestsAreKnown
<1>5. \A b \in Admins : LET q == handlers'[b].request IN
        /\ IF handlers'[b].step = "idle" THEN handlers'[b] = NoHandler ELSE q.kind # "none"
        /\ q.kind = "apply" => Settled(q.job)
        /\ q.kind = "stage" => Announceable(q)
  BY <1>1 DEF RequestsAreKnown
<1>6. /\ mailbox'.update.kind # "restart" /\ mailbox'.restart.kind \in {"none", "restart"}
      /\ mailbox'.update.kind = "apply" => Settled(mailbox'.update.job)
      /\ mailbox'.update.kind = "stage" => Announceable(mailbox'.update)
  BY DEF RequestsAreKnown
<1>7. (\A j : Settled(j)' <=> Settled(j)) /\ (\A r : Announceable(r)' <=> Announceable(r))
  BY DEF Settled, Past, Announceable
<1> QED BY <1>3, <1>4, <1>5, <1>6, <1>7 DEF RequestsAreKnown, Settled, Past, Announceable

LEMMA AdminRequests ==
    ASSUME SupervisorInvariant, NEW a \in Admins,
           \/ AskStage(a) \/ AskApply(a) \/ \E mode \in Asked : AskRestart(a, mode)
           \/ Reserve(a) \/ Post(a) \/ PostFails(a)
    PROVE  /\ RequestsAreKnown'
           /\ update' = update \/ (update'.job # NoJob /\ update'.state # "staged")
<1> USE DEF SupervisorInvariant
<1>1. UpdateTypeOK /\ InboxTypes /\ StatusTypes
  BY TypesSplit
<1> DEFINE h == handlers[a]
<1>2. h.request \in Requests /\ h \in HandlerRecords
  BY <1>1 DEF InboxTypes, HandlerRecords
<1>3. CASE AskStage(a)
  <2>1. PICK j \in Unused : Ask(a, [NoRequest EXCEPT !.kind = "stage", !.job = j, !.version = published])
    BY <1>3 DEF AskStage
  <2>2. j \in Jobs /\ published \in Releases /\ published \in 0 .. Newest
    BY <1>1, <2>1, ModuleUpdateAssumption DEF Unused, UpdateTypeOK, Releases
  <2>3. [NoRequest EXCEPT !.kind = "stage", !.job = j, !.version = published] \in Requests
    BY <2>2, ConstantsAreTyped DEF Requests
  <2>4. PICK r \in Requests : Ask(a, r) /\ r.kind = "stage" /\ r.job = j /\ r.version = published
    BY <2>1, <2>3 DEF NoRequest
  <2>5. Announceable(r) /\ r.job # mailbox.update.job /\ \A b \in Admins : handlers[b].request.job # r.job
    BY <2>1, <2>2, <2>4 DEF Unused, Announceable
  <2> QED BY <2>4, <2>5, AskKeeps DEF Ask, durable
<1>4. CASE AskApply(a)
  <2>1. [NoRequest EXCEPT !.kind = "apply", !.job = update.job] \in Requests
    BY <1>1, ConstantsAreTyped DEF Requests, StatusTypes
  <2>2. PICK r \in Requests : Ask(a, r) /\ r.kind = "apply" /\ r.job = update.job
    BY <1>4, <2>1 DEF AskApply, NoRequest
  <2>3. Settled(r.job)
    BY <1>4, <2>2 DEF AskApply, JobsAreKnown
  <2> QED BY <2>2, <2>3, AskKeeps DEF Ask, durable
<1>5. ASSUME NEW mode \in Asked, AskRestart(a, mode)
      PROVE  RequestsAreKnown' /\ update' = update
  <2>1. [NoRequest EXCEPT !.kind = "restart", !.mode = mode, !.config = config] \in Requests
    BY <1>1, ConstantsAreTyped, SupervisorAssumption DEF Requests, StatusTypes
  <2>2. PICK r \in Requests : Ask(a, r) /\ r.kind = "restart" /\ r.job = NoJob
    BY <1>5, <2>1 DEF AskRestart, NoRequest
  <2> QED BY <2>2, AskKeeps DEF Ask, durable
<1>6. CASE Reserve(a)
  <2>1. /\ handlers'[a] = NoHandler \/ handlers'[a] = [h EXCEPT !.step = "reserved"]
        /\ \A b \in Admins : b # a => handlers'[b] = handlers[b]
        /\ UNCHANGED <<mailbox, update, journal, download>> /\ h.step = "checked"
    BY <1>1, <1>6 DEF Reserve, InboxTypes, updateVars
  <2>2. handlers'[a] = NoHandler \/ (handlers'[a].step = "reserved" /\ handlers'[a].request = h.request)
    BY <1>2, <2>1 DEF HandlerRecords
  <2> QED BY <2>1, <2>2, HandledKeeps
<1>7. CASE Post(a) \/ PostFails(a)
  <2>1. /\ handlers'[a] = NoHandler /\ handlers[a].step = "reserved"
        /\ \A b \in Admins : b # a => handlers'[b] = handlers[b]
        /\ UNCHANGED <<journal, download>>
    BY <1>1, <1>7 DEF Post, PostFails, InboxTypes, updateVars, disk
  <2>2. handlers[a].request.kind \in {"stage", "apply", "restart"}
    BY <1>2, <2>1 DEF Requests, RequestsAreKnown
  <2>3. /\ \/ mailbox'.update = mailbox.update
           \/ mailbox'.update = handlers[a].request /\ handlers[a].request.kind \in {"stage", "apply"}
        /\ \/ mailbox'.restart = mailbox.restart
           \/ mailbox'.restart = handlers[a].request /\ handlers[a].request.kind = "restart"
    BY <1>1, <1>7, <2>2 DEF Post, PostFails, InboxTypes
  <2>4. Announced(handlers[a].request) =>
          \/ update' = update
          \/ update' = [job |-> handlers[a].request.job, state |-> Pending(handlers[a].request)] /\ handlers[a].request.kind \in {"stage", "apply"}
    BY <2>2 DEF Announced
  <2>5. handlers[a].request.kind \in {"stage", "apply"} => handlers[a].request.job # NoJob
    BY ModuleUpdateAssumption DEF RequestsAreKnown, Announceable, Settled, Past
  <2>6. update' = update \/ (update'.job # NoJob /\ update'.state # "staged")
    BY <1>7, <2>4, <2>5 DEF Post, PostFails, Pending
  <2>7. RequestsAreKnown'
    BY <2>1, <2>3, HandledKeeps
  <2> QED BY <2>6, <2>7
<1> QED BY <1>3, <1>4, <1>5, <1>6, <1>7

LEMMA AdminMoves ==
    ASSUME SupervisorInvariant, Administer
    PROVE  Control'
<1> USE DEF SupervisorInvariant
<1>1. PICK a \in Admins : \/ AskStage(a) \/ AskApply(a) \/ \E mode \in Asked : AskRestart(a, mode)
                          \/ Reserve(a) \/ Post(a) \/ PostFails(a)
  BY DEF Administer
<1>2. UNCHANGED <<journal, staging, handoff, call, download, sup>>
  BY <1>1 DEF AskStage, AskApply, AskRestart, Ask, Reserve, Post, PostFails, updateVars, disk
<1>3. RequestsAreKnown' /\ (update' = update \/ (update'.job # NoJob /\ update'.state # "staged"))
  BY <1>1, AdminRequests
<1>4. (update.state = "staged" => Settled(update.job))'
  BY <1>2, <1>3 DEF JobsAreKnown, Settled, Past
<1>5. sup.ready
  <2>1. CASE AskStage(a) \/ AskApply(a) \/ \E mode \in Asked : AskRestart(a, mode)
    BY <2>1 DEF AskStage, AskApply, AskRestart, Reachable, PlanAllowed
  <2>2. CASE Reserve(a) \/ Post(a) \/ PostFails(a)
    <3>1. handlers[a].step # "idle"
      BY <2>2 DEF Reserve, Post, PostFails
    <3> QED BY <3>1 DEF PhasesFit, NoHandler
  <2> QED BY <1>1, <2>1, <2>2
<1>6. PhasesFit'
  BY <1>2, <1>5 DEF PhasesFit, HasLauncher
<1>7. CallFits' /\ OneUnfinished'
  BY <1>2 DEF CallFits, OneUnfinished, Unfinished, HasLauncher
<1> QED BY <1>2, <1>3, <1>4, <1>6, <1>7, RequestStepKeeps DEF JobsAreKnown

-----------------------------------------------------------------------------
(* The writes of an operation *)

(* From which step of an operation to which, and what the journal then says. *)
CallTransition ==
    \/ /\ call.fn = "apply" /\ call'.fn \in {"ok", "failed", "replace"} /\ call'.then = call.then
    \/ /\ call.fn = "replace" /\ call'.fn \in {"write", "ok"} /\ call'.then = call.then
    \/ /\ call.fn = "write"
       /\ (call'.fn = "replace" /\ call'.then = call.then) \/ (call'.fn = "roll" /\ call'.then = "failed")
    \/ /\ call.fn = "roll" /\ call'.then = call.then
       /\ call'.fn \in {"roll", "restore", "failed"}
          \/ (call'.fn = call.then /\ journal'[call.job].state = "rolled_back")
    \/ /\ call.fn = "restore" /\ call'.fn = "roll" /\ call'.then = call.then
    \/ /\ call.fn = "baseline" /\ call'.fn \in {"mark", "failed"} /\ call'.then = call.then
    \/ /\ call.fn = "mark" /\ call'.then = call.then
       /\ call'.fn = "failed" \/ (call'.fn = "ok" /\ journal'[call.job].state = "complete")
    \/ /\ call.fn = "remark" /\ call'.fn = "ok" /\ call'.then = call.then

(* What the step makes of its job. *)
JobMoves(j) ==
    /\ journal'[j].files = journal[j].files /\ journal'[j].version = journal[j].version
    /\ journal'[j].state \notin {"none", "staging"}
    /\ journal'[j].state = "complete" => call.fn = "mark" \/ journal[j].state = "complete"
    /\ call.fn \in {"baseline", "mark", "restore"} \/ (call.fn = "roll" /\ call.then = "ok")
       => (Unfinished(j)' => Unfinished(j))

LEMMA CallStepMoves ==
    ASSUME UpdateTypeOK, NEW j \in Jobs, j = call.job, journal[j].state \notin {"none", "staging"}, CallStep
    PROVE  /\ CallTransition /\ call'.job = j /\ JobMoves(j)
           /\ \A i \in Jobs : i # j => journal'[i] = journal[i]
           /\ UNCHANGED <<handoff, staging, published>>
<1> DEFINE e == journal[j]
           Others == \A i \in Jobs : i # j => journal'[i] = journal[i]
           Goal == CallTransition /\ call'.job = j /\ JobMoves(j) /\ Others /\ UNCHANGED <<handoff, staging, published>>
<1>1. call \in CallRecords /\ e \in Entries /\ journal \in [Jobs -> Entries]
  BY DEF UpdateTypeOK, CallRecords
<1>2. ASSUME UNCHANGED journal
      PROVE  JobMoves(j) /\ Others
  BY <1>2 DEF JobMoves, Unfinished
<1>3. \A fn : Answer(fn) => call'.fn = fn /\ call'.job = j /\ call'.then = call.then
  BY <1>1 DEF Answer, CallRecords
<1>4. \A state : State(j, state) =>
        /\ journal'[j].state = state /\ journal'[j].files = e.files /\ journal'[j].version = e.version
        /\ journal'[j].applied = e.applied /\ journal'[j].metadataApplied = e.metadataApplied
        /\ Others
  BY <1>1 DEF State, save_job, Entries
<1>5. CASE ApplyAnswered
  <2>1. UNCHANGED <<journal, handoff, staging, published>> /\ Answer("ok") /\ call.fn = "apply"
    BY <1>5 DEF ApplyAnswered, diskVars
  <2> QED BY <1>2, <1>3, <2>1 DEF CallTransition
<1>6. CASE ApplyRefused
  <2>1. /\ UNCHANGED <<handoff, staging, published>> /\ Answer("failed") /\ call.fn = "apply"
        /\ State(j, "failed") \/ UNCHANGED journal
    BY <1>6 DEF ApplyRefused
  <2>2. State(j, "failed") => JobMoves(j) /\ Others
    BY <1>4, <2>1 DEF JobMoves
  <2> QED BY <1>2, <1>3, <2>1, <2>2 DEF CallTransition
<1>7. CASE ApplyChecked
  <2>1. /\ UNCHANGED <<handoff, staging, published>> /\ Answer("replace") /\ call.fn = "apply"
        /\ journal' = [journal EXCEPT ![j] =
             [e EXCEPT !.state = "applying", !.oldMetadata = metadata, !.metadataApplied = FALSE]]
    BY <1>7 DEF ApplyChecked, save_job
  <2>2. JobMoves(j) /\ Others
    BY <1>1, <2>1 DEF JobMoves, Entries
  <2> QED BY <1>3, <2>1, <2>2 DEF CallTransition
<1>8. CASE JournalModule
  <2>1. PICK f \in e.files \ e.applied :
          /\ journal' = [journal EXCEPT ![j] = [e EXCEPT !.applied = e.applied \cup {f}]]
          /\ call' = [call EXCEPT !.fn = "write", !.file = f]
    BY <1>8 DEF JournalModule, JournalFirst, save_job
  <2>2. UNCHANGED <<handoff, staging, published>> /\ call.fn = "replace"
    BY <1>8 DEF JournalModule
  <2>3. JobMoves(j) /\ Others
    BY <1>1, <2>1, <2>2 DEF JobMoves, Entries
  <2>4. CallTransition /\ call'.job = j
    BY <1>1, <2>1, <2>2 DEF CallTransition, CallRecords
  <2> QED BY <2>2, <2>3, <2>4
<1>9. CASE WriteModule
  <2>1. /\ UNCHANGED <<journal, handoff, staging, published>> /\ call.fn = "write"
        /\ call' = [call EXCEPT !.fn = "replace", !.file = NoModule]
    BY <1>9 DEF WriteModule
  <2>2. CallTransition /\ call'.job = j
    BY <1>1, <2>1 DEF CallTransition, CallRecords
  <2> QED BY <1>2, <2>1, <2>2
<1>10. CASE WriteFails
  <2>1. /\ UNCHANGED <<journal, handoff, staging, published>> /\ call.fn = "write"
        /\ call' = [call EXCEPT !.fn = "roll", !.file = NoModule, !.then = "failed", !.marks = journal[call.job].applied]
    BY <1>10 DEF WriteFails, diskVars
  <2>2. CallTransition /\ call'.job = j
    BY <1>1, <2>1 DEF CallTransition, CallRecords
  <2> QED BY <1>2, <2>1, <2>2
<1>11. CASE AllReplaced
  <2>1. /\ UNCHANGED <<handoff, staging, published>> /\ Answer("ok") /\ call.fn = "replace" /\ State(j, "installed")
    BY <1>11 DEF AllReplaced
  <2>2. JobMoves(j) /\ Others
    BY <1>4, <2>1 DEF JobMoves
  <2> QED BY <1>3, <2>1, <2>2 DEF CallTransition
<1>12. CASE RollMetadata
  <2>1. /\ UNCHANGED <<handoff, staging, published, call>> /\ call.fn = "roll"
        /\ UNCHANGED journal \/ journal' = [journal EXCEPT ![j] = [e EXCEPT !.metadataApplied = FALSE]]
    BY <1>12 DEF RollMetadata, save_job
  <2>2. journal' = [journal EXCEPT ![j] = [e EXCEPT !.metadataApplied = FALSE]] => JobMoves(j) /\ Others
    BY <1>1, <2>1 DEF JobMoves, Entries, Unfinished
  <2> QED BY <1>2, <2>1, <2>2 DEF CallTransition
<1>13. CASE RollModule
  <2>1. PICK f \in e.applied : call' = [call EXCEPT !.fn = "restore", !.file = f]
    BY <1>13 DEF RollModule
  <2>2. UNCHANGED <<journal, handoff, staging, published>> /\ call.fn = "roll"
    BY <1>13 DEF RollModule
  <2>3. CallTransition /\ call'.job = j
    BY <1>1, <2>1, <2>2 DEF CallTransition, CallRecords
  <2> QED BY <1>2, <2>2, <2>3
<1>14. CASE JournalRestored
  <2>1. /\ UNCHANGED <<handoff, staging, published>> /\ call.fn = "restore"
        /\ call' = [call EXCEPT !.fn = "roll", !.file = NoModule]
        /\ journal' = [journal EXCEPT ![j] = [e EXCEPT !.applied = e.applied \ {call.file}]]
    BY <1>14 DEF JournalRestored, save_job
  <2>2. JobMoves(j) /\ Others
    BY <1>1, <2>1 DEF JobMoves, Entries, Unfinished
  <2>3. CallTransition /\ call'.job = j
    BY <1>1, <2>1 DEF CallTransition, CallRecords
  <2> QED BY <2>1, <2>2, <2>3
<1>15. CASE RollFails
  <2>1. /\ UNCHANGED <<handoff, staging, published>> /\ call.fn = "roll" /\ Answer("failed")
        /\ \/ UNCHANGED journal
           \/ /\ call.then # "ok"
              /\ journal' = [journal EXCEPT ![j] = [e EXCEPT !.state = "failed", !.applied = e.applied \cup call.marks]]
    BY <1>15 DEF RollFails, save_job
  <2>2. ASSUME call.then # "ok",
               journal' = [journal EXCEPT ![j] = [e EXCEPT !.state = "failed", !.applied = e.applied \cup call.marks]]
        PROVE  JobMoves(j) /\ Others
    BY <1>1, <2>1, <2>2 DEF JobMoves, Entries
  <2>3. JobMoves(j) /\ Others
    BY <1>2, <2>1, <2>2
  <2> QED BY <1>3, <2>1, <2>3 DEF CallTransition
<1>16. CASE RolledBack
  <2>1. UNCHANGED <<handoff, staging, published>> /\ call.fn = "roll" /\ Answer(call.then) /\ State(j, "rolled_back")
    BY <1>16 DEF RolledBack
  <2>2. JobMoves(j) /\ Others
    BY <1>4, <2>1 DEF JobMoves, Unfinished
  <2>3. journal'[call.job].state = "rolled_back"
    BY <1>4, <2>1
  <2>4. call'.fn = call.then /\ call'.then = call.then /\ call'.job = j
    BY <1>3, <2>1
  <2> QED BY <2>1, <2>2, <2>3, <2>4 DEF CallTransition
<1>17. CASE WriteMetadata \/ CommitFails
  <2>1. /\ UNCHANGED <<journal, handoff, staging, published>>
        /\ \/ call.fn = "baseline" /\ Answer("mark")
           \/ call.fn \in {"baseline", "mark"} /\ Answer("failed")
    BY <1>17 DEF WriteMetadata, CommitFails, diskVars
  <2> QED BY <1>2, <1>3, <2>1 DEF CallTransition
<1>18. CASE MarkComplete
  <2>1. UNCHANGED <<handoff, staging, published>> /\ call.fn = "mark" /\ Answer("ok") /\ State(j, "complete")
    BY <1>18 DEF MarkComplete
  <2>2. JobMoves(j) /\ Others
    BY <1>4, <2>1 DEF JobMoves, Unfinished
  <2>3. journal'[call.job].state = "complete"
    BY <1>4, <2>1
  <2> QED BY <1>3, <2>1, <2>2, <2>3 DEF CallTransition
<1>19. CASE RemarkFailed
  <2>1. UNCHANGED <<handoff, staging, published>> /\ call.fn = "remark" /\ Answer("ok") /\ State(j, "failed")
    BY <1>19 DEF RemarkFailed
  <2>2. JobMoves(j) /\ Others
    BY <1>4, <2>1 DEF JobMoves
  <2> QED BY <1>3, <2>1, <2>2 DEF CallTransition
<1> QED BY <1>5, <1>6, <1>7, <1>8, <1>9, <1>10, <1>11, <1>12, <1>13, <1>14, <1>15, <1>16, <1>17, <1>18, <1>19
        DEF CallStep

LEMMA TransactMoves ==
    ASSUME SupervisorInvariant, Transact
    PROVE  Control'
<1> USE DEF SupervisorInvariant
<1>1. UpdateTypeOK /\ CallStep
  BY TypesSplit DEF Transact
<1>2. call.fn # "idle"
  BY <1>1 DEF CallStep, ApplyAnswered, ApplyRefused, ApplyChecked, JournalModule, WriteModule, WriteFails,
     AllReplaced, RollMetadata, RollModule, JournalRestored, RollFails, RolledBack, WriteMetadata,
     MarkComplete, CommitFails, RemarkFailed
<1>3. PICK j \in Jobs : j = call.job /\ Settled(j) /\ journal[j].state \notin {"none", "staging"}
  BY <1>2, CallHasJob
<1>4. sup.phase \in WaitPhases
  BY <1>2 DEF CallFits
<1>5. CallTransition /\ call'.job = j /\ JobMoves(j) /\ \A i \in Jobs : i # j => journal'[i] = journal[i]
  BY <1>1, <1>3, CallStepMoves
<1>6. UNCHANGED <<handoff, staging>>
  BY <1>1, <1>3, CallStepMoves
<1>7. UNCHANGED <<sup, update, download, handlers, mailbox>>
  BY DEF Transact, superVars
<1>8. PastStays /\ NoneStays /\ \A i \in Jobs : HasLauncher(i)' <=> HasLauncher(i)
  BY <1>3, <1>5 DEF JobMoves, PastStays, NoneStays, Past, HasLauncher
<1>9. RequestsAreKnown'
  BY <1>7, <1>8, RequestsKept DEF InboxKept
<1>10. JobsAreKnown'
  <2>1. \A i \in Jobs : Settled(i) => Settled(i)'
    BY <1>7, <1>8 DEF Settled, Past, PastStays
  <2>2. \A i \in {sup.job, handoff, j} : i # NoJob => i \in Jobs /\ Settled(i)
    BY <1>3 DEF JobsAreKnown, Settled, Past
  <2>3. (\A i \in {sup.job, handoff, call.job} : i # NoJob => Settled(i))'
    BY <1>5, <1>6, <1>7, <2>1, <2>2
  <2>4. (\A i \in Jobs : journal[i].state # "none" => journal[i].version \in Releases)'
    BY <1>3, <1>5 DEF JobsAreKnown, JobMoves
  <2>5. j # download
    BY <1>3 DEF Settled
  <2>6. (staging # NoJob =>
           /\ staging = download /\ journal[staging].state = "staging"
           /\ journal[staging].applied = {} /\ ~journal[staging].metadataApplied)'
    BY <1>1, <1>5, <1>6, <1>7, <2>5 DEF JobsAreKnown, UpdateTypeOK
  <2>7. (download # NoJob =>
           sup.ready /\ (staging = download \/ journal[download].state \in {"staged", "failed"}))'
    BY <1>5, <1>6, <1>7, <2>5 DEF JobsAreKnown, SupervisorTypeOK
  <2>8. (update.state = "staged" => Settled(update.job))'
    <3>1. update.state = "staged" => update.job \in Jobs /\ Settled(update.job)
      BY DEF JobsAreKnown, Settled, Past
    <3> QED BY <1>7, <2>1, <3>1 DEF Settled, Past
  <2> QED BY <1>6, <1>7, <2>3, <2>4, <2>6, <2>7, <2>8 DEF JobsAreKnown
<1>11. PhasesFit'
  <2>1. handoff # NoJob => (HasLauncher(handoff)' <=> HasLauncher(handoff))
    BY <1>6, <1>8 DEF JobsAreKnown, Settled, Past, HasLauncher
  <2>2. sup.phase \notin {"finish", "u_restore", "report"}
    BY <1>4 DEF WaitPhases
  <2> QED BY <1>6, <1>7, <2>1, <2>2 DEF PhasesFit, HasLauncher
<1>12. CallFits'
  <2>1. sup.phase \in {"pre_wait", "exec_wait", "recover_wait"} => CallFits'
    BY <1>3, <1>5, <1>6, <1>7, <1>8 DEF CallFits, CallTransition, WaitPhases, Rolling
  <2>2. sup.phase \in {"resume_wait", "unwind_wait", "u_undo"} => CallFits'
    BY <1>3, <1>5, <1>6, <1>7 DEF CallFits, CallTransition, WaitPhases, Rolling
  <2>3. sup.phase \in {"ack_wait", "u_commit"} => CallFits'
    BY <1>3, <1>5, <1>6, <1>7 DEF CallFits, CallTransition, WaitPhases, Rolling
  <2>4. sup.phase = "u_apply" => CallFits'
    BY <1>3, <1>5, <1>6, <1>7, <1>8 DEF CallFits, CallTransition, WaitPhases, Rolling, JobMoves
  <2> QED BY <1>4, <2>1, <2>2, <2>3, <2>4 DEF WaitPhases
<1>13. \A i \in Jobs : Unfinished(i)' => Unfinished(i) \/ i = j
  BY <1>5 DEF Unfinished
<1>14. handoff # NoJob => j = handoff
  <2>1. sup.phase = "recover_wait" => handoff = NoJob
    BY DEF PhasesFit
  <2>2. sup.phase \in {"pre_wait", "exec_wait"} => j = handoff
    BY <1>3 DEF CallFits
  <2>3. sup.phase \in {"resume_wait", "unwind_wait", "ack_wait"} => j = handoff
    BY <1>3 DEF CallFits, PhasesFit, Started
  <2>4. sup.phase \in {"u_apply", "u_undo", "u_commit"} => handoff = NoJob \/ j = handoff
    BY <1>3 DEF CallFits, PhasesFit
  <2> QED BY <1>4, <2>1, <2>2, <2>3, <2>4 DEF WaitPhases
<1>15. OneUnfinished'
  <2>1. sup.phase \notin BeforeRecovery => j = sup.job
    BY <1>3, <1>4 DEF CallFits, WaitPhases, BeforeRecovery
  <2> QED BY <1>6, <1>7, <1>13, <1>14, <2>1 DEF OneUnfinished
<1>16. LauncherCanStart'
  <2>1. sup.phase = "recover_wait" => ~HasLauncher(j)
    BY <1>3 DEF CallFits
  <2>2. sup.phase \in {"u_commit", "u_undo"} => (Unfinished(j)' => Unfinished(j))
    <3>1. CASE sup.phase = "u_commit"
      <4>1. call.fn \in {"baseline", "mark", "ok", "failed"}
        BY <3>1 DEF CallFits
      <4>2. call.fn \notin {"ok", "failed"}
        BY <1>5 DEF CallTransition
      <4> QED BY <1>5, <4>1, <4>2 DEF JobMoves
    <3>2. CASE sup.phase = "u_undo"
      <4>1. call.fn \in Rolling /\ call.then = "ok"
        BY <3>2 DEF CallFits
      <4>2. call.fn \notin {"ok", "failed"}
        BY <1>5 DEF CallTransition
      <4> QED BY <1>5, <4>1, <4>2 DEF JobMoves, Rolling
    <3> QED BY <3>1, <3>2
  <2>3. sup.phase \in {"resume_wait", "unwind_wait", "ack_wait", "pre_wait", "exec_wait"} => j = handoff
    BY <1>3 DEF CallFits, PhasesFit, Started
  <2>4. sup.phase = "u_apply" /\ HasLauncher(j) => j = handoff
    BY <1>3 DEF CallFits
  <2>5. sup.phase \in {"recover_wait", "u_commit", "u_undo", "resume_wait", "unwind_wait", "ack_wait",
                       "pre_wait", "exec_wait", "u_apply"}
    BY <1>4 DEF WaitPhases
  <2>6. Unfinished(j)' /\ HasLauncher(j) => handoff = j
    BY <2>1, <2>2, <2>3, <2>4, <2>5 DEF LauncherCanStart
  <2> QED BY <1>6, <1>8, <1>13, <2>6 DEF LauncherCanStart
<1> QED BY <1>9, <1>10, <1>11, <1>12, <1>15, <1>16 DEF Control

-----------------------------------------------------------------------------
(* The download thread, and what happens outside of the launcher *)

LEMMA DownloadMoves ==
    ASSUME SupervisorInvariant, Download
    PROVE  Control'
<1> USE DEF SupervisorInvariant
<1>1. UpdateTypeOK /\ journal \in [Jobs -> Entries]
  BY TypesSplit DEF UpdateTypeOK
<1>2. staging # NoJob /\ staging' = NoJob /\ UNCHANGED <<handoff, call>> /\ UNCHANGED superVars
  BY DEF Download, StageVerified, StageFails
<1>3. PICK d \in Jobs : /\ d = staging /\ d = download /\ journal[d].state = "staging"
                        /\ journal[d].applied = {} /\ ~journal[d].metadataApplied
                        /\ journal[d].version \in Releases
  BY <1>1, <1>2 DEF UpdateTypeOK, JobsAreKnown
<1>4. /\ journal'[d].state \in {"staged", "failed"} /\ journal'[d].version \in Releases
      /\ journal'[d].applied = {} /\ ~journal'[d].metadataApplied
      /\ \A j \in Jobs : j # d => journal'[j] = journal[j]
  <2> DEFINE e == journal[d]
  <2>1. e \in Entries
    BY <1>1
  <2>2. CASE StageVerified(self)
    <3>1. journal' = [journal EXCEPT ![d] =
             [e EXCEPT !.state = "staged", !.files = {f \in Modules : New(d, f) # installed[f]}, !.old = installed]]
      BY <1>3, <2>2 DEF StageVerified, save_job
    <3> QED BY <1>1, <1>3, <2>1, <3>1 DEF Entries
  <2>3. CASE StageFails(self)
    <3>1. journal' = [journal EXCEPT ![d] = [e EXCEPT !.state = "failed"]]
      BY <1>3, <2>3 DEF StageFails, State, save_job
    <3> QED BY <1>1, <1>3, <2>1, <3>1 DEF Entries
  <2> QED BY <2>2, <2>3 DEF Download
<1>5. UNCHANGED <<sup, update, download, handlers, mailbox>>
  BY <1>2 DEF superVars
<1>6. \A j \in Jobs : Settled(j) => j # d
  BY <1>3 DEF Settled
<1>7. \A j : Settled(j) => Settled(j)'
  BY <1>4, <1>5, <1>6 DEF Settled, Past
<1>8. RequestsAreKnown'
  <2>1. PastStays /\ NoneStays
    BY <1>3, <1>4 DEF PastStays, NoneStays, Past
  <2> QED BY <1>5, <2>1, RequestsKept DEF InboxKept
<1>9. JobsAreKnown'
  <2>1. (\A j \in {sup.job, handoff, call.job} : j # NoJob => Settled(j))'
    BY <1>2, <1>5, <1>7 DEF JobsAreKnown
  <2>2. (\A j \in Jobs : journal[j].state # "none" => journal[j].version \in Releases)'
    BY <1>4 DEF JobsAreKnown
  <2>3. (download # NoJob => sup.ready /\ journal[download].state \in {"staged", "failed"})'
    BY <1>3, <1>4, <1>5 DEF JobsAreKnown
  <2>4. (update.state = "staged" => Settled(update.job))'
    <3>1. update.state = "staged" => Settled(update.job)'
      <4>1. update.state = "staged" => update.job \in Jobs /\ Settled(update.job)
        BY DEF JobsAreKnown, Settled, Past
      <4> QED BY <1>4, <1>5, <1>6, <4>1 DEF Settled, Past
    <3> QED BY <1>5, <3>1
  <2> QED BY <1>2, <1>5, <2>1, <2>2, <2>3, <2>4 DEF JobsAreKnown
<1>10. \A j \in Jobs : Unfinished(j)' => Unfinished(j) /\ j # d
  BY <1>4 DEF Unfinished
<1>11. handoff # NoJob => handoff \in Jobs /\ handoff # d
  BY <1>6 DEF JobsAreKnown, Settled, Past
<1>12. call.job # NoJob => call.job \in Jobs /\ call.job # d
  BY <1>6 DEF JobsAreKnown, Settled, Past
<1>13. sup.job # NoJob => sup.job \in Jobs /\ sup.job # d
  BY <1>6 DEF JobsAreKnown, Settled, Past
<1>14. PhasesFit'
  <2>1. handoff # NoJob => (HasLauncher(handoff)' <=> HasLauncher(handoff))
    BY <1>2, <1>4, <1>11 DEF HasLauncher
  <2>2. sup.phase \in {"finish", "u_restore", "report"} => journal'[sup.job].state = journal[sup.job].state
    BY <1>4, <1>13 DEF PhasesFit, ApplyPhases
  <2> QED BY <1>2, <1>5, <2>1, <2>2 DEF PhasesFit
<1>15. CallFits'
  <2>1. \A j \in Jobs : j # d => journal'[j] = journal[j] /\ (HasLauncher(j)' <=> HasLauncher(j))
    BY <1>4 DEF HasLauncher
  <2>2. sup.phase \in WaitPhases => call.job \in Jobs /\ call.job # d
    BY <1>12, ModuleUpdateAssumption DEF CallFits
  <2>3. sup.phase \in WaitPhases \ {"recover_wait"} => sup.job = call.job \/ sup.phase \in {"pre_wait", "exec_wait"}
    BY DEF CallFits, WaitPhases
  <2>4. sup.phase \in WaitPhases \ {"recover_wait", "pre_wait", "exec_wait"} => sup.job \in Jobs /\ sup.job # d
    BY <2>2, <2>3
  <2> QED BY <1>2, <1>5, <2>1, <2>2, <2>4 DEF CallFits, WaitPhases, HasLauncher
<1>16. OneUnfinished'
  BY <1>2, <1>5, <1>10 DEF OneUnfinished
<1>17. LauncherCanStart'
  BY <1>2, <1>4, <1>10 DEF LauncherCanStart, HasLauncher
<1> QED BY <1>8, <1>9, <1>14, <1>15, <1>16, <1>17 DEF Control

LEMMA OutsideMoves ==
    ASSUME SupervisorInvariant, UNCHANGED <<journal, staging, handoff, call, sup, update, inbox>>
    PROVE  Control'
<1> USE DEF SupervisorInvariant
<1>1. UNCHANGED <<mailbox, download, handlers>>
  BY DEF inbox
<1> QED BY <1>1 DEF Control, JobsAreKnown, RequestsAreKnown, PhasesFit, CallFits, OneUnfinished, LauncherCanStart,
            Settled, Past, Announceable, Unfinished, HasLauncher

(* Every step of the system keeps what is known of the jobs and the phases. *)
LEMMA ControlStep ==
    ASSUME SupervisorInvariant, [Next]_vars
    PROVE  Control'
<1>1. CASE LauncherEnds
  BY <1>1, EndKeeps
<1>2. CASE StartUp
  <2>1. CASE Pre
    <3>1. (TryOnce /\ Go("exec")) \/ journal' = journal
      BY <2>1 DEF Pre, RestoreLauncher, NothingToRecover
    <3> QED BY <2>1, <3>1, CommitMoves, RecoveryMoves
  <2>2. CASE PreDone \/ ExecRestored \/ RecoverDone
    BY <1>1, <2>2, RecoveryMoves, StartUpEnds
  <2>3. CASE ExecFails
    <3>1. \/ RollbackRequest(handoff) /\ handoff # NoJob /\ Go("exec_wait")
          \/ ~(~managed /\ sup.exit = "relaunch" /\ handoff # NoJob)
      BY <2>3 DEF ExecFails
    <3> QED BY <1>1, <2>3, <3>1, RecoveryMoves, StartUpEnds
  <2>4. CASE Exec \/ Recovered \/ StartNext \/ AllStarted \/ Ready
    BY <2>4, StartUpQuietMoves
  <2>5. CASE Recover
    BY <2>5, RecoveryMoves
  <2>6. CASE Resume
    BY <2>6, ReadinessMoves, UnwindMoves
  <2>7. CASE Unwound
    BY <1>1, <2>7, UnwindMoves, StartUpEnds
  <2>8. CASE StartFails \/ Acknowledged
    BY <1>1, <2>8, UnwindMoves, StartUpEnds
  <2>9. CASE Released \/ FinishRelaunch
    BY <2>9, ReadinessMoves
  <2>10. CASE Acknowledge
    BY <2>10, ReadinessMoves, CommitMoves
  <2>11. CASE Report
    BY <1>1, <2>11, ReadinessMoves, LaterEnds
  <2> QED BY <1>2, <2>1, <2>2, <2>3, <2>4, <2>5, <2>6, <2>7, <2>8, <2>9, <2>10, <2>11 DEF StartUp
<1>3. CASE Updating
  <2>1. CASE DownloadEnds \/ TakeApply
    BY <2>1, TakingMoves
  <2>2. CASE TakeStage
    BY <2>2, StagingMoves
  <2>3. CASE UStop \/ UFails \/ UNotApplied \/ UPrepare
    BY <2>3, UpdateMoves
  <2>4. CASE UApplied
    BY <1>1, <2>4, UpdateQuietMoves, LaterEnds
  <2>5. CASE UStart \/ UCommitted \/ URestored \/ UUndone
    BY <2>5, UpdateQuietMoves
  <2>6. CASE UCommit
    BY <2>6, CommitMoves
  <2>7. CASE UAbandoned
    BY <1>1, <2>7, LaterEnds
  <2> QED BY <1>3, <2>1, <2>2, <2>3, <2>4, <2>5, <2>6, <2>7 DEF Updating
<1>4. CASE Restarting
  <2>1. CASE RStop
    BY <1>1, <2>1, RestartMoves, LaterEnds
  <2>2. CASE RAbandoned \/ RestartRefused
    BY <1>1, <2>2, LaterEnds
  <2> QED BY <1>4, <2>1, <2>2, RestartMoves DEF Restarting
<1>5. CASE Disturb
  <2>1. CASE Publish /\ UNCHANGED superVars
    BY <2>1, OutsideMoves DEF Publish, superVars, inbox
  <2>2. CASE Edit
    BY <2>2, OutsideMoves DEF Edit, EditModule, superVars, inbox
  <2>3. ASSUME NEW c \in Configs, SaveConfig(c)
        PROVE  Control'
    BY <2>3, OutsideMoves DEF SaveConfig, disk
  <2>4. CASE Kill \/ RSignal \/ ServiceDies \/ Shutdown
    BY <1>1, <2>4, LaterEnds
  <2>5. CASE StartStopped
    BY <1>1, <2>5, StartUpEnds
  <2>6. CASE USignal
    BY <2>6, UpdateMoves
  <2> QED BY <1>5, <2>1, <2>2, <2>3, <2>4, <2>5, <2>6 DEF Disturb
<1>6. CASE Boot
  BY <1>6, StartUpQuietMoves
<1>7. CASE UNCHANGED vars
  BY <1>7, OutsideMoves DEF vars, updateVars, superVars, inbox
<1> QED BY <1>2, <1>3, <1>4, <1>5, <1>6, <1>7, TransactMoves, DownloadMoves, AdminMoves DEF Next, Launching

-----------------------------------------------------------------------------
(* The restart plan covers what the services read *)

LEMMA ConsumersOfPorts ==
    ASSUME NEW key \in DOMAIN PortOwner
    PROVE  Consumers(key) = endpoint(PortOwner[key])
BY DEF Consumers, PortOwner

LEMMA ConsumersOfSettings ==
    /\ \A key \in AuthReads : Consumers(key) = {"auth"}
    /\ \A key \in StorageReads : Consumers(key) = {"storage"}
    /\ \A key \in FilterReads : Consumers(key) = {"filter"}
    /\ \A key \in {"allow_insecure_auth", "tls_certificate", "tls_private_key"} : Consumers(key) = Frontends
    /\ \A key \in {"web_session_seconds", "max_web_sessions", "web_root", "admin_hostname",
                   "webmail_shared_hostname"} : Consumers(key) = Portals
    /\ Consumers("max_auth_attempts") = {"smtp", "pop3", "imap"}
    /\ Consumers("max_recipients") = {"smtp"}
    /\ Consumers("mail_hostname") = {"transfer"} \cup Portals
    /\ \A key \in {"log_level", "timeout_seconds", "max_message_bytes"} : Consumers(key) = Group
<1>1. \A key \in AuthReads : Consumers(key) = {"auth"}
  BY DEF Consumers, PortOwner, AuthReads
<1>2. \A key \in StorageReads : Consumers(key) = {"storage"}
  BY DEF Consumers, PortOwner, StorageReads
<1>3. \A key \in FilterReads : Consumers(key) = {"filter"}
  BY DEF Consumers, PortOwner, FilterReads
<1>4. \A key \in {"allow_insecure_auth", "tls_certificate", "tls_private_key"} : Consumers(key) = Frontends
  BY DEF Consumers, PortOwner
<1>5. \A key \in {"web_session_seconds", "max_web_sessions", "web_root", "admin_hostname",
                  "webmail_shared_hostname"} : Consumers(key) = Portals
  BY DEF Consumers, PortOwner
<1>6. /\ Consumers("max_auth_attempts") = {"smtp", "pop3", "imap"}
      /\ Consumers("max_recipients") = {"smtp"}
      /\ Consumers("mail_hostname") = {"transfer"} \cup Portals
  BY DEF Consumers, PortOwner
<1>7. \A key \in {"log_level", "timeout_seconds", "max_message_bytes"} : Consumers(key) = Group
  BY DEF Consumers, PortOwner
<1> QED BY <1>1, <1>2, <1>3, <1>4, <1>5, <1>6, <1>7

LEMMA PortReadersAreRestarted ==
    ASSUME NEW s \in Group, NEW key \in DOMAIN PortOwner, PortOwner[key] \in {s} \cup Calls(s),
           <<s, key>> \notin Unplanned
    PROVE  s \in Consumers(key)
<1> DEFINE o == PortOwner[key]
<1>1. o \in {"auth", "storage", "filter", "transfer", "smtp", "pop3", "imap", "web", "admin"}
  BY DEF PortOwner
<1>2. o = "auth" => key = "ports/auth"
  BY DEF PortOwner
<1>3. s \in endpoint(o)
  <2>1. CASE s = o
    BY <2>1 DEF endpoint
  <2>2. CASE o \in Calls(s)
    <3>1. s = "storage" => o # "auth"
      BY <1>2 DEF Unplanned
    <3>2. \/ s = "storage" /\ o = "auth"
          \/ s = "delivery" /\ o \in {"storage", "filter", "transfer"}
          \/ s \in {"smtp", "pop3", "imap", "admin"} /\ o \in {"auth", "storage"}
          \/ s = "web" /\ o \in {"auth", "storage", "filter"}
      BY <2>2 DEF Calls
    <3> QED BY <3>1, <3>2 DEF endpoint, Frontends
  <2> QED BY <2>1, <2>2
<1> QED BY <1>3, ConsumersOfPorts

(* A changed setting restarts whoever reads it, but for the two that the plan does not know of. *)
LEMMA ReadersAreRestarted ==
    ASSUME NEW s \in Group, NEW key \in Reads(s), <<s, key>> \notin Unplanned
    PROVE  s \in Consumers(key)
<1>1. CASE key \in {"log_level", "timeout_seconds", "max_message_bytes"}
  BY <1>1, ConsumersOfSettings
<1>2. CASE key \in DOMAIN PortOwner /\ PortOwner[key] \in {s} \cup Calls(s)
  BY <1>2, PortReadersAreRestarted
<1>3. CASE key \in Own(s)
  <2>1. CASE s \in {"auth", "storage", "filter"}
    <3>1. \/ s = "auth" /\ key \in AuthReads
          \/ s = "storage" /\ key \in StorageReads
          \/ s = "filter" /\ key \in FilterReads
      BY <1>3, <2>1 DEF Own, Portals
    <3>2. (key \in AuthReads => Consumers(key) = {"auth"}) /\ (key \in StorageReads => Consumers(key) = {"storage"})
          /\ (key \in FilterReads => Consumers(key) = {"filter"})
      BY ConsumersOfSettings, Zenon
    <3> QED BY <3>1, <3>2
  <2>2. CASE s = "smtp"
    <3>1. key \in SmtpReads /\ key # "mail_hostname"
      BY <1>3, <2>2 DEF Own, Portals, Unplanned
    <3>2. \/ key \in {"allow_insecure_auth", "tls_certificate", "tls_private_key"}
          \/ key = "max_auth_attempts"
          \/ key = "max_recipients"
      BY <3>1 DEF SmtpReads
    <3> QED BY <2>2, <3>2, ConsumersOfSettings DEF Frontends
  <2>3. CASE s \in Portals
    <3>1. key \in PortalReads
      BY <1>3, <2>3 DEF Own, Portals
    <3> QED BY <2>3, <3>1, ConsumersOfSettings DEF PortalReads, Portals, Frontends
  <2> QED BY <1>3, <2>1, <2>2, <2>3 DEF Own
<1> QED BY <1>1, <1>2, <1>3 DEF Reads

(* What a service uses is the same in two configurations whose plan leaves it out. *)
LEMMA PlanCovers ==
    ASSUME NEW old, NEW new, NEW s \in Group, s \notin Affected(old, new), NEW key \in Used(s)
    PROVE  old[key] = new[key]
<1>1. s \in Consumers(key) /\ key \in Keys
  BY ReadersAreRestarted DEF Used
<1>2. old[key] # new[key] => s \in UNION {Consumers(k) : k \in ChangedKeys(old, new)}
  BY <1>1 DEF ChangedKeys
<1> QED BY <1>2 DEF Affected

-----------------------------------------------------------------------------
(* The configurations *)

(* A step that takes no service into account: if the launcher is ready after
   it, it was before, and no configuration changed.                          *)
LEMMA ConfigsStay ==
    ASSUME ConfigsFit, sup'.phase \notin RestartPhases \cup {"start", "ready", "released"},
           sup'.phase \in {"finish", "report"} => sup'.ready \/ sup'.exit # "none",
           sup'.ready => sup.ready /\ sup.phase \notin RestartPhases /\ UNCHANGED <<active, applied, conf>>
    PROVE  ConfigsFit'
BY DEF ConfigsFit, Uses, RestartPhases

LEMMA SameConfigs ==
    ASSUME ConfigsFit, UNCHANGED <<sup, active, conf, previous>>, applied' \in {applied, active}
    PROVE  ConfigsFit'
BY DEF ConfigsFit, Uses

LEMMA StartConfigs ==
    ASSUME SupervisorInvariant,
           \/ Boot \/ Exec \/ Recovered \/ StartNext \/ AllStarted \/ Ready \/ Released
           \/ Resume /\ (sup.job = NoJob \/ Installable)
    PROVE  ConfigsFit'
<1> USE DEF SupervisorInvariant
<1>1. UpdateTypeOK /\ GroupTypes /\ sup \in SupRecords /\ active \in Configs
  BY TypesSplit DEF GroupTypes, StatusTypes
<1>2. sup.phase \in {"down", "exec", "recover", "start", "ready", "released", "resume"}
  BY DEF Boot, Exec, Recovered, StartNext, AllStarted, Ready, Released, Resume, At
<1>3. ~sup.ready
  BY <1>2 DEF PhasesFit, Serviced, AfterReady, ApplyPhases, RestartPhases
<1>4. CASE Boot
  <2>1. SupIs("pre", {}, {}, NoJob, First, FALSE) \/ SupIs("exec", {}, {}, NoJob, First, FALSE)
    <3>1. \E p \in {"pre", "exec"} : sup' = [Down EXCEPT !.phase = p]
      BY <1>4 DEF Boot
    <3>2. PICK p \in {"pre", "exec"} : sup' = [Down EXCEPT !.phase = p]
      BY <3>1
    <3> QED BY <3>2, DownIs DEF Phases, Exits
  <2> QED BY <2>1, ConfigsStay DEF SupIs, RestartPhases
<1>5. CASE Exec
  <2>1. sup' = [sup EXCEPT !.phase = "recover", !.exit = "none", !.job = handoff]
    BY <1>5 DEF Exec
  <2>2. sup'.phase = "recover" /\ sup'.ready = sup.ready
    BY <1>1, <2>1 DEF SupRecords
  <2> QED BY <1>3, <2>2, ConfigsStay DEF RestartPhases
<1>6. CASE Recovered
  <2>1. sup'.phase = "resume" /\ sup'.ready = sup.ready
    BY <1>1, <1>6 DEF Recovered, Go, SupRecords
  <2> QED BY <1>3, <2>1, ConfigsStay DEF RestartPhases
<1>7. CASE Resume /\ (sup.job = NoJob \/ Installable)
  <2>1. sup' = [sup EXCEPT !.phase = "start", !.todo = Group]
    BY <1>7 DEF Resume
  <2>2. sup'.phase = "start" /\ sup'.ready = sup.ready /\ sup'.todo = Group
    BY <1>1, <2>1 DEF SupRecords
  <2> QED BY <1>3, <2>2 DEF ConfigsFit, RestartPhases
<1>8. CASE StartNext
  <2>1. PICK s \in sup.todo : StartService(s, active)
    BY <1>8 DEF StartNext
  <2>2. active \in Configs /\ conf \in [Group -> Configs] /\ UNCHANGED active /\ sup.phase = "start"
    BY <1>1, <1>8 DEF GroupTypes, StartNext, At
  <2>3. /\ SupIs("start", sup.todo \ {s}, sup.plan, sup.job, sup.target, sup.ready)
        /\ conf' = [conf EXCEPT ![s] = active]
    BY <1>1, <2>1, <2>2, StartServiceIs DEF SupIs
  <2>4. \A t \in Group \ (sup.todo \ {s}) : conf'[t] = active
    BY <2>2, <2>3 DEF ConfigsFit
  <2> QED BY <1>3, <2>2, <2>3, <2>4 DEF ConfigsFit, SupIs, RestartPhases
<1>9. CASE AllStarted
  <2>1. sup'.phase = "ready" /\ sup'.ready = sup.ready
    BY <1>1, <1>9 DEF AllStarted, Go, SupRecords
  <2>2. \A s \in Group : conf[s] = active
    BY <1>9 DEF AllStarted, At, ConfigsFit
  <2>3. UNCHANGED <<active, conf>>
    BY <1>9 DEF AllStarted
  <2> QED BY <1>3, <2>1, <2>2, <2>3 DEF ConfigsFit, Uses, RestartPhases
<1>10. CASE Ready
  <2>1. sup'.phase = "released" /\ sup'.ready = sup.ready
    BY <1>1, <1>10 DEF Ready, Go, SupRecords
  <2>2. UNCHANGED <<active, conf>> /\ applied' = active /\ sup.phase = "ready"
    BY <1>10 DEF Ready, At
  <2> QED BY <1>3, <2>1, <2>2 DEF ConfigsFit, Uses, RestartPhases
<1>11. CASE Released
  <2>1. sup'.phase \in {"ack", "serve"} /\ sup.phase = "released" /\ UNCHANGED <<active, conf, applied>>
    BY <1>1, <1>11 DEF Released, SupRecords, At
  <2> QED BY <2>1 DEF ConfigsFit, Uses, RestartPhases
<1> QED BY <1>4, <1>5, <1>6, <1>7, <1>8, <1>9, <1>10, <1>11

LEMMA RestartConfigs ==
    ASSUME SupervisorInvariant,
           \/ TakeRestart \/ RStart \/ RFails \/ RDone \/ RRestore \/ RRestored
           \/ RStop /\ ~restart.manager
    PROVE  ConfigsFit'
<1> USE DEF SupervisorInvariant
<1>1. UpdateTypeOK /\ GroupTypes /\ InboxTypes /\ sup \in SupRecords /\ active \in Configs
  BY TypesSplit DEF GroupTypes, StatusTypes
<1>2. sup.ready /\ applied = active
  <2>1. sup.phase \in {"serve", "r_stop", "r_start", "r_restore"}
    BY DEF TakeRestart, RStart, RFails, RDone, RRestore, RRestored, RStop, Serving, At
  <2> QED BY <2>1 DEF PhasesFit, AfterReady, RestartPhases, ConfigsFit
<1>3. conf \in [Group -> Configs] /\ previous \in [Group -> Configs] /\ active \in Configs /\ sup.target \in Configs
  BY <1>1 DEF GroupTypes, SupRecords
<1>4. CASE TakeRestart
  <2> DEFINE r == mailbox.restart
             plan == restart_plan(active, r.config, r.mode)
  <2>1. CASE ~(config = r.config /\ PlanAllowed(active, r.config, r.mode))
    <3>1. UNCHANGED <<sup, active, conf, previous>> /\ applied' = active
      BY <1>4, <2>1 DEF TakeRestart
    <3> QED BY <3>1, SameConfigs
  <2>2. CASE config = r.config /\ PlanAllowed(active, r.config, r.mode)
    <3>1. /\ sup' = [sup EXCEPT !.phase = "r_stop", !.target = r.config, !.plan = plan]
          /\ UNCHANGED <<active, conf, applied>> /\ previous' = conf /\ sup.phase = "serve"
      BY <1>4, <2>2 DEF TakeRestart, Serving, At
    <3>2. sup'.phase = "r_stop" /\ sup'.target = r.config /\ sup'.plan = plan
      BY <1>1, <3>1 DEF SupRecords
    <3>3. r.mode \in Modes
      BY <1>1 DEF InboxTypes, Requests
    <3>4. ASSUME NEW s \in Group \ plan, NEW k \in Used(s)
          PROVE  active[k] = r.config[k]
      <4>1. s \notin Affected(active, r.config)
        <5>1. CASE r.mode = "all"
          BY <3>4, <5>1 DEF restart_plan
        <5>2. CASE r.mode = "changed"
          BY <3>4, <5>2 DEF restart_plan
        <5>3. CASE r.mode \in Group
          BY <2>2, <5>3 DEF PlanAllowed
        <5> QED BY <3>3, <5>1, <5>2, <5>3 DEF Modes
      <4> QED BY <4>1, PlanCovers
    <3>5. \A s \in Group : Uses(conf, s, active)
      BY <1>2, <3>1 DEF ConfigsFit, RestartPhases
    <3> QED BY <1>2, <3>1, <3>2, <3>4, <3>5 DEF ConfigsFit, Uses, RestartPhases
  <2> QED BY <2>1, <2>2
<1>5. CASE RStop /\ ~restart.manager
  <2>1. sup' = [sup EXCEPT !.phase = "r_start", !.todo = sup.plan] /\ UNCHANGED <<active, conf, previous, applied>>
        /\ sup.phase = "r_stop"
    BY <1>5 DEF RStop, At, durable
  <2>2. sup'.phase = "r_start" /\ sup'.todo = sup.plan /\ sup'.plan = sup.plan /\ sup'.target = sup.target
    BY <1>1, <2>1 DEF SupRecords
  <2> QED BY <1>2, <2>1, <2>2 DEF ConfigsFit, Uses, RestartPhases
<1>6. CASE RFails
  <2>1. sup' = [sup EXCEPT !.phase = "r_restore", !.todo = sup.plan] /\ UNCHANGED <<active, conf, previous, applied>>
        /\ sup.phase \in {"r_stop", "r_start"}
    BY <1>6 DEF RFails, ToRestore, At, durable
  <2>2. sup'.phase = "r_restore" /\ sup'.todo = sup.plan /\ sup'.plan = sup.plan /\ sup'.target = sup.target
    BY <1>1, <2>1 DEF SupRecords
  <2> QED BY <1>2, <2>1, <2>2 DEF ConfigsFit, Uses, RestartPhases
<1>7. CASE RStart
  <2>1. PICK s \in sup.todo : StartService(s, sup.target)
    BY <1>7 DEF RStart
  <2>2. /\ SupIs("r_start", sup.todo \ {s}, sup.plan, sup.job, sup.target, sup.ready)
        /\ conf' = [conf EXCEPT ![s] = sup.target] /\ s \in sup.plan /\ sup.phase = "r_start"
        /\ UNCHANGED <<active, previous, applied>>
    BY <1>1, <1>3, <1>7, <2>1, StartServiceIs DEF RStart, At, durable, ConfigsFit, SupIs
  <2>3. /\ \A t \in Group \ sup.plan : conf'[t] = conf[t]
        /\ \A t \in sup.plan \ (sup.todo \ {s}) : conf'[t] = sup.target
    <3>1. sup.plan \subseteq Group
      BY <1>1 DEF SupRecords
    <3> QED BY <1>3, <2>2, <3>1 DEF ConfigsFit
  <2> QED BY <1>2, <2>2, <2>3 DEF ConfigsFit, Uses, SupIs, RestartPhases
<1>8. CASE RRestore
  <2>1. PICK s \in sup.todo : StartService(s, previous[s])
    BY <1>8 DEF RRestore
  <2>2. previous[s] \in Configs
    BY <1>1, <1>3, <2>1 DEF SupRecords
  <2>3. /\ SupIs("r_restore", sup.todo \ {s}, sup.plan, sup.job, sup.target, sup.ready)
        /\ conf' = [conf EXCEPT ![s] = previous[s]] /\ s \in sup.plan /\ sup.phase = "r_restore"
        /\ UNCHANGED <<active, previous, applied>>
    BY <1>1, <1>3, <1>8, <2>1, <2>2, StartServiceIs DEF RRestore, At, durable, ConfigsFit, SupIs
  <2>4. /\ \A t \in Group \ sup.plan : conf'[t] = conf[t]
        /\ \A t \in sup.plan \ (sup.todo \ {s}) : conf'[t] = previous[t]
    <3>1. sup.plan \subseteq Group
      BY <1>1 DEF SupRecords
    <3> QED BY <1>3, <2>3, <3>1 DEF ConfigsFit
  <2> QED BY <1>2, <2>3, <2>4 DEF ConfigsFit, Uses, SupIs, RestartPhases
<1>9. CASE RDone
  <2>1. sup'.phase = "serve" /\ sup.phase = "r_start" /\ sup.todo = {} /\ conf' = conf
        /\ active' = sup.target /\ applied' = sup.target
    BY <1>9, ServeIs DEF RDone, SupIs, At
  <2>2. ASSUME NEW s \in Group, NEW k \in Used(s)
        PROVE  conf[s][k] = sup.target[k]
    <3>1. CASE s \in sup.plan
      BY <2>1, <3>1 DEF ConfigsFit
    <3>2. CASE s \notin sup.plan
      BY <2>1, <2>2, <3>2 DEF ConfigsFit, Uses, RestartPhases
    <3> QED BY <3>1, <3>2
  <2> QED BY <2>1, <2>2 DEF ConfigsFit, Uses, RestartPhases
<1>10. CASE RRestored
  <2>1. sup'.phase = "serve" /\ sup.phase = "r_restore" /\ sup.todo = {} /\ UNCHANGED <<conf, active>>
        /\ applied' = active
    BY <1>10, ServeIs DEF RRestored, SupIs, At
  <2>2. \A s \in Group : conf[s] = previous[s] /\ Uses(previous, s, active)
    BY <2>1 DEF ConfigsFit, RestartPhases
  <2> QED BY <2>1, <2>2 DEF ConfigsFit, Uses, RestartPhases
<1> QED BY <1>4, <1>5, <1>6, <1>7, <1>8, <1>9, <1>10

-----------------------------------------------------------------------------
(* The other steps of the launcher, by the phases they lead to *)

StartingSteps ==
    \/ Pre \/ Recover \/ FinishRelaunch
    \/ (PreDone \/ ExecRestored \/ RecoverDone \/ Unwound) /\ call.fn = "ok"
    \/ ExecFails /\ ~managed /\ sup.exit = "relaunch" /\ handoff # NoJob
    \/ Resume /\ ~(sup.job = NoJob \/ Installable)
    \/ StartFails /\ sup.job # NoJob /\ journal[sup.job].state # "complete"

(* A launcher that is not ready yet. *)
LEMMA StartingMoves ==
    ASSUME SupervisorInvariant, ~sup.ready, StartingSteps
    PROVE  /\ ~sup'.ready /\ handoff' \in {handoff, NoJob} /\ restart' = restart /\ abandoned' = abandoned
           /\ \/ sup'.phase \in {"pre_wait", "exec", "exec_wait", "recover", "recover_wait", "resume_wait"}
              \/ sup'.phase = "unwind_wait" /\ handoff # NoJob
              \/ sup'.phase = "finish" /\ handoff # NoJob /\ sup'.exit # "none"
              \/ sup'.phase = "report" /\ sup.phase = "finish" /\ sup'.exit # "none"
           /\ reservation' = reservation \/ handoff = NoJob
<1> USE DEF SupervisorInvariant
<1>1. sup \in SupRecords
  BY TypesSplit DEF GroupTypes
<1>2. sup.phase \in Started => sup.job = handoff
  BY DEF PhasesFit
<1>3. CASE Pre
  <2>1. Go("exec") \/ Go("pre_wait")
    BY <1>3 DEF Pre
  <2>2. sup'.phase \in {"exec", "pre_wait"} /\ ~sup'.ready
    BY <1>1, <2>1 DEF Go, SupRecords
  <2> QED BY <1>3, <2>2 DEF Pre, durable, host
<1>4. CASE Recover
  <2>1. sup'.phase = "recover_wait" /\ ~sup'.ready
    BY <1>1, <1>4 DEF Recover, Go, SupRecords
  <2> QED BY <1>4, <2>1 DEF Recover, durable, host, disk
<1>5. CASE FinishRelaunch
  <2>1. sup'.phase = "report" /\ ~sup'.ready /\ sup'.exit = sup.exit /\ sup.phase = "finish"
    BY <1>1, <1>5 DEF FinishRelaunch, Go, SupRecords, At
  <2>2. sup.exit # "none"
    BY <2>1 DEF ConfigsFit
  <2> QED BY <1>5, <2>1, <2>2 DEF FinishRelaunch, Finish, durable, host
<1>6. CASE PreDone /\ call.fn = "ok"
  <2>1. sup'.phase = "exec" /\ ~sup'.ready
    BY <1>1, <1>6 DEF PreDone, Go, SupRecords
  <2> QED BY <1>6, <2>1 DEF PreDone, durable, host, disk
<1>7. CASE ExecRestored /\ call.fn = "ok"
  <2>1. sup'.phase = "exec" /\ ~sup'.ready
    BY <1>1, <1>7 DEF ExecRestored, SupRecords
  <2> QED BY <1>7, <2>1 DEF ExecRestored, durable, host, disk
<1>8. CASE RecoverDone /\ call.fn = "ok"
  <2>1. sup'.phase = "recover" /\ ~sup'.ready
    BY <1>1, <1>8 DEF RecoverDone, Go, SupRecords
  <2>2. handoff = NoJob
    BY <1>8 DEF RecoverDone, At, PhasesFit
  <2> QED BY <1>8, <2>1, <2>2 DEF RecoverDone, host, disk
<1>9. CASE Unwound /\ call.fn = "ok"
  <2>1. /\ sup' = [sup EXCEPT !.phase = "finish", !.exit = "relaunch"]
        /\ UNCHANGED <<durable, host, disk>> /\ sup.phase \in {"resume_wait", "unwind_wait"}
    BY <1>9, UnwoundIs DEF Unwound
  <2>2. sup'.phase = "finish" /\ ~sup'.ready /\ sup'.exit = "relaunch"
    BY <1>1, <2>1 DEF SupRecords
  <2>3. handoff # NoJob
    BY <2>1 DEF PhasesFit, Started
  <2> QED BY <2>1, <2>2, <2>3 DEF durable, host, disk
<1>10. CASE ExecFails /\ ~managed /\ sup.exit = "relaunch" /\ handoff # NoJob
  <2>1. sup'.phase = "exec_wait" /\ ~sup'.ready
    BY <1>1, <1>10 DEF ExecFails, Go, SupRecords
  <2> QED BY <1>10, <2>1 DEF ExecFails, durable, disk
<1>11. CASE Resume /\ ~(sup.job = NoJob \/ Installable)
  <2>1. sup'.phase = "resume_wait" /\ ~sup'.ready
    BY <1>1, <1>11 DEF Resume, Go, SupRecords
  <2> QED BY <1>11, <2>1 DEF Resume, durable, host, disk
<1>12. CASE StartFails /\ sup.job # NoJob /\ journal[sup.job].state # "complete"
  <2>1. /\ sup' = [sup EXCEPT !.phase = "unwind_wait", !.todo = {}]
        /\ UNCHANGED <<durable, host, disk>> /\ sup.phase = "start"
    BY <1>12, StartupFailsIs DEF StartFails, At
  <2>2. sup'.phase = "unwind_wait" /\ ~sup'.ready
    BY <1>1, <2>1 DEF SupRecords
  <2>3. handoff # NoJob
    BY <1>12, <2>1 DEF PhasesFit, Started
  <2> QED BY <2>1, <2>2, <2>3 DEF durable, host, disk
<1> QED BY <1>3, <1>4, <1>5, <1>6, <1>7, <1>8, <1>9, <1>10, <1>11, <1>12 DEF StartingSteps

WorkingSteps ==
    \/ FinishRelaunch \/ Acknowledge \/ UStop \/ UFails \/ UPrepare \/ UNotApplied \/ UStart
    \/ UCommit \/ UCommitted \/ UUndone \/ URestored \/ USignal
    \/ (Unwound \/ Acknowledged) /\ call.fn = "ok"
    \/ Acknowledged /\ call.fn # "ok" /\ sup.job # NoJob /\ journal[sup.job].state # "complete"
    \/ UApplied /\ ~HasLauncher(sup.job)

LEMMA FailUpdateKeeps ==
    ASSUME SupervisorInvariant, FailUpdate, sup.phase \in ApplyPhases
    PROVE  sup'.ready = sup.ready /\ sup'.phase \in {"report", "u_undo"}
BY FailUpdateIs DEF SupIs

(* One that is ready, and works at an update. *)
LEMMA WorkingMoves ==
    ASSUME SupervisorInvariant, sup.ready, WorkingSteps
    PROVE  /\ sup'.ready /\ UNCHANGED <<active, applied, conf, restart, reservation, mailbox, download, abandoned>>
           /\ handoff' \in {handoff, NoJob, sup.job} /\ handlers' \in {handlers, NoHandlers}
           /\ \/ sup.phase \in ApplyPhases /\ sup'.phase \in ApplyPhases \cup {"report"}
              \/ /\ sup.phase \in {"ack", "ack_wait", "unwind_wait", "finish"}
                 /\ sup'.phase \in {"ack_wait", "unwind_wait", "finish", "report"}
<1> USE DEF SupervisorInvariant
<1>1. UpdateTypeOK /\ sup \in SupRecords /\ GroupTypes /\ InboxTypes
  BY TypesSplit DEF GroupTypes
<1>2. CASE FinishRelaunch \/ Acknowledge
  <2>1. /\ (Go("report") /\ sup.phase = "finish") \/ (sup.phase = "ack" /\ (Go("finish") \/ Go("ack_wait")))
        /\ handoff' \in {handoff, NoJob}
    BY <1>2 DEF FinishRelaunch, Acknowledge, Finish, At
  <2>2. sup'.ready /\ (sup'.phase = "report" \/ sup'.phase = "finish" \/ sup'.phase = "ack_wait")
    BY <1>1, <2>1 DEF Go, SupRecords
  <2>3. UNCHANGED <<durable, host, active, conf, inbox>>
    BY <1>2 DEF FinishRelaunch, Acknowledge
  <2> QED BY <2>1, <2>2, <2>3 DEF durable, host, inbox
<1>3. CASE (Unwound \/ Acknowledged) /\ call.fn = "ok"
  <2>1. sup' = [sup EXCEPT !.phase = "finish", !.exit = "relaunch"] \/ Go("finish")
    BY <1>3, UnwoundIs DEF Acknowledged
  <2>2. sup'.ready /\ sup'.phase = "finish"
    BY <1>1, <2>1 DEF Go, SupRecords
  <2>3. UNCHANGED <<durable, host, active, conf, inbox, disk>>
    BY <1>3, UnwoundIs DEF Unwound, Acknowledged
  <2>4. sup.phase \in {"ack_wait", "unwind_wait"}
    BY <1>3 DEF Unwound, Acknowledged, At, PhasesFit, Serviced, AfterReady, ApplyPhases, RestartPhases
  <2> QED BY <2>2, <2>3, <2>4 DEF durable, host, inbox, disk
<1>4. CASE Acknowledged /\ call.fn # "ok" /\ sup.job # NoJob /\ journal[sup.job].state # "complete"
  <2>1. StartupFails /\ sup.phase = "ack_wait" /\ UNCHANGED disk
    BY <1>4 DEF Acknowledged, At
  <2>2. /\ sup' = [sup EXCEPT !.phase = "unwind_wait", !.todo = {}] /\ StopServices(Group)
        /\ UNCHANGED <<durable, host, active, conf, mailbox, download>>
    BY <1>4, <2>1, StartupFailsIs
  <2>3. sup'.ready /\ sup'.phase = "unwind_wait"
    BY <1>1, <2>2 DEF SupRecords
  <2>4. handlers' \in {handlers, NoHandlers}
    BY <1>1, <2>2, StopServicesIs
  <2> QED BY <2>1, <2>2, <2>3, <2>4 DEF durable, host, disk
<1>5. FailUpdate => handlers' \in {handlers, NoHandlers}
  BY <1>1, StopServicesIs DEF FailUpdate
<1>6. CASE UFails \/ UNotApplied
  <2>1. FailUpdate /\ sup.phase \in ApplyPhases /\ UNCHANGED <<durable, host, active, conf, mailbox, download, disk>>
    BY <1>6 DEF UFails, UNotApplied, At, ApplyPhases
  <2> QED BY <1>5, <2>1, FailUpdateKeeps DEF durable, host, disk, ApplyPhases
<1>7. CASE UPrepare
  <2>1. UNCHANGED <<durable, host, active, conf, mailbox, download>> /\ sup.phase = "u_prepare"
    BY <1>7 DEF UPrepare, At
  <2>2. \/ handoff' = sup.job /\ Go("u_apply") /\ handlers' = handlers
        \/ FailUpdate /\ handoff' = handoff
    BY <1>7 DEF UPrepare
  <2>3. Go("u_apply") => sup'.ready /\ sup'.phase = "u_apply"
    BY <1>1 DEF Go, SupRecords
  <2> QED BY <1>5, <2>1, <2>2, <2>3, FailUpdateKeeps DEF durable, host, ApplyPhases
<1>8. CASE UStop
  <2>1. UNCHANGED <<durable, host, active, conf, mailbox, download, disk>> /\ sup.phase = "u_stop"
        /\ (Go("u_prepare") \/ Go("u_apply")) /\ StopServices(sup.plan)
    BY <1>8 DEF UStop, At
  <2>2. sup'.ready /\ sup'.phase \in {"u_prepare", "u_apply"}
    BY <1>1, <2>1 DEF Go, SupRecords
  <2>3. handlers' \in {handlers, NoHandlers}
    BY <1>1, <2>1, StopServicesIs
  <2> QED BY <2>1, <2>2, <2>3 DEF durable, host, disk, ApplyPhases
<1>9. CASE UApplied /\ ~HasLauncher(sup.job)
  <2>1. UNCHANGED <<durable, host, active, conf, inbox, handoff>> /\ sup.phase = "u_apply"
        /\ sup' = [sup EXCEPT !.phase = "u_start", !.todo = sup.plan]
    BY <1>9 DEF UApplied, At
  <2>2. sup'.ready /\ sup'.phase = "u_start"
    BY <1>1, <2>1 DEF SupRecords
  <2> QED BY <2>1, <2>2 DEF durable, host, inbox, ApplyPhases
<1>10. CASE UStart
  <2>1. PICK s \in sup.todo : StartService(s, conf[s])
    BY <1>10 DEF UStart
  <2>2. /\ UNCHANGED <<updateVars, durable, host, active, inbox>> /\ sup.phase \in {"u_start", "u_restore"}
    BY <1>10 DEF UStart
  <2>3. conf \in [Group -> Configs] /\ s \in Group /\ conf[s] \in Configs
    BY <1>1 DEF GroupTypes, SupRecords
  <2>4. sup'.ready = sup.ready /\ sup'.phase = sup.phase /\ conf' = [conf EXCEPT ![s] = conf[s]]
    BY <1>1, <2>1, <2>3, StartServiceIs DEF SupIs
  <2>5. conf' = conf
    BY <2>3, <2>4
  <2> QED BY <2>2, <2>4, <2>5 DEF durable, host, inbox, updateVars, ApplyPhases
<1>11. CASE UCommit \/ UCommitted \/ URestored
  <2>1. /\ UNCHANGED <<durable, host, active, conf, inbox, handoff>> /\ sup.phase \in ApplyPhases
        /\ Go("u_commit") \/ Go("report")
    BY <1>11 DEF UCommit, UCommitted, URestored, At, disk, updateVars, ApplyPhases
  <2>2. sup'.ready /\ sup'.phase \in {"u_commit", "report"}
    BY <1>1, <2>1 DEF Go, SupRecords
  <2> QED BY <2>1, <2>2 DEF durable, host, inbox, ApplyPhases
<1>12. CASE UUndone
  <2>1. PICK t : sup' = [sup EXCEPT !.phase = "u_restore", !.todo = t]
    BY <1>12 DEF UUndone
  <2>2. sup'.ready /\ sup'.phase = "u_restore"
    BY <1>1, <2>1 DEF SupRecords
  <2> QED BY <1>12, <2>2 DEF UUndone, At, Finish, durable, host, inbox, ApplyPhases
<1>13. CASE USignal
  <2>1. UNCHANGED <<durable, host, active, conf, mailbox, download, disk>> /\ sup.phase = "u_start"
        /\ sup' = [sup EXCEPT !.phase = "u_undo", !.exit = "stopped"] /\ StopServices(sup.plan)
    BY <1>13 DEF USignal, At
  <2>2. sup'.ready /\ sup'.phase = "u_undo"
    BY <1>1, <2>1 DEF SupRecords
  <2>3. handlers' \in {handlers, NoHandlers}
    BY <1>1, <2>1, StopServicesIs
  <2> QED BY <2>1, <2>2, <2>3 DEF durable, host, disk, ApplyPhases
<1> QED BY <1>2, <1>3, <1>4, <1>6, <1>7, <1>8, <1>9, <1>10, <1>11, <1>12, <1>13 DEF WorkingSteps

-----------------------------------------------------------------------------
(* The kinds of steps *)

GettingReady ==
    \/ Boot \/ Exec \/ Recovered \/ StartNext \/ AllStarted \/ Ready \/ Released
    \/ Resume /\ (sup.job = NoJob \/ Installable)
RestartSteps ==
    \/ TakeRestart \/ RStart \/ RFails \/ RDone \/ RRestore \/ RRestored
    \/ RStop /\ ~restart.manager
Aside ==
    UNCHANGED <<applied, restart, update, reservation, sup, active, conf, previous, mailbox, download, handlers,
                abandoned, handoff>>

Kinds ==
    \/ LauncherEnds \/ GettingReady
    \/ (~sup.ready /\ StartingSteps)
    \/ (sup.ready /\ WorkingSteps)
    \/ (Report /\ sup.exit = "none")
    \/ DownloadEnds \/ TakeStage \/ TakeApply \/ RestartSteps \/ Administer \/ Aside

LEMMA StepKinds ==
    ASSUME SupervisorInvariant, [Next]_vars
    PROVE  Kinds
<1>1. sup.ready => sup.phase \in Serviced
  BY DEF SupervisorInvariant, PhasesFit
<1>2. sup.phase \in AfterReady => sup.ready
  BY DEF SupervisorInvariant, PhasesFit
<1>3. CASE StartUp
  <2>1. CASE Pre \/ PreDone \/ Recover \/ RecoverDone \/ ExecFails \/ ExecRestored
    <3>1. ~sup.ready
      BY <1>1, <2>1 DEF Pre, PreDone, Recover, RecoverDone, ExecFails, ExecRestored, At,
         Serviced, AfterReady, ApplyPhases, RestartPhases
    <3> QED BY <2>1, <3>1, StartUpEnds DEF StartingSteps, Kinds
  <2>2. CASE Exec \/ Recovered \/ StartNext \/ AllStarted \/ Ready \/ Released
    BY <2>2 DEF GettingReady, Kinds
  <2>3. CASE Resume
    <3>1. ~sup.ready
      BY <1>1, <2>3 DEF Resume, At, Serviced, AfterReady, ApplyPhases, RestartPhases
    <3> QED BY <2>3, <3>1 DEF GettingReady, StartingSteps, Kinds
  <2>4. CASE Unwound
    BY <2>4, StartUpEnds DEF StartingSteps, WorkingSteps, Kinds
  <2>5. CASE StartFails
    <3>1. ~sup.ready
      BY <1>1, <2>5 DEF StartFails, At, Serviced, AfterReady, ApplyPhases, RestartPhases
    <3> QED BY <2>5, <3>1, StartUpEnds DEF StartingSteps, Kinds
  <2>6. CASE Acknowledge \/ Acknowledged
    <3>1. sup.ready
      BY <1>2, <2>6 DEF Acknowledge, Acknowledged, At, AfterReady
    <3> QED BY <2>6, <3>1, StartUpEnds DEF WorkingSteps, Kinds
  <2>7. CASE FinishRelaunch
    BY <2>7 DEF StartingSteps, WorkingSteps, Kinds
  <2>8. CASE Report
    BY <2>8, LaterEnds DEF Kinds
  <2> QED BY <1>3, <2>1, <2>2, <2>3, <2>4, <2>5, <2>6, <2>7, <2>8 DEF StartUp
<1>4. CASE Updating \/ USignal
  <2>1. CASE DownloadEnds \/ TakeStage \/ TakeApply
    BY <2>1 DEF Kinds
  <2>2. CASE UStop \/ UFails \/ UPrepare \/ UNotApplied \/ UStart \/ UCommit \/ UCommitted \/ UUndone
              \/ URestored \/ USignal \/ UApplied
    <3>1. sup.ready
      BY <1>2, <2>2 DEF UStop, UFails, UPrepare, UNotApplied, UStart, UCommit, UCommitted, UUndone, URestored,
         USignal, UApplied, At, AfterReady, ApplyPhases
    <3> QED BY <2>2, <3>1, LaterEnds DEF WorkingSteps, Kinds
  <2>3. CASE UAbandoned
    BY <2>3, LaterEnds DEF Kinds
  <2> QED BY <1>4, <2>1, <2>2, <2>3 DEF Updating
<1>5. CASE Restarting
  BY <1>5, LaterEnds DEF Restarting, RestartSteps, Kinds
<1>6. CASE Transact
  <2>1. call.fn # "idle"
    BY <1>6 DEF Transact, CallStep, ApplyAnswered, ApplyRefused, ApplyChecked, JournalModule, WriteModule,
       WriteFails, AllReplaced, RollMetadata, RollModule, JournalRestored, RollFails, RolledBack, WriteMetadata,
       MarkComplete, CommitFails, RemarkFailed
  <2>2. PICK j \in Jobs : j = call.job /\ journal[j].state \notin {"none", "staging"}
    BY <2>1, CallHasJob DEF SupervisorInvariant
  <2>3. UpdateTypeOK
    BY TypesSplit DEF SupervisorInvariant
  <2>4. handoff' = handoff
    BY <1>6, <2>2, <2>3, CallStepMoves DEF Transact
  <2> QED BY <1>6, <2>4 DEF Transact, superVars, Aside, Kinds
<1>7. CASE Download \/ (Publish /\ UNCHANGED superVars) \/ Edit \/ UNCHANGED vars
  BY <1>7 DEF Download, StageVerified, StageFails, Publish, Edit, EditModule, vars, updateVars, superVars, Aside, Kinds
<1>8. CASE \E c \in Configs : SaveConfig(c)
  BY <1>8 DEF SaveConfig, disk, host, inbox, Aside, Kinds
<1>9. CASE Kill \/ RSignal \/ ServiceDies \/ Shutdown \/ StartStopped
  BY <1>9, LaterEnds, StartUpEnds DEF Kinds
<1>10. CASE Boot
  BY <1>10 DEF GettingReady, Kinds
<1> QED BY <1>3, <1>4, <1>5, <1>6, <1>7, <1>8, <1>9, <1>10 DEF Next, Launching, Disturb, Kinds

-----------------------------------------------------------------------------
(* Maintenance *)

(* Nobody holds the reservation. *)
Nobody == mailbox = NoMail /\ download = NoJob /\ \A a \in Admins : ~Reserved(a)

LEMMA NobodyBeforeReady ==
    ASSUME SupervisorInvariant, ~sup.ready
    PROVE  Nobody
BY QuietBeforeReady DEF SupervisorInvariant, Nobody, NoHandlers, Reserved, NoHandler

LEMMA WorkerIsAlone ==
    ASSUME OneHolder, Working \/ sup.phase \in {"ack", "ack_wait", "unwind_wait", "finish", "report"}
    PROVE  Nobody
BY DEF OneHolder, Nobody

LEMMA NobodyStays ==
    ASSUME Nobody, handlers' \in {handlers, NoHandlers}, mailbox' = mailbox, download' = download
    PROVE  Nobody'
<1>1. \A a \in Admins : ~Reserved(a)'
  BY DEF Nobody, Reserved, NoHandlers, NoHandler
<1> QED BY <1>1 DEF Nobody

(* What is left of the invariant where nobody holds the reservation. *)
LEMMA NobodyHolds ==
    ASSUME Nobody', sup'.ready /\ sup'.phase = "report" => reservation',
           Working' => reservation',
           handoff' # NoJob => reservation' /\ ~RestartAbandoned',
           RestartAbandoned' =>
                \/ ~sup'.ready /\ sup'.phase \notin {"released", "report", "finish", "unwind_wait"}
                \/ sup'.phase \in RestartPhases
    PROVE  OneHolder'
BY DEF OneHolder, Nobody, NoMail

LEMMA StartingKeepsHolder ==
    ASSUME SupervisorInvariant, OneHolder, StartingSteps, ~sup.ready
    PROVE  OneHolder'
<1> USE DEF SupervisorInvariant
<1>1. SupervisorTypeOK
  OBVIOUS
<1>2. /\ ~sup'.ready /\ handoff' \in {handoff, NoJob} /\ restart' = restart
      /\ \/ sup'.phase \in {"pre_wait", "exec", "exec_wait", "recover", "recover_wait", "resume_wait"}
         \/ sup'.phase \in {"unwind_wait", "finish"} /\ handoff # NoJob
         \/ sup'.phase = "report" /\ sup.phase = "finish"
      /\ reservation' = reservation \/ handoff = NoJob
  BY StartingMoves
<1>3. Nobody /\ StartUp
  BY NobodyBeforeReady DEF StartingSteps, StartUp
<1>4. Nobody'
  <2>1. InboxKept => Nobody'
    BY <1>3, NobodyStays DEF InboxKept
  <2>2. InboxGone => Nobody'
    BY DEF InboxGone, Nobody, NoHandlers, NoHandler, Reserved
  <2> QED BY <1>1, <1>3, <2>1, <2>2, StartUpInbox
<1>5. RestartAbandoned' <=> RestartAbandoned
  BY <1>2 DEF RestartAbandoned
<1>6. handoff' # NoJob => reservation' /\ ~RestartAbandoned'
  BY <1>2, <1>5 DEF OneHolder
<1>7. ~Working'
  BY <1>2 DEF Working, ApplyPhases, RestartPhases
<1>8. RestartAbandoned' => sup'.phase \notin {"released", "report", "finish", "unwind_wait"}
  BY <1>2, <1>5 DEF OneHolder, RestartPhases
<1> QED BY <1>2, <1>4, <1>6, <1>7, <1>8, NobodyHolds

LEMMA WorkingKeepsHolder ==
    ASSUME SupervisorInvariant, OneHolder, WorkingSteps, sup.ready
    PROVE  OneHolder'
<1> USE DEF SupervisorInvariant
<1>1. /\ sup'.ready /\ UNCHANGED <<restart, reservation, mailbox, download>>
      /\ handoff' \in {handoff, NoJob, sup.job} /\ handlers' \in {handlers, NoHandlers}
      /\ \/ sup.phase \in ApplyPhases /\ sup'.phase \in ApplyPhases \cup {"report"}
         \/ /\ sup.phase \in {"ack", "ack_wait", "unwind_wait", "finish"}
            /\ sup'.phase \in {"ack_wait", "unwind_wait", "finish", "report"}
  BY WorkingMoves
<1>2. Nobody
  BY <1>1, WorkerIsAlone DEF Working
<1>3. Nobody'
  BY <1>1, <1>2, NobodyStays
<1>4. reservation
  <2>1. CASE sup.phase \in ApplyPhases
    BY <2>1 DEF OneHolder, Working
  <2>2. CASE sup.phase \in {"ack", "ack_wait", "unwind_wait", "finish"}
    <3>1. handoff # NoJob
      BY <2>2 DEF PhasesFit, Started
    <3> QED BY <3>1 DEF OneHolder
  <2> QED BY <1>1, <2>1, <2>2
<1>5. ~RestartAbandoned'
  BY <1>1 DEF OneHolder, RestartAbandoned, ApplyPhases, RestartPhases
<1> QED BY <1>1, <1>3, <1>4, <1>5, NobodyHolds

LEMMA ReadyingKeepsHolder ==
    ASSUME SupervisorInvariant, OneHolder, GettingReady
    PROVE  OneHolder'
<1> USE DEF SupervisorInvariant
<1>1. UpdateTypeOK /\ GroupTypes /\ sup \in SupRecords
  BY TypesSplit DEF GroupTypes
<1>2. sup.phase \in {"down", "exec", "recover", "start", "ready", "released", "resume"}
  BY DEF GettingReady, Boot, Exec, Recovered, StartNext, AllStarted, Ready, Released, Resume, At
<1>3. ~sup.ready
  BY <1>2 DEF PhasesFit, Serviced, AfterReady, ApplyPhases, RestartPhases
<1>4. Nobody /\ UNCHANGED <<inbox, handoff>>
  BY <1>3, NobodyBeforeReady DEF GettingReady, Boot, Exec, Recovered, StartNext, AllStarted, Ready, Released, Resume,
     updateVars, disk
<1>5. Nobody'
  BY <1>4, NobodyStays DEF inbox
<1>6. CASE Released
  <2>1. sup'.phase \in {"ack", "serve"} /\ sup.phase = "released" /\ restart' = restart
        /\ reservation' = StaleReservation
    BY <1>1, <1>6 DEF Released, At, SupRecords
  <2>2. ~RestartAbandoned'
    BY <2>1 DEF OneHolder, RestartAbandoned, RestartPhases
  <2>3. handoff # NoJob => StaleReservation
    BY DEF OneHolder, StaleReservation, LauncherUpdate, JobsAreKnown
  <2> QED BY <1>4, <1>5, <2>1, <2>2, <2>3, NobodyHolds DEF Working, ApplyPhases, RestartPhases
<1>7. CASE Ready
  <2>1. sup'.phase = "released" /\ reservation' = reservation /\ sup'.ready = sup.ready
    BY <1>1, <1>7 DEF Ready, Go, SupRecords
  <2>2. ~RestartAbandoned'
    BY <1>7 DEF Ready, RestartAbandoned, Ended
  <2> QED BY <1>3, <1>4, <1>5, <2>1, <2>2, NobodyHolds DEF OneHolder, Working, ApplyPhases, RestartPhases
<1>8. CASE ~Released /\ ~Ready
  <2>1. UNCHANGED <<restart, reservation>>
    BY <1>8 DEF GettingReady, Boot, Exec, Recovered, StartNext, AllStarted, Resume, durable
  <2>2. sup'.phase \in {"pre", "exec", "recover", "start", "resume", "ready"} /\ ~sup'.ready
    <3>1. CASE Boot
      <4>1. PICK p \in {"pre", "exec"} : sup' = [Down EXCEPT !.phase = p]
        BY <3>1 DEF Boot
      <4>2. SupIs(p, {}, {}, NoJob, First, FALSE)
        BY <4>1, DownIs DEF Phases, Exits
      <4> QED BY <4>2 DEF SupIs
    <3>2. CASE Exec
      <4>1. sup' = [sup EXCEPT !.phase = "recover", !.exit = "none", !.job = handoff]
        BY <3>2 DEF Exec
      <4> QED BY <1>1, <1>3, <4>1 DEF SupRecords
    <3>3. CASE Recovered \/ AllStarted
      <4>1. Go("resume") \/ Go("ready")
        BY <3>3 DEF Recovered, AllStarted
      <4> QED BY <1>1, <1>3, <4>1 DEF Go, SupRecords
    <3>4. CASE StartNext
      <4>1. PICK s \in sup.todo : sup' = [sup EXCEPT !.todo = @ \ {s}]
        BY <3>4 DEF StartNext, StartService
      <4> QED BY <1>1, <1>3, <3>4, <4>1 DEF SupRecords, StartNext, At
    <3>5. CASE Resume /\ (sup.job = NoJob \/ Installable)
      <4>1. sup' = [sup EXCEPT !.phase = "start", !.todo = Group]
        BY <3>5 DEF Resume
      <4> QED BY <1>1, <1>3, <4>1 DEF SupRecords
    <3> QED BY <1>8, <3>1, <3>2, <3>3, <3>4, <3>5 DEF GettingReady
  <2>3. RestartAbandoned' <=> RestartAbandoned
    BY <2>1 DEF RestartAbandoned
  <2> QED BY <1>4, <1>5, <2>1, <2>2, <2>3, NobodyHolds DEF OneHolder, Working, ApplyPhases, RestartPhases
<1> QED BY <1>6, <1>7, <1>8

LEMMA EndsOfMaintenance ==
    ASSUME SupervisorInvariant, OneHolder,
           DownloadEnds \/ RDone \/ RRestored \/ (Report /\ sup.exit = "none")
    PROVE  OneHolder'
<1> USE DEF SupervisorInvariant
<1>1. /\ UNCHANGED <<handlers, mailbox>> /\ download' \in {download, NoJob} /\ handoff' = handoff
      /\ reservation' = FALSE
  <2>1. CASE DownloadEnds
    BY <2>1 DEF DownloadEnds, UpdateFinished, updateVars
  <2>2. CASE RDone \/ RRestored
    BY <2>2 DEF RDone, RRestored, RestartFailed, updateVars, inbox
  <2>3. CASE Report /\ sup.exit = "none"
    BY <2>3 DEF Report, UpdateFinished, inbox
  <2> QED BY <2>1, <2>2, <2>3
<1>2. sup'.phase = "serve" /\ handoff = NoJob
  <2>1. CASE DownloadEnds
    BY <2>1 DEF DownloadEnds, Serving, At, PhasesFit
  <2>2. CASE RDone \/ RRestored
    BY <2>2, ServeIs DEF RDone, RRestored, SupIs, At, PhasesFit, RestartPhases
  <2>3. CASE Report /\ sup.exit = "none"
    BY <2>3, ServeIs DEF Report, SupIs, At, PhasesFit
  <2> QED BY <2>1, <2>2, <2>3
<1>3. Nobody \/ (DownloadEnds /\ mailbox = NoMail /\ \A a \in Admins : ~Reserved(a))
  <2>1. CASE DownloadEnds
    <3>1. download # NoJob
      BY <2>1 DEF DownloadEnds
    <3> QED BY <2>1, <3>1 DEF OneHolder
  <2>2. CASE RDone \/ RRestored
    BY <2>2, WorkerIsAlone DEF RDone, RRestored, At, Working, RestartPhases
  <2>3. CASE Report
    BY <2>3, WorkerIsAlone DEF Report, At
  <2> QED BY <2>1, <2>2, <2>3
<1>4. Nobody'
  <2>1. DownloadEnds => download' = NoJob
    BY DEF DownloadEnds
  <2> QED BY <1>1, <1>3, <2>1 DEF Nobody, Reserved
<1>5. ~RestartAbandoned'
  <2>1. CASE DownloadEnds
    <3>1. mailbox # NoMail => download = NoJob
      BY DEF OneHolder
    <3>2. mailbox = NoMail /\ sup.phase = "serve" /\ restart' = restart
      BY <2>1, <3>1 DEF DownloadEnds, Serving, At
    <3>3. sup.ready
      BY <3>2 DEF PhasesFit, AfterReady
    <3> QED BY <3>2, <3>3 DEF OneHolder, RestartAbandoned, NoMail, NoRequest, RestartPhases
  <2>2. CASE RDone \/ RRestored
    BY <2>2 DEF RDone, RRestored, RestartFailed, RestartAbandoned, Ended
  <2>3. CASE Report /\ sup.exit = "none"
    BY <2>3 DEF Report, At, OneHolder, RestartAbandoned, RestartPhases
  <2> QED BY <2>1, <2>2, <2>3
<1> QED BY <1>1, <1>2, <1>4, <1>5, NobodyHolds DEF Working, ApplyPhases, RestartPhases

(* The launcher takes a request. *)
LEMMA TakingKeepsHolder ==
    ASSUME SupervisorInvariant, OneHolder, TakeStage \/ TakeApply \/ TakeRestart
    PROVE  OneHolder'
<1> USE DEF SupervisorInvariant
<1>1. UpdateTypeOK /\ InboxTypes /\ sup \in SupRecords
  BY TypesSplit DEF GroupTypes
<1>2. NoRequest.kind = "none" /\ NoMail.update = NoRequest /\ NoMail.restart = NoRequest
  BY DEF NoRequest, NoMail
<1>3. \/ mailbox.update.kind \in {"stage", "apply"} /\ mailbox' = [mailbox EXCEPT !.update = NoRequest]
      \/ mailbox.restart.kind = "restart" /\ mailbox' = [mailbox EXCEPT !.restart = NoRequest]
  BY DEF TakeStage, TakeApply, TakeRestart
<1>4. mailbox # NoMail
  BY <1>2, <1>3
<1>5. mailbox' = NoMail
  <2>1. mailbox.update = NoRequest \/ mailbox.restart = NoRequest
    BY DEF OneHolder
  <2> QED BY <1>1, <1>2, <1>3, <2>1 DEF InboxTypes, NoMail
<1>6. download = NoJob /\ ~Working /\ reservation /\ \A a \in Admins : ~Reserved(a)
  BY <1>4 DEF OneHolder
<1>7. sup.phase = "serve" /\ UNCHANGED <<handlers, handoff>>
  BY DEF TakeStage, TakeApply, TakeRestart, Serving, At, updateVars
<1>8. handoff = NoJob /\ sup.ready
  BY <1>7 DEF PhasesFit, AfterReady
<1>9. \A a \in Admins : ~Reserved(a)'
  BY <1>6, <1>7 DEF Reserved
<1>10. RestartAbandoned => mailbox.restart.kind = "restart"
  BY <1>7, <1>8 DEF OneHolder, RestartPhases
<1>11. mailbox.update.kind \in {"stage", "apply"} => ~RestartAbandoned
  BY <1>2, <1>10 DEF OneHolder
<1>12. CASE TakeStage
  <2>1. UNCHANGED <<sup, restart, reservation>> /\ mailbox.update.kind = "stage"
    BY <1>12 DEF TakeStage
  <2>2. ~RestartAbandoned' /\ ~Working'
    BY <1>6, <1>11, <2>1 DEF RestartAbandoned, Working
  <2> QED BY <1>5, <1>2, <1>6, <1>7, <1>8, <1>9, <2>1, <2>2 DEF OneHolder
<1>13. CASE TakeApply
  <2>1. /\ UNCHANGED <<download, restart, reservation>> /\ mailbox.update.kind = "apply"
        /\ sup' = [sup EXCEPT !.phase = "u_stop", !.job = mailbox.update.job, !.plan = UpdatePlan(mailbox.update.job)]
    BY <1>13 DEF TakeApply
  <2>2. ~RestartAbandoned' /\ sup'.phase = "u_stop"
    BY <1>1, <1>11, <2>1 DEF RestartAbandoned, SupRecords
  <2>3. Nobody'
    BY <1>5, <1>6, <1>9, <2>1 DEF Nobody
  <2> QED BY <1>6, <1>7, <1>8, <2>1, <2>2, <2>3, NobodyHolds
<1>14. CASE TakeRestart
  <2>1. \/ /\ sup' = [sup EXCEPT !.phase = "r_stop", !.target = mailbox.restart.config,
                        !.plan = restart_plan(active, mailbox.restart.config, mailbox.restart.mode)]
           /\ reservation' = reservation
        \/ sup' = sup /\ RestartFailed
    BY <1>14 DEF TakeRestart
  <2>2. Nobody'
    BY <1>5, <1>6, <1>9, <1>14 DEF Nobody, TakeRestart
  <2>3. \/ sup'.phase = "r_stop" /\ reservation' = reservation
        \/ sup'.phase = "serve" /\ ~RestartAbandoned'
    <3>1. CASE sup' = [sup EXCEPT !.phase = "r_stop", !.target = mailbox.restart.config,
                         !.plan = restart_plan(active, mailbox.restart.config, mailbox.restart.mode)]
      <4>1. sup'.phase = "r_stop"
        BY <1>1, <3>1 DEF SupRecords
      <4>2. CASE reservation' = reservation
        BY <4>1, <4>2
      <4>3. CASE sup' = sup /\ RestartFailed
        BY <1>7, <4>1, <4>3
      <4> QED BY <2>1, <4>2, <4>3
    <3>2. CASE sup' = sup /\ RestartFailed
      BY <1>7, <3>2 DEF RestartFailed, RestartAbandoned, Ended
    <3> QED BY <2>1, <3>1, <3>2
  <2>4. Working' => reservation'
    BY <1>6, <2>3 DEF Working, ApplyPhases, RestartPhases
  <2> QED BY <1>7, <1>8, <2>2, <2>3, <2>4, NobodyHolds DEF RestartPhases
<1> QED BY <1>12, <1>13, <1>14

LEMMA RestartingKeepsHolder ==
    ASSUME SupervisorInvariant, OneHolder,
           RStart \/ RFails \/ RRestore \/ (RStop /\ ~restart.manager)
    PROVE  OneHolder'
<1> USE DEF SupervisorInvariant
<1>1. GroupTypes /\ InboxTypes /\ sup \in SupRecords
  BY TypesSplit DEF GroupTypes
<1>2. sup.phase \in RestartPhases /\ UNCHANGED <<mailbox, download, reservation, handoff>>
  BY DEF RStart, RFails, RRestore, RStop, At, RestartPhases, updateVars, disk, durable, inbox
<1>3. handlers' \in {handlers, NoHandlers}
  BY <1>1, StopServicesIs DEF RStart, RFails, RRestore, RStop, inbox
<1>4. sup'.phase \in RestartPhases
  <2>1. CASE RStart \/ RRestore
    <3>1. PICK s \in sup.todo : sup' = [sup EXCEPT !.todo = @ \ {s}]
      BY <2>1 DEF RStart, RRestore, StartService
    <3> QED BY <1>1, <1>2, <3>1 DEF SupRecords
  <2>2. CASE RFails \/ (RStop /\ ~restart.manager)
    <3>1. PICK p \in {"r_start", "r_restore"} : sup' = [sup EXCEPT !.phase = p, !.todo = sup.plan]
      BY <2>2 DEF RFails, RStop, ToRestore
    <3> QED BY <1>1, <3>1 DEF SupRecords, RestartPhases
  <2> QED BY <2>1, <2>2
<1>5. Nobody' /\ reservation /\ handoff = NoJob
  BY <1>2, <1>3, WorkerIsAlone, NobodyStays DEF OneHolder, Working, PhasesFit
<1> QED BY <1>2, <1>4, <1>5, NobodyHolds DEF RestartPhases

LEMMA AdministeringKeepsHolder ==
    ASSUME SupervisorInvariant, OneHolder, Administer
    PROVE  OneHolder'
<1> USE DEF SupervisorInvariant
<1>1. UpdateTypeOK /\ InboxTypes /\ handlers \in [Admins -> HandlerRecords]
  BY TypesSplit DEF InboxTypes
<1>2. PICK a \in Admins : \/ AskStage(a) \/ AskApply(a) \/ \E mode \in Asked : AskRestart(a, mode)
                          \/ Reserve(a) \/ Post(a) \/ PostFails(a)
  BY DEF Administer
<1>3. UNCHANGED <<handoff, sup, download>>
  BY <1>2 DEF AskStage, AskApply, AskRestart, Ask, Reserve, Post, PostFails, updateVars, disk
<1>4. \A b \in Admins : b # a => handlers'[b] = handlers[b]
  BY <1>1, <1>2 DEF AskStage, AskApply, AskRestart, Ask, Reserve, Post, PostFails
<1>5. NoHandler.step = "idle" /\ NoRequest.kind = "none" /\ NoMail.update = NoRequest /\ NoMail.restart = NoRequest
  BY DEF NoHandler, NoRequest, NoMail
<1>6. CASE AskStage(a) \/ AskApply(a) \/ \E mode \in Asked : AskRestart(a, mode)
  <2>1. PICK r : Ask(a, r)
    BY <1>6 DEF AskStage, AskApply, AskRestart
  <2>2. handlers'[a].step = "checked" /\ handlers[a].step = "idle" /\ UNCHANGED <<mailbox, restart, reservation>>
    BY <1>1, <2>1 DEF Ask, durable
  <2>3. \A b \in Admins : Reserved(b)' <=> Reserved(b)
    BY <1>4, <2>2 DEF Reserved
  <2> QED BY <1>3, <2>2, <2>3 DEF OneHolder, Working, RestartAbandoned
<1>7. CASE Reserve(a)
  <2>1. sup.ready
    BY <1>7 DEF Reserve, PhasesFit, NoHandler
  <2>2. UNCHANGED <<mailbox, restart>> /\ handlers[a].step = "checked"
    BY <1>7 DEF Reserve
  <2>3. CASE reservation
    <3>1. handlers'[a].step = "idle" /\ reservation' = reservation
      BY <1>1, <1>5, <1>7, <2>3 DEF Reserve, Free
    <3>2. \A b \in Admins : Reserved(b)' <=> Reserved(b)
      BY <1>4, <2>2, <3>1 DEF Reserved
    <3> QED BY <1>3, <2>2, <3>1, <3>2 DEF OneHolder, Working, RestartAbandoned
  <2>4. CASE ~reservation
    <3>1. reservation'
      BY <1>7, <2>4 DEF Reserve, Free
    <3>2. mailbox = NoMail /\ download = NoJob /\ ~Working /\ handoff = NoJob /\ \A b \in Admins : ~Reserved(b)
      BY <2>4 DEF OneHolder
    <3>3. sup.phase \notin {"ack", "ack_wait", "unwind_wait", "finish", "report"}
      BY <2>1, <2>4, <3>2 DEF OneHolder, PhasesFit, Started
    <3>4. \A b \in Admins : Reserved(b)' => b = a
      BY <1>4, <3>2 DEF Reserved
    <3> QED BY <1>3, <1>5, <2>2, <3>1, <3>2, <3>3, <3>4 DEF OneHolder, Working, RestartAbandoned
  <2> QED BY <2>3, <2>4
<1>8. CASE Post(a) \/ PostFails(a)
  <2>1. Reserved(a) /\ handlers'[a].step = "idle" /\ handlers[a].step # "idle"
    BY <1>1, <1>5, <1>8 DEF Post, PostFails, Reserved
  <2>2. mailbox = NoMail /\ download = NoJob /\ ~Working /\ reservation /\ \A b \in Admins : b # a => ~Reserved(b)
    BY <2>1 DEF OneHolder
  <2>3. sup.ready
    BY <1>5, <2>1 DEF PhasesFit
  <2>4. sup.phase = "serve"
    BY <2>1, <2>2, <2>3 DEF PhasesFit, Serviced, AfterReady, Working, OneHolder
  <2>5. handoff = NoJob /\ ~RestartAbandoned
    BY <1>5, <2>2, <2>3, <2>4 DEF PhasesFit, OneHolder, RestartPhases
  <2>6. \A b \in Admins : ~Reserved(b)'
    BY <1>4, <2>1, <2>2 DEF Reserved
  <2>7. CASE PostFails(a)
    <3>1. mailbox' = mailbox /\ ~RestartAbandoned'
      <4>1. /\ mailbox' = mailbox
            /\ \/ restart' = restart \/ restart' = Ended("failed")
               \/ (Announced(handlers[a].request) /\ handlers[a].request.kind # "restart")
        BY <2>7 DEF PostFails
      <4> QED BY <2>5, <2>7, <4>1 DEF PostFails, Announced, RestartAbandoned, Ended
    <3> QED BY <1>3, <2>2, <2>4, <2>5, <2>6, <3>1, NobodyHolds DEF Nobody, Working
  <2>8. CASE Post(a)
    <3>1. /\ reservation' = reservation
          /\ \/ mailbox'.restart = NoRequest /\ restart' = restart
             \/ mailbox'.update = NoRequest /\ mailbox'.restart.kind = "restart"
      <4>1. CASE handlers[a].request.kind = "restart"
        <5>1. mailbox' = [mailbox EXCEPT !.restart = handlers[a].request] /\ reservation' = reservation
          BY <2>8, <4>1 DEF Post
        <5> QED BY <1>1, <1>5, <2>2, <4>1, <5>1 DEF InboxTypes
      <4>2. CASE handlers[a].request.kind # "restart"
        <5>1. mailbox' = [mailbox EXCEPT !.update = handlers[a].request] /\ reservation' = reservation
              /\ restart' = restart
          BY <2>8, <4>2 DEF Post, Announced
        <5> QED BY <1>1, <1>5, <2>2, <5>1 DEF InboxTypes
      <4> QED BY <4>1, <4>2
    <3>2. RestartAbandoned' => mailbox'.restart.kind = "restart"
      BY <2>5, <3>1 DEF RestartAbandoned
    <3>3. (mailbox.update = NoRequest \/ mailbox.restart = NoRequest)'
      BY <3>1
    <3> QED BY <1>3, <2>2, <2>4, <2>5, <2>6, <3>1, <3>2, <3>3 DEF OneHolder, Working
  <2> QED BY <1>8, <2>7, <2>8
<1> QED BY <1>2, <1>6, <1>7, <1>8

LEMMA MaintenanceStep ==
    ASSUME SupervisorInvariant, [Next]_vars
    PROVE  MaintenanceFits'
<1>1. Kinds
  BY StepKinds
<1>2. CASE LauncherEnds
  BY <1>2, EndKeeps
<1>3. ASSUME ~LauncherEnds, ~abandoned'
      PROVE  OneHolder'
  <2>1. ~abandoned
    <3>1. CASE sup.ready /\ WorkingSteps
      BY <1>3, <3>1, WorkingMoves
    <3>2. CASE ~sup.ready /\ StartingSteps
      BY <1>3, <3>2, StartingMoves
    <3>3. CASE GettingReady \/ RestartSteps
      BY <1>3, <3>3 DEF GettingReady, RestartSteps, Boot, Exec, Recovered, StartNext, AllStarted, Ready, Released,
         Resume, TakeRestart, RStart, RFails, RDone, RRestore, RRestored, RStop, host
    <3>4. CASE Administer
      BY <1>3, <3>4 DEF Administer, AskStage, AskApply, AskRestart, Ask, Reserve, Post, PostFails, host
    <3>5. CASE Aside \/ DownloadEnds \/ TakeStage \/ TakeApply \/ Report
      BY <1>3, <3>5 DEF Aside, DownloadEnds, TakeStage, TakeApply, Report, host
    <3> QED BY <1>1, <1>3, <3>1, <3>2, <3>3, <3>4, <3>5 DEF Kinds
  <2>2. OneHolder
    BY <2>1 DEF SupervisorInvariant, MaintenanceFits
  <2>3. CASE Aside
    BY <2>2, <2>3 DEF Aside, OneHolder, Reserved, Working, RestartAbandoned
  <2>4. CASE RestartSteps
    BY <2>2, <2>4, EndsOfMaintenance, TakingKeepsHolder, RestartingKeepsHolder DEF RestartSteps
  <2>5. CASE DownloadEnds \/ (Report /\ sup.exit = "none")
    BY <2>2, <2>5, EndsOfMaintenance
  <2>6. CASE TakeStage \/ TakeApply
    BY <2>2, <2>6, TakingKeepsHolder
  <2> QED BY <1>1, <1>3, <2>2, <2>3, <2>4, <2>5, <2>6, StartingKeepsHolder, WorkingKeepsHolder, ReadyingKeepsHolder,
             AdministeringKeepsHolder DEF Kinds
<1> QED BY <1>2, <1>3 DEF MaintenanceFits

LEMMA ConfigsStep ==
    ASSUME SupervisorInvariant, [Next]_vars
    PROVE  ConfigsFit'
<1>1. Kinds
  BY StepKinds
<1>2. CASE LauncherEnds
  BY <1>2, EndKeeps
<1>3. CASE GettingReady
  BY <1>3, StartConfigs DEF GettingReady
<1>4. CASE RestartSteps
  BY <1>4, RestartConfigs DEF RestartSteps
<1>5. CASE ~sup.ready /\ StartingSteps
  BY <1>5, StartingMoves, ConfigsStay DEF SupervisorInvariant, RestartPhases
<1>6. CASE sup.ready /\ WorkingSteps
  <2>1. /\ sup'.ready /\ UNCHANGED <<active, applied, conf>>
        /\ sup.phase \in ApplyPhases \cup {"ack", "ack_wait", "unwind_wait", "finish"}
        /\ sup'.phase \in ApplyPhases \cup {"ack_wait", "unwind_wait", "finish", "report"}
    BY <1>6, WorkingMoves
  <2> QED BY <1>6, <2>1, ConfigsStay DEF SupervisorInvariant, ApplyPhases, RestartPhases
<1>7. CASE Report /\ sup.exit = "none"
  <2>1. sup'.phase = "serve" /\ sup.phase = "report" /\ UNCHANGED <<active, applied, conf>>
    BY <1>7, ServeIs DEF Report, SupIs, At
  <2>2. sup.ready
    BY <1>7, <2>1 DEF SupervisorInvariant, ConfigsFit
  <2> QED BY <2>1, <2>2, ConfigsStay DEF SupervisorInvariant, RestartPhases
<1>8. CASE Aside \/ Administer \/ DownloadEnds \/ TakeStage
  <2>1. UNCHANGED <<sup, active, conf, previous, applied>>
    BY <1>8 DEF Aside, DownloadEnds, TakeStage, Administer, AskStage, AskApply, AskRestart, Ask, Reserve, Post, PostFails,
       durable
  <2> QED BY <2>1, SameConfigs DEF SupervisorInvariant
<1>9. CASE TakeApply
  <2>1. /\ sup' = [sup EXCEPT !.phase = "u_stop", !.job = mailbox.update.job, !.plan = UpdatePlan(mailbox.update.job)]
        /\ UNCHANGED <<active, applied, conf>> /\ sup.phase = "serve" /\ sup \in SupRecords
    BY <1>9, TypesSplit DEF TakeApply, Serving, At, SupervisorInvariant, GroupTypes
  <2>2. sup'.phase = "u_stop" /\ sup'.ready = sup.ready
    BY <2>1 DEF SupRecords
  <2> QED BY <2>1, <2>2, ConfigsStay DEF SupervisorInvariant, RestartPhases
<1> QED BY <1>1, <1>2, <1>3, <1>4, <1>5, <1>6, <1>7, <1>8, <1>9 DEF Kinds

-----------------------------------------------------------------------------
(* The inductive invariant *)

LEMMA InitHolds ==
    ASSUME Init
    PROVE  SupervisorInvariant
<1>1. First \in Configs /\ Down \in SupRecords
  BY FirstIsConfig, ConstantsAreTyped
<1>2. UpdateTypeOK
  <2>1. Build[1] \in [Modules -> 0 .. Newest] /\ 1 \in Releases
    BY ModuleUpdateAssumption DEF Releases
  <2>2. installed \in [Modules -> Contents]
    BY <2>1 DEF Init, UpdateInit, Contents
  <2>3. NoEntry \in Entries
    BY ModuleUpdateAssumption DEF NoEntry, Entries, States, Contents
  <2>4. Idle \in CallRecords
    BY ConstantsAreTyped
  <2> QED BY <2>1, <2>2, <2>3, <2>4, ModuleUpdateAssumption DEF Init, UpdateInit, UpdateTypeOK, CallRecords
<1>3. StatusTypes
  <2>1. /\ config = First /\ applied = <<>> /\ active = First /\ restart = Ended("idle")
        /\ update = [job |-> NoJob, state |-> "idle"] /\ reservation = FALSE /\ abandoned = FALSE /\ self = 0
        /\ managed \in BOOLEAN /\ executed = [c \in Broken |-> "never"]
    BY SupervisorAssumption DEF Init
  <2>2. restart \in [state : {"idle", "pending", "running", "complete", "failed"},
                     config : Configs, manager : BOOLEAN]
    BY <2>1, EndedIsTyped
  <2>3. self \in Contents
    BY <2>1, ModuleUpdateAssumption DEF Contents
  <2>4. update \in [job : Jobs \cup {NoJob}, state : UpdateStates]
    BY <2>1 DEF UpdateStates
  <2> QED BY <1>1, <2>1, <2>2, <2>3, <2>4 DEF StatusTypes
<1>4. GroupTypes /\ InboxTypes
  <2>1. Nothing \in [Group -> [Modules -> Contents \cup {-1}]]
    BY DEF Nothing, NotRunning
  <2> QED BY <1>1, <2>1, ConstantsAreTyped DEF Init, GroupTypes, InboxTypes, NoHandlers
<1>5. /\ handlers = NoHandlers /\ mailbox = NoMail /\ download = NoJob /\ staging = NoJob /\ handoff = NoJob
      /\ call = Idle /\ sup = Down /\ update = [job |-> NoJob, state |-> "idle"]
      /\ restart = Ended("idle") /\ \A j \in Jobs : journal[j] = NoEntry
  BY DEF Init, UpdateInit, NoHandlers
<1>6. /\ call.fn = "idle" /\ call.job = NoJob /\ sup.phase = "down" /\ sup.job = NoJob /\ ~sup.ready
      /\ restart.state = "idle" /\ update.job = NoJob /\ update.state = "idle"
  BY <1>5 DEF Idle, Down, Ended
<1>7. /\ \A j \in Jobs : journal[j].state = "none"
      /\ \A a \in Admins : handlers[a] = NoHandler
  BY <1>5 DEF NoEntry, NoHandlers
<1>8. NoHandler.step = "idle" /\ NoHandler.request.kind = "none" /\ NoMail.update = NoRequest
      /\ NoMail.restart = NoRequest /\ NoRequest.kind = "none"
  BY DEF NoHandler, NoRequest, NoMail
<1>9. JobsAreKnown
  BY <1>5, <1>6, <1>7 DEF JobsAreKnown, ApplyPhases
<1>10. RequestsAreKnown
  BY <1>5, <1>7, <1>8 DEF RequestsAreKnown
<1>11. PhasesFit
  BY <1>5, <1>6 DEF PhasesFit, NoHandlers, Started, AfterReady, ApplyPhases, RestartPhases
<1>12. CallFits
  BY <1>6 DEF CallFits, WaitPhases
<1>13. OneUnfinished /\ LauncherCanStart
  BY <1>5, <1>7 DEF OneUnfinished, LauncherCanStart, Unfinished
<1>14. MaintenanceFits
  BY <1>5, <1>6, <1>7, <1>8 DEF MaintenanceFits, OneHolder, Reserved, Working, RestartAbandoned, ApplyPhases, RestartPhases
<1>15. ConfigsFit
  BY <1>6 DEF ConfigsFit, RestartPhases
<1> QED BY <1>2, <1>3, <1>4, <1>9, <1>10, <1>11, <1>12, <1>13, <1>14, <1>15, TypesSplit DEF SupervisorInvariant

LEMMA InvariantStep ==
    ASSUME SupervisorInvariant, [Next]_vars
    PROVE  SupervisorInvariant'
BY TypesStep, ControlStep, MaintenanceStep, ConfigsStep DEF SupervisorInvariant, Control

(* The launcher, its journal and its control directory stay in the states that
   the code takes for granted when it reads one of them back.                *)
THEOREM SupervisorIsConsistent == Spec => []SupervisorInvariant
BY InitHolds, InvariantStep, PTL DEF Spec

(* Every variable of the supervisor has its type. *)
THEOREM SupervisorTypes == Spec => []SupervisorTypeOK
<1>1. SupervisorInvariant => SupervisorTypeOK
  BY DEF SupervisorInvariant
<1> QED BY <1>1, SupervisorIsConsistent, PTL

(* However often the launcher is killed, or an update or its rollback fails,
   the recovery at start-up never finds a launcher's job without its handoff.  *)
THEOREM LauncherStarts == Spec => []LauncherCanStart
<1>1. SupervisorInvariant => LauncherCanStart
  BY DEF SupervisorInvariant
<1> QED BY <1>1, SupervisorIsConsistent, PTL

LEMMA AtMostOne ==
    ASSUME NEW S, \A x, y \in S : x = y
    PROVE  Cardinality(S) <= 1
<1>1. CASE S = {}
  BY <1>1, FS_EmptySet
<1>2. CASE S # {}
  <2>1. PICK x \in S : TRUE
    BY <1>2
  <2>2. S = {x}
    BY <2>1
  <2> QED BY <2>2, FS_Singleton
<1> QED BY <1>1, <1>2

LEMMA HoldersAreOne ==
    ASSUME OneHolder
    PROVE  Cardinality(InProgress) <= 1 /\ (InProgress # {} => reservation)
<1> DEFINE Handlers == {<<"handler", a>> : a \in {b \in Admins : Reserved(b)}}
           Posted == {<<"request", k>> : k \in {k \in {"update", "restart"} : mailbox[k].kind # "none"}}
           Downloads == {<<"download", j>> : j \in {download} \ {NoJob}}
           Phase == {<<"job", p>> : p \in {sup.phase} \cap (ApplyPhases \cup RestartPhases)}
<1>1. InProgress = Handlers \cup Posted \cup Downloads \cup Phase
  BY DEF InProgress, Reserved
<1>2. NoRequest.kind = "none" /\ NoMail.update = NoRequest /\ NoMail.restart = NoRequest
  BY DEF NoRequest, NoMail
<1>3. Posted # {} => mailbox # NoMail
  BY <1>2
<1>4. Downloads # {} => download # NoJob
  OBVIOUS
<1>5. Phase # {} => Working
  BY DEF Working
<1>6. Handlers # {} => Posted = {} /\ Downloads = {} /\ Phase = {} /\ reservation
  <2>1. ASSUME NEW a \in Admins, Reserved(a)
        PROVE  Posted = {} /\ Downloads = {} /\ Phase = {} /\ reservation
    BY <1>3, <1>4, <1>5, <2>1 DEF OneHolder
  <2> QED BY <2>1
<1>7. Posted # {} => Downloads = {} /\ Phase = {} /\ reservation
  BY <1>3, <1>4, <1>5 DEF OneHolder
<1>8. Downloads # {} => Phase = {} /\ reservation
  BY <1>4, <1>5 DEF OneHolder
<1>9. Phase # {} => reservation
  BY <1>5 DEF OneHolder
<1>10. \A x, y \in Handlers : x = y
  BY DEF OneHolder
<1>11. \A x, y \in Posted : x = y
  BY <1>2 DEF OneHolder
<1>12. (\A x, y \in Downloads : x = y) /\ (\A x, y \in Phase : x = y)
  OBVIOUS
<1>13. \A x, y \in InProgress : x = y
  <2> HIDE DEF Handlers, Posted, Downloads, Phase
  <2> QED BY <1>1, <1>6, <1>7, <1>8, <1>10, <1>11, <1>12
<1>14. InProgress # {} => reservation
  <2> HIDE DEF Handlers, Posted, Downloads, Phase
  <2> QED BY <1>1, <1>6, <1>7, <1>8, <1>9
<1> QED BY <1>13, <1>14, AtMostOne

(* However the administrators' requests interleave with the launcher's steps,
   its ends and its starts, at most one of them holds the reservation, waits
   in the mailbox, is downloaded or is carried out.                           *)
THEOREM MaintenanceIsExclusive == Spec => []OneMaintenanceJob
<1>1. SupervisorInvariant => OneMaintenanceJob
  BY HoldersAreOne DEF SupervisorInvariant, MaintenanceFits, OneMaintenanceJob
<1> QED BY <1>1, SupervisorIsConsistent, PTL

(* While the group serves, a service runs with the applied value of every
   setting that the restart plan knows it reads, for whatever settings and
   services: after a restart of all or of some, or one that was rolled back.  *)
UsesApplied ==
    At("serve") => \A s \in Group : running[s] # NotRunning => Uses(conf, s, applied)

THEOREM ServicesUseTheirSettings == Spec => []UsesApplied
<1>1. SupervisorInvariant => UsesApplied
  BY DEF SupervisorInvariant, PhasesFit, ConfigsFit, UsesApplied, At, AfterReady, RestartPhases, Uses
<1> QED BY <1>1, SupervisorIsConsistent, PTL

(* The same of all settings they read, where none of the configurations differ in
   one of the two that the plan misses.                                         *)
THEOREM ServicesUseWhatIsApplied ==
    ASSUME \A s \in Group : \A k \in Reads(s) \cap Keys : <<s, k>> \notin Unplanned
    PROVE  Spec => []RunningUsesApplied
<1>1. \A s \in Group : Used(s) = Reads(s) \cap Keys
  BY DEF Used
<1>2. UsesApplied => RunningUsesApplied
  BY <1>1 DEF UsesApplied, RunningUsesApplied, Uses
<1> QED BY <1>2, ServicesUseTheirSettings, PTL

-----------------------------------------------------------------------------
(* Action properties *)

(* Only a launcher that is executed, or one that ends a restart job, takes a configuration. *)
LEMMA WhoTakesAConfiguration ==
    ASSUME Next
    PROVE  active' = active \/ self' = 0 \/ Exec \/ RDone
<1>1. \A e : Leave(e) => self' = 0
  BY DEF Leave, Gone
<1>2. LeaveUnready \/ LeaveReady => self' = 0
  BY <1>1 DEF LeaveUnready, LeaveReady
<1>3. StartupFails => active' = active \/ self' = 0
  BY <1>2 DEF StartupFails
<1>4. CASE StartUp
  <2>1. CASE Pre \/ PreDone \/ ExecFails \/ ExecRestored \/ Recover \/ Recovered \/ Resume \/ StartNext \/ AllStarted
              \/ Ready \/ Released \/ Acknowledge \/ FinishRelaunch
    BY <2>1 DEF Pre, PreDone, ExecFails, ExecRestored, Recover, Recovered, Resume, StartNext, AllStarted, Ready,
       Released, Acknowledge, FinishRelaunch
  <2>2. CASE RecoverDone \/ StartFails \/ Acknowledged \/ Report
    BY <1>1, <1>2, <1>3, <2>2 DEF RecoverDone, StartFails, Acknowledged, Report
  <2>3. CASE Unwound
    <3>1. CASE call.fn = "ok"
      BY <2>3, <3>1, UnwoundIs
    <3>2. CASE call.fn # "ok"
      <4>1. call.fn = "failed"
        BY <2>3, <3>2 DEF Unwound, Done
      <4>2. LeaveReady \/ LeaveUnready
        BY <2>3, <4>1 DEF Unwound
      <4> QED BY <1>2, <4>2
    <3> QED BY <3>1, <3>2
  <2> QED BY <1>4, <2>1, <2>2, <2>3 DEF StartUp
<1>5. CASE Updating \/ USignal
  BY <1>1, <1>5 DEF Updating, DownloadEnds, TakeStage, TakeApply, UStop, UFails, UPrepare, UApplied, UNotApplied,
     UStart, UCommit, UCommitted, UUndone, UAbandoned, URestored, USignal
<1>6. CASE Restarting
  BY <1>1, <1>2, <1>6 DEF Restarting, RestartRefused, TakeRestart, RStop, RStart, RFails, RRestore, RRestored, RAbandoned
<1>7. CASE Administer
  BY <1>7 DEF Administer, AskStage, AskApply, AskRestart, Ask, Reserve, Post, PostFails
<1>8. CASE Transact \/ Download \/ (Publish /\ UNCHANGED superVars) \/ Edit
  BY <1>8 DEF Transact, Download, Edit, superVars
<1>9. CASE Boot \/ \E c \in Configs : SaveConfig(c)
  BY <1>9 DEF Boot, SaveConfig
<1>10. CASE Kill \/ StartStopped \/ RSignal \/ ServiceDies \/ Shutdown
  BY <1>1, <1>2, <1>10 DEF Kill, Gone, StartStopped, RSignal, ServiceDies, Shutdown
<1> QED BY <1>4, <1>5, <1>6, <1>7, <1>8, <1>9, <1>10 DEF Next, Launching, Disturb

(* No restart job changes the configuration under a download, whatever the
   administrators ask for and in whatever order the launcher takes it.       *)
THEOREM DownloadsKeepTheirConfig == Spec => DownloadReadsOneConfig
<1>1. SupervisorInvariant /\ [Next]_vars
      => [download # NoJob /\ ~abandoned => active' = active \/ self' = 0]_vars
  <2> SUFFICES ASSUME SupervisorInvariant, Next, download # NoJob, ~abandoned
               PROVE  active' = active \/ self' = 0
    OBVIOUS
  <2>1. sup.ready /\ ~Working
    BY DEF SupervisorInvariant, JobsAreKnown, MaintenanceFits, OneHolder
  <2>2. ~Exec
    BY <2>1 DEF SupervisorInvariant, PhasesFit, Exec, At, Serviced, AfterReady, ApplyPhases, RestartPhases
  <2>3. ~RDone
    BY <2>1 DEF RDone, At, Working, RestartPhases
  <2> QED BY <2>2, <2>3, WhoTakesAConfiguration
<1> QED BY <1>1, SupervisorIsConsistent, PTL DEF Spec, DownloadReadsOneConfig

(* Only the writes of an operation, and whoever replaces a module by hand, change modules. *)
LEMMA WhoReplacesModules ==
    ASSUME Next
    PROVE  installed' = installed \/ Transact \/ Edit
<1>1. CASE StartUp
  BY <1>1 DEF StartUp, Pre, PreDone, Exec, ExecFails, ExecRestored, Recover, RecoverDone, Recovered, Resume, Unwound,
     StartNext, StartFails, AllStarted, Ready, Released, Acknowledge, Acknowledged, FinishRelaunch, Report,
     updateVars, disk
<1>2. CASE Updating \/ USignal
  BY <1>2 DEF Updating, DownloadEnds, TakeStage, TakeApply, UStop, UFails, UPrepare, UApplied, UNotApplied, UStart,
     UCommit, UCommitted, UUndone, UAbandoned, URestored, USignal, updateVars, disk
<1>3. CASE Restarting
  BY <1>3 DEF Restarting, RestartRefused, TakeRestart, RStop, RStart, RFails, RDone, RRestore, RRestored, RAbandoned, updateVars, disk
<1>4. CASE Administer
  BY <1>4 DEF Administer, AskStage, AskApply, AskRestart, Ask, Reserve, Post, PostFails, updateVars, disk
<1>5. CASE Download \/ (Publish /\ UNCHANGED superVars) \/ Boot \/ \E c \in Configs : SaveConfig(c)
  BY <1>5 DEF Download, StageVerified, StageFails, Publish, Boot, SaveConfig, updateVars, disk
<1>6. CASE Kill \/ StartStopped \/ RSignal \/ ServiceDies \/ Shutdown
  BY <1>6 DEF Kill, StartStopped, RSignal, ServiceDies, Shutdown, diskVars, disk
<1> QED BY <1>1, <1>2, <1>3, <1>4, <1>5, <1>6 DEF Next, Launching, Disturb

(* A rollback restores only what the update itself may have written, so a
   module that somebody replaced meanwhile stays.                             *)
THEOREM RollbackSparesHandEdits == Spec => HandEditsSurviveRollback
<1>1. SupervisorInvariant /\ [Next]_vars
      => [\A f \in Modules : (installed[f] = HandEdit /\ installed'[f] # HandEdit) => call.fn = "write"]_vars
  <2> SUFFICES ASSUME SupervisorInvariant, Next, NEW f \in Modules, installed[f] = HandEdit,
                      installed'[f] # HandEdit
               PROVE  call.fn = "write"
    OBVIOUS
  <2>1. UpdateTypeOK /\ installed \in [Modules -> Contents]
    BY TypesSplit DEF SupervisorInvariant, UpdateTypeOK
  <2>2. ~Edit
    <3>1. ASSUME NEW g \in Modules, EditModule(g)
          PROVE  installed'[f] = HandEdit
      BY <2>1, <3>1 DEF EditModule
    <3> QED BY <3>1 DEF Edit
  <2>3. CallStep
    BY <2>2, WhoReplacesModules DEF Transact
  <2>4. WriteModule \/ RollModule
    BY <2>3 DEF CallStep, ApplyAnswered, ApplyRefused, ApplyChecked, JournalModule, WriteFails, AllReplaced, RollMetadata,
       JournalRestored, RollFails, RolledBack, WriteMetadata, MarkComplete, CommitFails, RemarkFailed, diskVars
  <2>5. ASSUME RollModule
        PROVE  FALSE
    <3>1. PICK g \in journal[call.job].applied :
            /\ Restorable(call.job, g)
            /\ installed' = [installed EXCEPT ![g] = journal[call.job].old[g]]
      BY <2>5 DEF RollModule
    <3>2. g = f /\ installed'[f] = journal[call.job].old[f]
      BY <2>1, <3>1
    <3>3. installed[f] \in {New(call.job, f), 0}
      BY <3>1, <3>2 DEF Restorable
    <3>4. call.job \in Jobs /\ journal[call.job].state # "none"
      BY <2>5, CallHasJob DEF SupervisorInvariant, RollModule
    <3>5. New(call.job, f) \in 0 .. Newest
      BY <2>1, <3>4, NewIsContent DEF SupervisorInvariant
    <3> QED BY <3>3, <3>5, ModuleUpdateAssumption
  <2> QED BY <2>4, <2>5 DEF WriteModule
<1> QED BY <1>1, SupervisorIsConsistent, PTL DEF Spec, HandEditsSurviveRollback
=============================================================================
