------------------------------ MODULE FirstRun ------------------------------
(***************************************************************************)
(* How an installation gets its administrator and loses it again: the       *)
(* launcher decides between browser setup and starting the services (run),  *)
(* setup provisions the administrator in a temporary authentication service *)
(* and then commits the configuration (run_setup, provision_admin), and the *)
(* cleanup program marks the configuration before it removes the databases  *)
(* (postplus-clean-data).  Lease on the data directory: shared by services, *)
(* exclusive for cleanup (DataDirectoryLock).                               *)
(***************************************************************************)
EXTENDS Naturals, FiniteSets

CONSTANTS
    Passwords,      \* what the setup form may hold
    MaxPosts,       \* bound: submitted setup forms
    MaxCleanups,    \* bound: runs of the cleanup program
    MaxStops        \* bound: times a program is stopped or crashes

ASSUME FirstRunAssumption == {MaxPosts, MaxCleanups, MaxStops} \subseteq Nat

VARIABLES
    frFile,         \* the configuration: whether it is initialised, and its token file
    frLock, frCall, \* its lock and the calls of replace_config_file
    frLauncher,     \* the launcher: where it is and the configuration it read
    frForm,         \* the password of the form being handled
    frTokens,       \* the service token files that exist
    frAdmin,        \* the account of the form's user name in auth.sqlite3
    frMail,         \* storage.sqlite3 holds mail of earlier accounts
    frCleanup,      \* the cleanup program: where it is and the configuration it read
    frOverlap,      \* since the last provisioning, cleanup held the lease under a launcher that had decided
    frPosts, frCleanups, frStops

frVars == <<frFile, frLock, frCall, frLauncher, frForm, frTokens, frAdmin, frMail, frCleanup,
            frOverlap, frPosts, frCleanups, frStops>>

Conf == INSTANCE ConfigFile
        WITH Replacers <- {"setup", "cleanup"}, file <- frFile, lockedBy <- frLock, replacing <- frCall

-----------------------------------------------------------------------------
Contents == [setup : {"missing", "incomplete", "required", "complete"}, token : 0..MaxPosts]
MissingFile == [setup |-> "missing", token |-> 0]
Example == [setup |-> "incomplete", token |-> 0]
NoAccount == [password |-> 0, admin |-> FALSE]
AccountStates == [password : Passwords \cup {0}, admin : BOOLEAN]

LauncherAt == {"down", "decided", "form", "post", "auth", "created", "commit", "committing", "done", "services"}
CleanupAt == {"off", "read", "leased", "marking", "auth", "storage"}

FirstRunTypeOK ==
    /\ frFile \in Contents
    /\ frLock \subseteq {"setup", "cleanup"} /\ Cardinality(frLock) <= 1
    /\ \A w \in {"setup", "cleanup"} : {frCall[w].expected, frCall[w].replacement} \subseteq Contents
    /\ frLauncher \in [at : LauncherAt, read : Contents]
    /\ frForm \in Passwords \cup {0} /\ frTokens \subseteq 1..MaxPosts
    /\ frAdmin \in AccountStates /\ frMail \in BOOLEAN
    /\ frCleanup \in [at : CleanupAt, read : Contents]
    /\ frOverlap \in BOOLEAN
    /\ frPosts \in 0..MaxPosts /\ frCleanups \in 0..MaxCleanups /\ frStops \in 0..MaxStops

(* Nothing yet; or an example configuration, over the databases of an earlier *)
(* installation whose user with the administrator's name is not one.         *)
FirstRunInit ==
    /\ \/ frFile = MissingFile /\ frAdmin = NoAccount /\ frMail = FALSE
       \/ /\ frFile = Example
          /\ frAdmin \in {NoAccount} \cup [password : Passwords, admin : {FALSE}]
          /\ frMail = (frAdmin # NoAccount)
    /\ frLock = {} /\ frCall = [w \in {"setup", "cleanup"} |-> Conf!NoCall(MissingFile)]
    /\ frLauncher = [at |-> "down", read |-> MissingFile] /\ frForm = 0 /\ frTokens = {}
    /\ frCleanup = [at |-> "off", read |-> MissingFile] /\ frOverlap = FALSE
    /\ frPosts = 0 /\ frCleanups = 0 /\ frStops = 0

At(here) == frLauncher.at = here
Goes(there) == frLauncher' = [frLauncher EXCEPT !.at = there]
CleanupGoes(there) == frCleanup' = [frCleanup EXCEPT !.at = there]

(* DataDirectoryLock, never waiting: who holds the directory. *)
Shared == frLauncher.at \in {"auth", "created", "services"}
Exclusive == frCleanup.at \in {"leased", "marking", "auth", "storage"}

needs_setup(c) == c.setup \in {"missing", "incomplete", "required"}

SameFile == UNCHANGED <<frFile, frLock, frCall>>
SameCleanup == UNCHANGED <<frCleanup, frCleanups>>
SameData == UNCHANGED <<frAdmin, frMail>>

-----------------------------------------------------------------------------
(* run: the configuration is read, and setup is needed or not. *)
Decide ==
    /\ At("down") /\ frStops < MaxStops
    /\ frLauncher' = [at |-> "decided", read |-> frFile]
    /\ frOverlap' = (frOverlap \/ Exclusive)
    /\ UNCHANGED <<frForm, frTokens, frPosts, frStops>> /\ SameFile /\ SameData /\ SameCleanup

(* run_setup begins only on the configuration that was read. *)
OpenSetup ==
    /\ At("decided") /\ needs_setup(frLauncher.read)
    /\ IF frFile = frLauncher.read THEN Goes("form") ELSE Goes("down")
    /\ UNCHANGED <<frForm, frTokens, frOverlap, frPosts, frStops>> /\ SameFile /\ SameData /\ SameCleanup

(* A valid form: a new service token and the staged configuration are written. *)
PostSetup ==
    /\ At("form") /\ frPosts < MaxPosts
    /\ frLauncher.read = MissingFile => frFile = MissingFile
    /\ frPosts' = frPosts + 1
    /\ frForm' \in Passwords
    /\ frTokens' = frTokens \cup {frPosts'}
    /\ Goes("post")
    /\ UNCHANGED <<frOverlap, frStops>> /\ SameFile /\ SameData /\ SameCleanup

(* OwnedFiles: a form that fails takes its files along; the wizard goes on. *)
FormFails ==
    /\ frLauncher.at \in {"post", "auth", "created", "commit"}
    /\ Goes("form") /\ frForm' = 0
    /\ frTokens' = frTokens \ {frPosts}
    /\ UNCHANGED <<frOverlap, frPosts, frStops>> /\ SameFile /\ SameData /\ SameCleanup

(* provision_admin: a temporary authentication service, under the shared lease, *)
StartAuth ==
    /\ At("post") /\ ~Exclusive
    /\ Goes("auth")
    /\ UNCHANGED <<frForm, frTokens, frOverlap, frPosts, frStops>> /\ SameFile /\ SameData /\ SameCleanup

(* creates the account, or verifies that it is the administrator of the form, *)
CreateAdmin ==
    /\ At("auth")
    /\ LET wanted == [password |-> frForm, admin |-> TRUE]
       IN  frAdmin \in {NoAccount, wanted} /\ frAdmin' = wanted
    /\ frOverlap' = FALSE
    /\ Goes("created")
    /\ UNCHANGED <<frForm, frTokens, frMail, frPosts, frStops>> /\ SameFile /\ SameCleanup

(* and is stopped before the configuration is committed. *)
StopAuth ==
    /\ At("created")
    /\ Goes("commit")
    /\ UNCHANGED <<frForm, frTokens, frOverlap, frPosts, frStops>> /\ SameFile /\ SameData /\ SameCleanup

Initialised == [setup |-> "complete", token |-> frPosts]

(* commit_without_replacing: link fails when a file has appeared meanwhile. *)
CommitNew ==
    /\ At("commit") /\ frLauncher.read = MissingFile /\ frFile = MissingFile
    /\ frFile' = Initialised
    /\ Goes("done") /\ frForm' = 0
    /\ UNCHANGED <<frLock, frCall, frTokens, frOverlap, frPosts, frStops>> /\ SameData /\ SameCleanup

CommitExisting ==
    /\ At("commit") /\ frLauncher.read # MissingFile
    /\ Conf!Begin("setup", frLauncher.read, Initialised)
    /\ Goes("committing")
    /\ UNCHANGED <<frForm, frTokens, frOverlap, frPosts, frStops>> /\ SameData /\ SameCleanup

Committing ==
    /\ At("committing")
    /\ Conf!Replace("setup")
    /\ UNCHANGED <<frLauncher, frForm, frTokens, frOverlap, frPosts, frStops>> /\ SameData /\ SameCleanup

Committed ==
    /\ At("committing")
    /\ \/ frCall["setup"].at = "replaced" /\ Goes("done") /\ UNCHANGED frTokens
       \/ frCall["setup"].at = "refused" /\ Goes("form") /\ frTokens' = frTokens \ {frPosts}
    /\ Conf!Forget({"setup"}, MissingFile)
    /\ frForm' = 0
    /\ UNCHANGED <<frOverlap, frPosts, frStops>> /\ SameData /\ SameCleanup

(* The configuration is read again, the lease taken and the services started. *)
StartServices ==
    /\ At("done") \/ (At("decided") /\ ~needs_setup(frLauncher.read))
    /\ IF frFile # MissingFile /\ ~Exclusive THEN Goes("services") ELSE Goes("down")
    /\ UNCHANGED <<frForm, frTokens, frOverlap, frPosts, frStops>> /\ SameFile /\ SameData /\ SameCleanup

(* The launcher is stopped or dies anywhere; files of an unfinished form stay. *)
LauncherStops ==
    /\ ~At("down") /\ frStops < MaxStops
    /\ frStops' = frStops + 1
    /\ frLauncher' = [at |-> "down", read |-> MissingFile] /\ frForm' = 0
    /\ Conf!Forget({"setup"}, MissingFile)
    /\ UNCHANGED <<frTokens, frOverlap, frPosts>> /\ SameData /\ SameCleanup

-----------------------------------------------------------------------------
SameLauncher == UNCHANGED <<frLauncher, frForm, frTokens, frPosts, frStops>>

(* postplus-clean-data reads an existing configuration, *)
CleanupReads ==
    /\ frCleanup.at = "off" /\ frCleanups < MaxCleanups /\ frFile # MissingFile
    /\ frCleanup' = [at |-> "read", read |-> frFile]
    /\ frCleanups' = frCleanups + 1
    /\ UNCHANGED frOverlap /\ SameFile /\ SameData /\ SameLauncher

(* takes the exclusive lease or gives up, *)
CleanupLeases ==
    /\ frCleanup.at = "read"
    /\ IF Shared THEN CleanupGoes("off") /\ UNCHANGED frOverlap
                 ELSE CleanupGoes("leased") /\ frOverlap' = (frOverlap \/ ~At("down"))
    /\ UNCHANGED frCleanups /\ SameFile /\ SameData /\ SameLauncher

(* Mutant: the databases are removed without the mark. *)
RemoveAtOnce ==
    /\ frCleanup.at = "leased"
    /\ CleanupGoes("auth")
    /\ UNCHANGED <<frOverlap, frCleanups>> /\ SameFile /\ SameData /\ SameLauncher

(* sets setup_required, *)
CleanupMarks ==
    /\ frCleanup.at = "leased"
    /\ Conf!Begin("cleanup", frCleanup.read, [frCleanup.read EXCEPT !.setup = "required"])
    /\ CleanupGoes("marking")
    /\ UNCHANGED <<frOverlap, frCleanups>> /\ SameData /\ SameLauncher

CleanupMarking ==
    /\ frCleanup.at = "marking"
    /\ \/ Conf!Replace("cleanup") /\ UNCHANGED frCleanup
       \/ /\ frCall["cleanup"].at \in {"replaced", "refused"}
          /\ Conf!Forget({"cleanup"}, MissingFile)
          /\ CleanupGoes(IF frCall["cleanup"].at = "replaced" THEN "auth" ELSE "off")
    /\ UNCHANGED <<frOverlap, frCleanups>> /\ SameData /\ SameLauncher

(* and removes the databases, one file after the other. *)
RemoveAccounts ==
    /\ frCleanup.at = "auth"
    /\ frAdmin' = NoAccount
    /\ CleanupGoes("storage")
    /\ UNCHANGED <<frMail, frOverlap, frCleanups>> /\ SameFile /\ SameLauncher

RemoveMail ==
    /\ frCleanup.at = "storage"
    /\ frMail' = FALSE
    /\ CleanupGoes("off")
    /\ UNCHANGED <<frAdmin, frOverlap, frCleanups>> /\ SameFile /\ SameLauncher

CleanupStops ==
    /\ frCleanup.at # "off" /\ frStops < MaxStops
    /\ frStops' = frStops + 1
    /\ CleanupGoes("off")
    /\ Conf!Forget({"cleanup"}, MissingFile)
    /\ UNCHANGED <<frLauncher, frForm, frTokens, frOverlap, frPosts, frCleanups>> /\ SameData

FirstRunNext ==
    \/ Decide \/ OpenSetup \/ PostSetup \/ FormFails \/ StartAuth \/ CreateAdmin \/ StopAuth
    \/ CommitNew \/ CommitExisting \/ Committing \/ Committed \/ StartServices \/ LauncherStops
    \/ CleanupReads \/ CleanupLeases \/ CleanupMarks \/ CleanupMarking \/ RemoveAccounts
    \/ RemoveMail \/ CleanupStops

FirstRunSpec == FirstRunInit /\ [][FirstRunNext]_frVars

-----------------------------------------------------------------------------
(* Services never start on an initialised installation without its          *)
(* administrator and its service token file, whichever step of setup or     *)
(* cleanup failed or was cut off before: provisioning precedes the commit,   *)
(* the mark precedes the removal.  The lease does not cover a launcher       *)
(* between its decision and its own lease: a cleanup begun there is excluded. *)
ServingHasAdmin ==
    At("services") /\ ~frOverlap => frAdmin.admin /\ frFile.token \in frTokens
=============================================================================
