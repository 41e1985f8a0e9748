-------------------------------- MODULE Acme --------------------------------
(***************************************************************************)
(* Certificate issuance (AcmeManager): one worker thread per job runs the   *)
(* ACME protocol while administrators ask for its status, cancel it or start *)
(* the next.  control_mutex serialises start and cancel, state_mutex guards  *)
(* the job's state and the challenges the HTTP listeners answer with; the    *)
(* worker holds neither between its steps.  Each exchange with the authority *)
(* either answers as hoped or ends the job; its nonces and the polling       *)
(* within one stage are not told apart.                                     *)
(***************************************************************************)
EXTENDS Naturals, FiniteSets

CONSTANT MaxJobs    \* bound: certificate requests; their identifiers are random in the code

ASSUME AcmeAssumption == MaxJobs \in Nat

Jobs == 1..MaxJobs
NoJob == 0

VARIABLES
    acState,        \* the job the manager reports and its state
    acWorker,       \* job -> the stage its thread is in
    acCancelled,    \* the flag the running worker polls
    acChallenges,   \* jobs whose challenge token is published
    acFiles,        \* files of issued certificates: <<job, file>>
    acControl,      \* who holds control_mutex: "none", "start" or "cancel"
    acJobs,
    acAsked         \* jobs whose cancellation an administrator asked for

acVars == <<acState, acWorker, acCancelled, acChallenges, acFiles, acControl, acJobs, acAsked>>

Terminal == {"succeeded", "failed", "cancelled"}
Stages == {"queued", "connecting", "ordering", "authorizing", "authorized", "finalizing", "downloading",
           "issued", "key", "certificate"}

AcmeTypeOK ==
    /\ acState \in [job : Jobs \cup {NoJob}, at : {"idle"} \cup Stages \cup Terminal]
    /\ acWorker \in [Jobs -> {"none", "ended"} \cup Stages]
    /\ acCancelled \in BOOLEAN /\ acChallenges \subseteq Jobs
    /\ acFiles \subseteq Jobs \X {"private-key.pem", "fullchain.pem"}
    /\ acControl \in {"none", "start", "cancel"} /\ acJobs \in Jobs \cup {0} /\ acAsked \subseteq Jobs

AcmeInit ==
    /\ acState = [job |-> NoJob, at |-> "idle"]
    /\ acWorker = [j \in Jobs |-> "none"]
    /\ acCancelled = FALSE /\ acChallenges = {} /\ acFiles = {}
    /\ acControl = "none" /\ acJobs = 0 /\ acAsked = {}

-----------------------------------------------------------------------------
(* start: refused while a job is not terminal, *)
Start ==
    /\ acControl = "none" /\ acJobs < MaxJobs
    /\ acState.at \in {"idle"} \cup Terminal
    /\ acControl' = "start"
    /\ UNCHANGED <<acState, acWorker, acCancelled, acChallenges, acFiles, acJobs, acAsked>>

(* Mutant: the next job does not wait for the thread of the last one. *)
notWaiting == TRUE

joined == \A j \in Jobs : acWorker[j] = "none"

(* then it waits for the last worker to end, queues the next job *)
NextJob ==
    /\ acControl = "start" /\ joined
    /\ acJobs' = acJobs + 1
    /\ acCancelled' = FALSE
    /\ acState' = [job |-> acJobs', at |-> "queued"]
    /\ acChallenges' = {}
    /\ acControl' = "none"
    /\ UNCHANGED <<acFiles, acAsked>>

(* and starts its thread.  Without one the job stays queued, and every later start is refused. *)
Started == NextJob /\ acWorker' = [acWorker EXCEPT ![acJobs'] = "queued"]
NoThread == NextJob /\ UNCHANGED acWorker

(* cancel: the job must be the current one and not terminal; the flag is set later. *)
Cancel ==
    /\ acControl = "none" /\ acState.job # NoJob /\ acState.at \notin Terminal
    /\ acControl' = "cancel"
    /\ acAsked' = acAsked \cup {acState.job}
    /\ UNCHANGED <<acState, acWorker, acCancelled, acChallenges, acFiles, acJobs>>

Cancelled ==
    /\ acControl = "cancel"
    /\ acCancelled' = TRUE
    /\ acControl' = "none"
    /\ UNCHANGED <<acState, acWorker, acChallenges, acFiles, acJobs, acAsked>>

-----------------------------------------------------------------------------
(* issue *)
Working(j) == acWorker[j] \in Stages
EndsIn(j, outcome) ==
    /\ acWorker' = [acWorker EXCEPT ![j] = "ended"]
    /\ acState' = [acState EXCEPT !.at = outcome]

(* Stages polled between requests; progress publishes the stage. *)
Enters(j, from, to) ==
    /\ acWorker[j] = from /\ ~acCancelled
    /\ acWorker' = [acWorker EXCEPT ![j] = to]
    /\ acState' = [acState EXCEPT !.at = to]

ReachAuthority(j) == Enters(j, "queued", "connecting") /\ UNCHANGED acChallenges
Order(j) == Enters(j, "connecting", "ordering") /\ UNCHANGED acChallenges

(* The authorization is pending: the token is published before the CA is told. *)
Authorize(j) == Enters(j, "ordering", "authorizing") /\ acChallenges' = acChallenges \cup {j}

(* The authorization was valid already, or became so: no challenge remains. *)
Authorized(j) ==
    \/ Enters(j, "ordering", "authorized") /\ UNCHANGED acChallenges
    \/ Enters(j, "authorizing", "authorized") /\ acChallenges' = {}
Finalize(j) == Enters(j, "authorized", "finalizing") /\ UNCHANGED acChallenges
Download(j) == Enters(j, "finalizing", "downloading") /\ UNCHANGED acChallenges

(* The last look at the flag precedes the files. *)
Issue(j) == Enters(j, "downloading", "issued") /\ UNCHANGED acChallenges

WriteFile(j, from, file, to) ==
    /\ acWorker[j] = from
    /\ acFiles' = acFiles \cup {<<j, file>>}
    /\ acWorker' = [acWorker EXCEPT ![j] = to]
    /\ UNCHANGED acState

Succeed(j) ==
    /\ acWorker[j] = "certificate"
    /\ EndsIn(j, "succeeded")
    /\ UNCHANGED acFiles

(* check throws once the flag is set, wherever the job looks at it. *)
GiveUp(j) ==
    /\ Working(j) /\ acWorker[j] \notin {"issued", "key", "certificate"}
    /\ acCancelled
    /\ EndsIn(j, "cancelled")
    /\ UNCHANGED acFiles

(* Refused by the CA, timed out, or a file cannot be written: Cleanup removes the files. *)
Failed(j) ==
    /\ Working(j) /\ acWorker[j] # "certificate"
    /\ EndsIn(j, "failed")
    /\ acFiles' = {f \in acFiles : f[1] # j}

(* The worker's last act, under a lock of its own after the terminal state. *)
ClearChallenges(j) ==
    /\ acWorker[j] = "ended"
    /\ acChallenges' = {}
    /\ acWorker' = [acWorker EXCEPT ![j] = "none"]
    /\ UNCHANGED acState

IssueStep(j) ==
    /\ \/ /\ \/ ReachAuthority(j) \/ Order(j) \/ Authorize(j) \/ Authorized(j) \/ Finalize(j) \/ Download(j)
             \/ Issue(j) \/ ClearChallenges(j)
          /\ UNCHANGED acFiles
       \/ /\ \/ WriteFile(j, "issued", "private-key.pem", "key")
             \/ WriteFile(j, "key", "fullchain.pem", "certificate")
             \/ Succeed(j) \/ GiveUp(j) \/ Failed(j)
          /\ UNCHANGED acChallenges
    /\ UNCHANGED <<acCancelled, acControl, acJobs, acAsked>>

AcmeNext == Start \/ Started \/ NoThread \/ Cancel \/ Cancelled \/ \E j \in Jobs : IssueStep(j)

AcmeSpec == AcmeInit /\ [][AcmeNext]_acVars

-----------------------------------------------------------------------------
(* Jobs keep apart, however a cancellation races with the end of a job and  *)
(* the start of the next: a job is cancelled only when its own cancellation  *)
(* was asked for, the challenge the authority is about to fetch stays        *)
(* published, and a job that succeeded has both its files.                   *)
JobsKeepApart ==
    /\ acState.at = "cancelled" => acState.job \in acAsked
    /\ \A j \in Jobs : acWorker[j] = "authorizing" => j \in acChallenges
    /\ acState.at = "succeeded" => {acState.job} \X {"private-key.pem", "fullchain.pem"} \subseteq acFiles
=============================================================================
