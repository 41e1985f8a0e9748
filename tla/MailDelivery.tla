---------------------------- MODULE MailDelivery ----------------------------
(***************************************************************************)
(* Mail delivery as a whole: the delivery worker (delivery.cpp), the       *)
(* clients that submit mail, the administrator's account deletion, and the *)
(* loopback RPC that joins them to storage.                                *)
(*                                                                         *)
(* An RPC may time out at its caller while storage still holds the request *)
(* and executes it later, in any order; such requests are in late.  A call *)
(* that executes but whose answer is lost is one the caller abandons while *)
(* storage is serving it.                                                  *)
(***************************************************************************)
EXTENDS StorageQueue

CONSTANTS
    MaxFaults,      \* bound: timeouts, failed calls and restarts
    NoJob           \* the worker holds no job

ASSUME DeliveryAssumption == MaxFaults \in Nat /\ NoJob \notin Jobs

VARIABLES
    pc,             \* what the worker does next, or the storage call it awaits
    job,            \* the snapshot of the job it processes
    serving,        \* the request storage is executing
    late,           \* requests whose caller gave up before storage took them
    handed,         \* routes given to clients, held by their sessions
    purged,         \* <<u, cleanup>>: mailbox_delete succeeded in that cleanup
    expired,        \* jobs older than delivery_max_age_seconds
    transferred,    \* history: jobs a remote server accepted
    faults          \* faults so far

workerVars == <<pc, job>>
clientVars == <<handed, purged>>
vars == <<accountVars, storageVars, workerVars, serving, late, clientVars,
          expired, transferred, faults>>

CallOps == {"resolve", "deliver", "finish", "reject", "expire", "retry"}
WorkerCalls == [op : CallOps, job : Jobs]
ClientCalls ==
    [op : {"enqueue"}, sender : Senders \cup {NoOne}, user : Mailboxes \cup {NoOne},
       request : Requests \cup {NoOne},
       routes : [Recipients -> Mailboxes \cup Remotes \cup {NoOne}]]
    \cup [op : {"route"}, recipient : LocalAddresses]
    \cup [op : {"forward"}, pattern : Patterns, destination : Mailboxes]
    \cup [op : {"mailboxDelete"}, owner : Mailboxes, cleanup : 1..MaxIncarnations]
Idle == [answer |-> "none"]
Services == [call : WorkerCalls \cup ClientCalls, asked : SUBSET (Recipients \cup {NoOne}),
             alive : SUBSET Mailboxes, answer : {"worker", "client", "nobody"}]

DeliveryTypeOK ==
    /\ pc \in {"list", "scan", "send"} \cup CallOps
    /\ job \in Jobs \cup {NoJob} /\ (job = NoJob <=> pc = "list")
    /\ serving \in Services \cup {Idle}
    /\ late \subseteq WorkerCalls
    /\ handed \subseteq LocalAddresses \X Mailboxes
    /\ purged \subseteq Mailboxes \X (1..MaxIncarnations)
    /\ expired \subseteq Jobs
    /\ transferred \subseteq Jobs
    /\ faults \in 0..MaxFaults

(* Every variable has its type, and the worker holds a job while it works. *)
TypeOK == AccountsTypeOK /\ StorageTypeOK /\ DeliveryTypeOK

Init ==
    /\ AccountsInit /\ StorageInit
    /\ pc = "list" /\ job = NoJob
    /\ serving = Idle /\ late = {}
    /\ handed = {} /\ purged = {}
    /\ expired = {} /\ transferred = {}
    /\ faults = 0

Fault == faults < MaxFaults /\ faults' = faults + 1

-----------------------------------------------------------------------------
(* The delivery worker *)

MoveTo(step) == pc' = step /\ job' = IF step = "list" THEN NoJob ELSE job

(* An exception in process() leads to queue_retry, one in queue_retry to the
   outer handler, which only waits and lists the queue again.              *)
AfterFailure(step) == IF step = "retry" THEN "list" ELSE "retry"

AfterSuccess(step) ==
    CASE step = "resolve" -> "deliver"
      [] step = "deliver" -> "finish"
      [] OTHER -> "list"

(* Mutant: the answer of deliver is not passed through require_ok. *)
Unchecked(step, ok) ==
    MoveTo(IF ok \/ step = "deliver" THEN AfterSuccess(step) ELSE AfterFailure(step))

Answer(step, ok) == MoveTo(IF ok THEN AfterSuccess(step) ELSE AfterFailure(step))

(* Mutant: no age ends the retries. *)
NeverTooOld(j) == FALSE

(* delivery_max_age_seconds have passed since the job was created. *)
TooOld(j) == j \in expired

(* queue_list and the age check that comes before everything else. *)
TakeJob ==
    /\ pc = "list" /\ serving = Idle
    /\ \E j \in due :
        /\ FirstDue(j)
        /\ job' = j
        /\ pc' = IF TooOld(j) THEN "expire" ELSE "scan"
    /\ UNCHANGED <<accountVars, storageVars, serving, late, clientVars, expired, transferred, faults>>

(* The filter accepts the message (into INBOX or Junk), refuses it, or fails. *)
Scan ==
    /\ pc = "scan"
    /\ \/ MoveTo(IF IsLocal(job) THEN "resolve" ELSE "send")
       \/ MoveTo("reject")
       \/ MoveTo("retry")
    /\ UNCHANGED <<accountVars, storageVars, serving, late, clientVars, expired, transferred, faults>>

(* transfer: accepted; or failed for good or for now, before or after the remote
   server took the message (an unreadable final answer of a relay is for good). *)
Transfer ==
    /\ pc = "send"
    /\ \/ MoveTo("finish") /\ transferred' = transferred \cup {job}
       \/ (MoveTo("reject") \/ MoveTo("retry")) /\ transferred' \in {transferred, transferred \cup {job}}
    /\ UNCHANGED <<accountVars, storageVars, serving, late, clientVars, expired, faults>>

(* The RPC deadline passes: the worker goes on, the request does not go away. *)
Timeout ==
    /\ Fault
    /\ pc \in CallOps
    /\ MoveTo(AfterFailure(pc))
    /\ IF serving # Idle /\ serving.answer = "worker"
       THEN serving' = [serving EXCEPT !.answer = "nobody"] /\ UNCHANGED late
       ELSE late' = late \cup {[op |-> pc, job |-> job]} /\ UNCHANGED serving
    /\ UNCHANGED <<accountVars, storageVars, clientVars, expired, transferred>>

-----------------------------------------------------------------------------
(* Storage takes a request *)

Begin(call, answer) ==
    /\ serving = Idle
    /\ serving' = [call |-> call, asked |-> {}, alive |-> {}, answer |-> answer]

BeginWorkerCall ==
    /\ pc \in CallOps
    /\ Begin([op |-> pc, job |-> job], "worker")
    /\ UNCHANGED <<accountVars, storageVars, workerVars, late, clientVars, expired, transferred, faults>>

BeginLateCall ==
    /\ \E c \in late : Begin(c, "nobody") /\ late' = late \ {c}
    /\ UNCHANGED <<accountVars, storageVars, workerVars, clientVars, expired, transferred, faults>>

(* What a client may submit: routes it was given and, once authenticated,
   remote recipients.                                                    *)
Routings(user) ==
    {f \in [Recipients -> Mailboxes \cup Remotes \cup {NoOne}] :
        /\ Addressed(f) # {}
        /\ \A r \in Addressed(f) :
            IF r \in Remotes THEN f[r] = r /\ user # NoOne ELSE <<r, f[r]>> \in handed}

Submit ==
    /\ \E s \in Submissions : Fresh(s)
    /\ \E sender \in Senders \cup {NoOne}, user \in Mailboxes \cup {NoOne} :
       \E request \in IF user = NoOne THEN {NoOne} ELSE Requests \cup {NoOne} :
       \E routes \in Routings(user) :
            Begin([op |-> "enqueue", sender |-> sender, user |-> user,
                   request |-> request, routes |-> routes], "client")
    /\ UNCHANGED <<accountVars, storageVars, workerVars, late, clientVars, expired, transferred, faults>>

AskRoute ==
    /\ \E r \in LocalAddresses : Begin([op |-> "route", recipient |-> r], "client")
    /\ UNCHANGED <<accountVars, storageVars, workerVars, late, clientVars, expired, transferred, faults>>

AskForwarding ==
    /\ \E p \in Patterns, u \in Mailboxes :
            Begin([op |-> "forward", pattern |-> p, destination |-> u], "client")
    /\ UNCHANGED <<accountVars, storageVars, workerVars, late, clientVars, expired, transferred, faults>>

(* The web service calls mailbox_delete once user_delete has answered with a
   cleanup_id; repeated and late calls of earlier cleanups come at any time.  *)
AskMailboxDelete ==
    /\ \E u \in Mailboxes, n \in 1..MaxIncarnations :
        /\ n < incarnation[u] \/ (n = incarnation[u] /\ u \in deleting)
        /\ Begin([op |-> "mailboxDelete", owner |-> u, cleanup |-> n], "client")
    /\ UNCHANGED <<accountVars, storageVars, workerVars, late, clientVars, expired, transferred, faults>>

-----------------------------------------------------------------------------
(* Storage executes the request *)

(* The accounts a handler asks auth about. *)
Asks(c) ==
    CASE c.op = "resolve" -> IF queue[c.job] = "absent" THEN {} ELSE {Destination(c.job)}
      [] c.op = "deliver" -> {Destination(c.job)} \cap tombstones
      [] c.op = "enqueue" -> {c.routes[r] : r \in Addressed(c.routes) \cap LocalAddresses}
                             \cup ({c.user} \cap tombstones)
      [] c.op = "route" -> {c.recipient, ExactRule(c.recipient), WildRule} \cap Mailboxes
      [] c.op = "forward" -> {c.destination}
      [] c.op = "mailboxDelete" -> {c.owner}
      [] OTHER -> {}

Ask ==
    /\ serving # Idle
    /\ \E u \in Asks(serving.call) \ serving.asked :
        serving' = [serving EXCEPT !.asked = @ \cup {u}, !.alive = @ \cup ({u} \cap users)]
    /\ UNCHANGED <<accountVars, storageVars, workerVars, late, clientVars, expired, transferred, faults>>

Answered == serving # Idle /\ Asks(serving.call) \subseteq serving.asked

CommitWorkerCall ==
    /\ Answered
    /\ serving.call.op \in CallOps
    /\ \E ok \in BOOLEAN, c \in {serving.call} :
        /\ CASE c.op = "resolve" -> ok = ResolvesPinned(c.job, serving.alive) /\ UNCHANGED storageVars
             [] c.op = "deliver" -> Deliver(c.job, serving.alive, ok)
             [] c.op = "finish" -> ok /\ FinishQueue(c.job)
             [] c.op = "reject" -> RejectQueue(c.job, "rejected", ok)
             [] c.op = "expire" -> RejectQueue(c.job, "failed", ok)
             [] c.op = "retry" -> RetryQueue(c.job, ok)
        /\ IF serving.answer = "worker" THEN Answer(c.op, ok) ELSE UNCHANGED workerVars
    /\ serving' = Idle
    /\ UNCHANGED <<accountVars, late, clientVars, expired, transferred, faults>>

CommitEnqueue ==
    /\ Answered /\ serving.call.op = "enqueue"
    /\ \E s \in Submissions : Enqueue(serving.call, s, serving.alive)
    /\ serving' = Idle
    /\ UNCHANGED <<accountVars, workerVars, late, clientVars, expired, transferred, faults>>

CommitRoute ==
    /\ Answered /\ serving.call.op = "route"
    /\ LET recipient == serving.call.recipient
           inbox == Resolution(recipient, serving.alive)
       IN  handed' = handed \cup ({<<recipient, inbox>>} \cap (LocalAddresses \X Mailboxes))
    /\ serving' = Idle
    /\ UNCHANGED <<accountVars, storageVars, workerVars, late, purged, expired, transferred, faults>>

CommitForwarding ==
    /\ Answered /\ serving.call.op = "forward"
    /\ ForwardingCreate(serving.call.pattern, serving.call.destination, serving.alive)
    /\ serving' = Idle
    /\ UNCHANGED <<accountVars, workerVars, late, clientVars, expired, transferred, faults>>

CommitMailboxDelete ==
    /\ Answered /\ serving.call.op = "mailboxDelete"
    /\ MailboxDelete(serving.call.owner, serving.alive)
    /\ purged' = purged \cup {<<serving.call.owner, serving.call.cleanup>>}
    /\ serving' = Idle
    /\ UNCHANGED <<accountVars, workerVars, late, handed, expired, transferred, faults>>

(* A client request is refused, or changes nothing because it was done before. *)
RefuseClient ==
    /\ serving # Idle /\ serving.answer = "client"
    /\ serving' = Idle
    /\ UNCHANGED <<accountVars, storageVars, workerVars, late, clientVars, expired, transferred, faults>>

(* auth does not answer or SQLite fails: the transaction is rolled back. *)
Abort ==
    /\ Fault
    /\ serving # Idle
    /\ IF serving.answer = "worker" THEN Answer(serving.call.op, FALSE) ELSE UNCHANGED workerVars
    /\ serving' = Idle
    /\ UNCHANGED <<accountVars, storageVars, late, clientVars, expired, transferred>>

-----------------------------------------------------------------------------
(* Accounts, rules, readers, time and restarts *)

AccountStep ==
    /\ \E u \in Mailboxes :
        \/ CreateUser(u)
        \/ DeleteUser(u)
        \/ \E n \in 1..MaxIncarnations : <<u, n>> \in purged /\ FinishDelete(u, n)
    /\ UNCHANGED <<storageVars, workerVars, serving, late, clientVars, expired, transferred, faults>>

RemoveRule ==
    /\ serving = Idle
    /\ \E p \in Patterns : ForwardingDelete(p)
    /\ UNCHANGED <<accountVars, workerVars, serving, late, clientVars, expired, transferred, faults>>

DiscardMail ==
    /\ serving = Idle
    /\ \E m \in mail : DeleteMail(m)
    /\ UNCHANGED <<accountVars, workerVars, serving, late, clientVars, expired, transferred, faults>>

(* The delay of queue_retry has passed. *)
DueAgain ==
    /\ \E j \in Jobs : queue[j] = "pending" /\ j \notin due /\ BecomeDue({j})
    /\ UNCHANGED <<accountVars, queue, status, envelope, mailVars, rules, workerVars, serving,
                   late, clientVars, expired, transferred, faults>>

GrowOld ==
    /\ \E j \in Jobs : queue[j] = "pending" /\ j \notin expired /\ expired' = expired \cup {j}
    /\ UNCHANGED <<accountVars, storageVars, workerVars, serving, late, clientVars, transferred, faults>>

(* A child exits: the supervisor stops the group and it starts again with what
   SQLite holds.  Startup marks rows still queued or retrying without a queue
   row as failed.                                                            *)
Restart ==
    /\ Fault
    /\ pc' = "list" /\ job' = NoJob
    /\ serving' = Idle /\ late' = {}
    /\ status' = [j \in Jobs |-> IF queue[j] = "absent" /\ status[j] \in {"queued", "retrying"}
                                 THEN "failed" ELSE status[j]]
    /\ UNCHANGED <<accountVars, queue, due, ahead, envelope, mailVars, rules, clientVars, expired, transferred>>

Next ==
    \/ TakeJob \/ Scan \/ Transfer \/ Timeout
    \/ BeginWorkerCall \/ BeginLateCall
    \/ Submit \/ AskRoute \/ AskForwarding \/ AskMailboxDelete
    \/ Ask \/ CommitWorkerCall \/ CommitEnqueue \/ CommitRoute
    \/ CommitForwarding \/ CommitMailboxDelete \/ RefuseClient \/ Abort
    \/ AccountStep \/ RemoveRule \/ DiscardMail
    \/ DueAgain \/ GrowOld \/ Restart

Spec == Init /\ [][Next]_vars

-----------------------------------------------------------------------------
(* Properties *)

(* However often a job is attempted, and whatever is delayed, lost or
   discarded, a mailbox receives one submission at most once: the receipts of
   deliver (storage.cpp) outlive both the queue row and the message.        *)
OneCopyPerSubmission == \A d \in Mailboxes \X Submissions : inserted[d] <= 1

(* The destination is the only local mailbox that takes part in the delivery:
   it is neither sent by, nor addressed to, another one.                     *)
Unshared(u, s) ==
    /\ envelope[s].sender \in {NoOne, u}
    /\ \A r \in Recipients : envelope[s].routes[r] = u => r \notin Mailboxes \ {u}

(* Mail accepted for one owner of an address is never found in the mailbox of
   the next owner: the receipts mailbox_delete leaves stop a worker, or a late
   deliver call, that still holds the job.  Mail that involves a second local
   mailbox is excluded here, see ReusedAddressGetsNoOldMail.                  *)
UnsharedMailStaysWithItsOwner ==
    \A m \in mail : m.box = "Inbox" /\ Unshared(m.owner, m.sub)
                     => m.incarnation = accepted[<<m.owner, m.sub>>]

(* docs/access.md:43: a reused address gets an empty mailbox, and receipts
   prevent a running worker from restoring mail from a deleted snapshot.     *)
ReusedAddressGetsNoOldMail ==
    \A m \in mail : m.box = "Inbox" => m.incarnation = accepted[<<m.owner, m.sub>>]

(* An account may be disabled between storage's question to auth and its
   commit, yet every pinned inbox of a queued job has an account or one whose
   cleanup is still to come.                                                 *)
QueueTargetsHaveOwners ==
    \A j \in Jobs : queue[j] # "absent" /\ IsLocal(j) => Destination(j) \in users \cup deleting

(* The same for the destination of a forwarding rule. *)
RuleTargetsHaveOwners ==
    \A p \in Patterns : rules[p] # NoOne => rules[p] \in users \cup deleting

(* Both: nothing leads to the mailbox of somebody who comes later. *)
TargetsAreOwned == QueueTargetsHaveOwners /\ RuleTargetsHaveOwners

(* The inbox holds the message, or held it; or the remote server took it. *)
Completed(j) == IF IsLocal(j) THEN inserted[<<Destination(j), j[1]>>] > 0 ELSE j \in transferred

(* A sender who is told "delivered" is told the truth, also when the answer
   belongs to an earlier attempt than the one that finishes the job.         *)
DeliveredIsTrue == \A j \in Jobs : status[j] = "delivered" => Completed(j)

(* The status a sender sees agrees with the queue: waiting while the job is
   pending, final once it is quarantined or gone; a late retry or reject of an
   earlier attempt does not disturb it.                                      *)
StatusMatchesQueue ==
    \A j \in Jobs :
        /\ queue[j] = "pending" => status[j] \in {"none", "queued", "retrying"}
        /\ queue[j] = "quarantined" => status[j] \in {"none", "rejected", "failed"}
        /\ queue[j] = "absent" => status[j] \in {"none", "delivered", "failed"}

(* Both: what a sender reads is so. *)
StatusIsTrue == DeliveredIsTrue /\ StatusMatchesQueue

(* A client that repeats its submission_id, because an answer was lost or two
   calls overlap, queues its mail once in the life of the account.            *)
RequestQueuedOnce ==
    \A s, t \in Submissions :
        s # t /\ envelope[s].request # NoOne
        => <<envelope[s].user, envelope[s].era, envelope[s].request>>
           # <<envelope[t].user, envelope[t].era, envelope[t].request>>

Parties(j) == {envelope[j[1]].sender, j[2], Destination(j)}

(* A mailbox_delete call that comes late, after the cleanup was finished by
   another call and the address registered again, removes none of the new
   account's mail.                                                           *)
CleanupSparesNewOwner ==
    [][serving # Idle => \A m \in mail \ mail' :
            m.owner \notin users \/ m.incarnation < incarnation[m.owner]]_vars

-----------------------------------------------------------------------------
(* Liveness: once faults stop, clocks advance, storage serves what it has begun
   and no caller waits for its mutex for ever (strong fairness), and the single
   worker keeps working.                                                       *)
Fairness ==
    /\ WF_vars(Scan) /\ WF_vars(Transfer)
    /\ SF_vars(TakeJob) /\ SF_vars(BeginWorkerCall)
    /\ WF_vars(Ask)
    /\ WF_vars(CommitWorkerCall)
    /\ WF_vars(RefuseClient \/ CommitEnqueue \/ CommitRoute \/ CommitForwarding \/ CommitMailboxDelete)
    /\ WF_vars(DueAgain) /\ WF_vars(GrowOld)

FairSpec == Spec /\ Fairness

(* Every queued job is delivered, quarantined or removed with a mailbox: the
   retry age ends even a destination that always fails, and a job that keeps
   failing does not starve those behind it.                                   *)
QueueDrains == \A j \in Jobs : queue[j] = "pending" ~> queue[j] # "pending"
=============================================================================
