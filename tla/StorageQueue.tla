---------------------------- MODULE StorageQueue ----------------------------
(***************************************************************************)
(* The storage service as mail delivery sees it: the durable queue, its    *)
(* pinned routes and delivery status, the two kinds of delivery receipts,  *)
(* the messages it has stored, forwarding rules and mailbox tombstones.    *)
(*                                                                         *)
(* storage handles one request at a time (one mutex, one transaction), but *)
(* asks the auth service whether accounts exist while it holds that mutex. *)
(* Accounts may change between those answers and the commit, so a request  *)
(* runs in steps: Begin takes the mutex, Ask obtains one answer, Commit    *)
(* applies the handler to the answers, Abort rolls it back.                *)
(*                                                                         *)
(* A job is named by its submission and its original recipient.  The       *)
(* queue_routes and queue_context rows of a job are written in the         *)
(* transaction that creates the job, never updated, and deleted with it:   *)
(* they are kept here in the envelope of the submission.                   *)
(***************************************************************************)
EXTENDS Accounts, FiniteSets

CONSTANTS
    Aliases,        \* local addresses that no account owns
    Remotes,        \* addresses of other mail servers
    Submissions,    \* bound: enqueue transactions that commit
    Requests,       \* submission_id values web clients choose
    Senders,        \* envelope senders that are local mailboxes
    Patterns,       \* bound: patterns for which rules are created
    Wild,           \* the pattern * among them
    NoOne           \* no address, no request, no rule

ASSUME StorageAssumption ==
    /\ NoOne \notin Mailboxes \cup Aliases \cup Remotes \cup Requests
    /\ Wild \notin Mailboxes \cup Aliases \cup Remotes \cup {NoOne}
    /\ Remotes \cap (Mailboxes \cup Aliases) = {}
    /\ Mailboxes \cap Aliases = {}
    /\ Senders \subseteq Mailboxes
    /\ Patterns \subseteq Mailboxes \cup Aliases \cup {Wild}

Recipients == Mailboxes \cup Aliases \cup Remotes
LocalAddresses == Mailboxes \cup Aliases
Jobs == Submissions \X Recipients
Envelopes == [sender : Senders \cup {NoOne}, user : Mailboxes \cup {NoOne},
              request : Requests \cup {NoOne}, era : 0..MaxIncarnations,
              routes : [Recipients -> Mailboxes \cup Remotes \cup {NoOne}]]
Letters == [owner : Mailboxes, sub : Submissions, box : {"Inbox", "Sent"},
            incarnation : 0..MaxIncarnations]

VARIABLES
    queue,          \* queue.state of every job, "absent" without a row
    due,            \* pending jobs with next_attempt <= now
    ahead,          \* for a due job, the due jobs with an earlier next_attempt
    status,         \* delivery_status.state, "none" without a row
    envelope,       \* sender, sent_username and routes of each submission; its
                    \* request and the incarnation of its user are history
    receipts,       \* deliveries(username, delivery_id)
    subReceipts,    \* submission_deliveries(username, submission_id)
    requests,       \* submissions(username, request_id)
    mail,           \* messages
    tombstones,     \* deleted_mailboxes
    rules,          \* forwarding_rules: the destination for each pattern
    inserted,       \* history: Inbox insertions for each mailbox and submission
    accepted        \* history: incarnation of a destination when it was queued

queueVars == <<queue, due, ahead, status, envelope>>
mailVars == <<receipts, subReceipts, requests, mail, tombstones, inserted, accepted>>
storageVars == <<queueVars, mailVars, rules>>

Unsent == [sender |-> NoOne, user |-> NoOne, request |-> NoOne, era |-> 0,
           routes |-> [r \in Recipients |-> NoOne]]

StorageTypeOK ==
    /\ queue \in [Jobs -> {"absent", "pending", "quarantined"}]
    /\ due \subseteq Jobs
    /\ ahead \in [Jobs -> SUBSET Jobs]
    /\ status \in [Jobs -> {"none", "queued", "retrying", "delivered", "rejected", "failed"}]
    /\ envelope \in [Submissions -> Envelopes]
    /\ receipts \subseteq Mailboxes \X Jobs
    /\ subReceipts \subseteq Mailboxes \X Submissions
    /\ requests \subseteq Mailboxes \X Requests
    /\ mail \subseteq Letters
    /\ tombstones \subseteq Mailboxes
    /\ rules \in [Patterns -> Mailboxes \cup {NoOne}]
    /\ inserted \in [Mailboxes \X Submissions -> Nat]
    /\ accepted \in [Mailboxes \X Submissions -> 0..MaxIncarnations]

StorageInit ==
    /\ queue = [j \in Jobs |-> "absent"]
    /\ due = {}
    /\ ahead = [j \in Jobs |-> {}]
    /\ status = [j \in Jobs |-> "none"]
    /\ envelope = [s \in Submissions |-> Unsent]
    /\ receipts = {} /\ subReceipts = {} /\ requests = {}
    /\ mail = {} /\ tombstones = {}
    /\ rules = [p \in Patterns |-> NoOne]
    /\ inserted = [d \in Mailboxes \X Submissions |-> 0]
    /\ accepted = [d \in Mailboxes \X Submissions |-> 0]

-----------------------------------------------------------------------------
(* Routing *)

(* queue_routes.destination of a job; a remote recipient is its own. *)
Destination(j) == envelope[j[1]].routes[j[2]]
IsLocal(j) == j[2] \in LocalAddresses

ExactRule(r) == IF r \in Patterns THEN rules[r] ELSE NoOne
WildRule == IF Wild \in Patterns THEN rules[Wild] ELSE NoOne

(* resolve_recipient for a client: an exact rule overrides an account, an
   account overrides a wildcard, and the inbox found is never resolved again. *)
Resolution(r, alive) ==
    LET target == IF ExactRule(r) # NoOne THEN ExactRule(r)
                  ELSE IF r \in alive THEN r ELSE WildRule
    IN  IF target \in alive THEN target ELSE NoOne

(* resolve_recipient for a queued job: the pinned route, while its inbox exists. *)
ResolvesPinned(j, alive) == queue[j] # "absent" /\ Destination(j) \in alive

-----------------------------------------------------------------------------
(* Queue bookkeeping *)

(* record_queue_status: only for a queued job, and only where rows exist. *)
RecordStatus(jobs, state) ==
    [j \in Jobs |-> IF j \in jobs /\ queue[j] # "absent" /\ status[j] # "none"
                    THEN state ELSE status[j]]

NotDue(jobs) ==
    /\ due' = due \ jobs
    /\ ahead' = [j \in Jobs |-> IF j \in jobs THEN {} ELSE ahead[j] \ jobs]

(* next_attempt is reached: the job queues up behind the jobs already due. *)
BecomeDue(jobs) ==
    /\ due' = due \cup jobs
    /\ ahead' = [j \in Jobs |-> IF j \in jobs \ due THEN due ELSE ahead[j]]

(* queue_list with limit 1: ORDER BY next_attempt. *)
FirstDue(j) == j \in due /\ ahead[j] = {}

(* Mutants: a late answer to an earlier attempt touches a quarantined job;
   finishing forgets the delivery status.                                   *)
AnyQueued(j) == queue[j] # "absent"
FinishedUnrecorded(j) == status

(* WHERE id=? AND state='pending' of queue_retry and queue_reject. *)
StillPending(j) == queue[j] = "pending"

FinishedStatus(j) == RecordStatus({j}, "delivered")

(* queue_finish: succeeds whether or not the row is still there. *)
FinishQueue(j) ==
    /\ queue' = [queue EXCEPT ![j] = "absent"]
    /\ status' = FinishedStatus(j)
    /\ NotDue({j})
    /\ UNCHANGED <<envelope, mailVars, rules>>

RetryQueue(j, ok) ==
    /\ ok = StillPending(j)
    /\ IF ok
       THEN /\ status' = RecordStatus({j}, "retrying")
            /\ NotDue({j})
            /\ UNCHANGED <<queue, envelope, mailVars, rules>>
       ELSE UNCHANGED storageVars

RejectQueue(j, state, ok) ==
    /\ ok = StillPending(j)
    /\ IF ok
       THEN /\ queue' = [queue EXCEPT ![j] = "quarantined"]
            /\ status' = RecordStatus({j}, state)
            /\ NotDue({j})
            /\ UNCHANGED <<envelope, mailVars, rules>>
       ELSE UNCHANGED storageVars

-----------------------------------------------------------------------------
(* Delivery into a mailbox *)

(* Mutant: a copy counts as delivered only while the message is kept. *)
StillHeld(u, j) == \E m \in mail : m.owner = u /\ m.sub = j[1] /\ m.box = "Inbox"

(* The receipts of deliver outlive the message. *)
AlreadyReceived(u, j) == <<u, j>> \in receipts \/ <<u, j[1]>> \in subReceipts

(* ensure_mailbox: a tombstone yields only to an account that exists again. *)
MailboxUsable(u, alive) == u \in tombstones => u \in alive

Letter(u, s, box) == [owner |-> u, sub |-> s, box |-> box, incarnation |-> incarnation[u]]

Insert(u, j) ==
    /\ mail' = mail \cup {Letter(u, j[1], "Inbox")}
    /\ inserted' = [inserted EXCEPT ![<<u, j[1]>>] = @ + 1]
    /\ subReceipts' = subReceipts \cup {<<u, j[1]>>}
    /\ tombstones' = tombstones \ {u}

(* deliver: a repeated job only completes its receipts; a full or deleted
   mailbox refuses the message.                                           *)
Deliver(j, alive, ok) ==
    LET u == Destination(j) IN
    \/ /\ ok
       /\ receipts' = receipts \cup {<<u, j>>}
       /\ IF AlreadyReceived(u, j)
          THEN UNCHANGED <<mail, inserted, subReceipts, tombstones>>
          ELSE MailboxUsable(u, alive) /\ Insert(u, j)
       /\ UNCHANGED <<queueVars, requests, accepted, rules>>
    \/ /\ ~ok
       /\ ~AlreadyReceived(u, j)
       /\ UNCHANGED storageVars

-----------------------------------------------------------------------------
(* Accepting mail *)

Addressed(routes) == {r \in Recipients : routes[r] # NoOne}

(* Recipients that resolve to one inbox share one job: that of one of them. *)
Canonical(routes) ==
    {r \in Addressed(routes) :
        r = CHOOSE q \in Addressed(routes) : routes[q] = routes[r]}

Fresh(s) == Addressed(envelope[s].routes) = {}

(* Mutant: enqueue trusts the routes RCPT resolved some time ago. *)
TrustRoutes(routes, alive) == TRUE

(* Every pinned inbox is checked again in the transaction that queues. *)
RoutesAlive(routes, alive) ==
    \A r \in Addressed(routes) : r \in LocalAddresses => routes[r] \in alive

(* Mutant: a client that repeats its submission_id is queued again. *)
NeverRepeated(user, request) == FALSE

Repeated(user, request) == <<user, request>> \in requests

(* enqueue: queue rows, receipts, Sent copy and status rows in one transaction.
   A repeated submission_id reports the first outcome; a dead route, a deleted
   or full mailbox and the queue quota refuse.                               *)
Enqueue(c, s, alive) ==
    LET new == {s} \X Canonical(c.routes)
        local == {c.routes[r] : r \in Addressed(c.routes) \cap LocalAddresses}
    IN
    /\ Fresh(s)
    /\ ~Repeated(c.user, c.request)
    /\ RoutesAlive(c.routes, alive)
    /\ c.user # NoOne => MailboxUsable(c.user, alive)
    /\ queue' = [j \in Jobs |-> IF j \in new THEN "pending" ELSE queue[j]]
    /\ BecomeDue(new)
    /\ status' = [j \in Jobs |-> IF j \in new /\ c.user # NoOne THEN "queued" ELSE status[j]]
    /\ envelope' = [envelope EXCEPT ![s] =
            [sender |-> c.sender, user |-> c.user, request |-> c.request,
             era |-> IF c.user = NoOne THEN 0 ELSE incarnation[c.user], routes |-> c.routes]]
    /\ accepted' = [d \in Mailboxes \X Submissions |->
            IF d[2] = s /\ d[1] \in local THEN incarnation[d[1]] ELSE accepted[d]]
    /\ IF c.user = NoOne THEN UNCHANGED <<mail, tombstones, requests>>
       ELSE /\ mail' = mail \cup {Letter(c.user, s, "Sent")}
            /\ tombstones' = tombstones \ {c.user}
            /\ requests' = requests \cup ({<<c.user, c.request>>} \cap (Mailboxes \X Requests))
    /\ UNCHANGED <<receipts, subReceipts, inserted, rules>>

-----------------------------------------------------------------------------
(* Rules and cleanup *)

(* Mutant: the destination of a new rule is not checked. *)
AnyDestination(u, alive) == TRUE

IsMailbox(u, alive) == u \in alive

ForwardingCreate(pattern, u, alive) ==
    /\ IsMailbox(u, alive)
    /\ pattern # u
    /\ rules[pattern] = NoOne
    /\ rules' = [rules EXCEPT ![pattern] = u]
    /\ UNCHANGED <<queueVars, mailVars>>

ForwardingDelete(pattern) ==
    /\ rules[pattern] # NoOne
    /\ rules' = [rules EXCEPT ![pattern] = NoOne]
    /\ UNCHANGED <<queueVars, mailVars>>

Targets(j, u) == queue[j] # "absent" /\ u \in {j[2], Destination(j)}

(* Mutant: mailbox_delete leaves no receipts for the jobs it removes. *)
NoReceipts(u) == {}

(* The receipts that stop a worker holding an old snapshot of these jobs. *)
CleanupReceipts(u) == {u} \X {j \in Jobs : Targets(j, u)}

(* Mutant: jobs forwarded to the mailbox are overlooked. *)
AddressedTo(u) == {j \in Jobs : queue[j] # "absent" /\ j[2] = u}

(* The queued mail from, to, or forwarded to the mailbox. *)
JobsInvolving(u) ==
    {j \in Jobs : Targets(j, u) \/ (queue[j] # "absent" /\ envelope[j[1]].sender = u)}

(* Mutant: mailbox_delete does not ask whether the account is back. *)
AlwaysPurge(u, alive) == TRUE

MayPurge(u, alive) == u \notin alive

(* mailbox_delete, refused while the account exists. *)
MailboxDelete(u, alive) ==
    LET gone == JobsInvolving(u)
        failed == RecordStatus(gone, "failed")
    IN
    /\ MayPurge(u, alive)
    /\ tombstones' = tombstones \cup {u}
    /\ receipts' = receipts \cup CleanupReceipts(u)
    /\ queue' = [j \in Jobs |-> IF j \in gone THEN "absent" ELSE queue[j]]
    /\ NotDue(gone)
    /\ status' = [j \in Jobs |-> IF envelope[j[1]].user = u THEN "none" ELSE failed[j]]
    /\ mail' = {m \in mail : m.owner # u}
    /\ requests' = {q \in requests : q[1] # u}
    /\ rules' = [p \in Patterns |-> IF rules[p] = u THEN NoOne ELSE rules[p]]
    /\ UNCHANGED <<envelope, subReceipts, inserted, accepted>>

(* The permanent removal of a message by its owner; receipts stay. *)
DeleteMail(m) ==
    /\ mail' = mail \ {m}
    /\ UNCHANGED <<queueVars, receipts, subReceipts, requests, tombstones, inserted, accepted, rules>>
=============================================================================
