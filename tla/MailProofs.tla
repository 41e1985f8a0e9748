----------------------------- MODULE MailProofs -----------------------------
(***************************************************************************)
(* Proofs about MailDelivery: type correctness, at most one copy of a      *)
(* submission per mailbox, and owners for all routes and rules.            *)
(***************************************************************************)
EXTENDS MailInductive, TLAPS

USE IncarnationAssumption, StorageAssumption, DeliveryAssumption

-----------------------------------------------------------------------------
(* Type lemmas of the storage handlers. *)

(* A pinned route or NoOne is all Destination can be. *)
LEMMA DestinationType ==
    ASSUME StorageTypeOK, NEW j \in Jobs
    PROVE  Destination(j) \in Mailboxes \cup Remotes \cup {NoOne}
BY DEF StorageTypeOK, Destination, Jobs, Envelopes

(* Recording an outcome keeps the status of every job a status. *)
LEMMA RecordStatusType ==
    ASSUME StorageTypeOK, NEW S, NEW state \in {"queued", "retrying", "delivered", "rejected", "failed"}
    PROVE  RecordStatus(S, state) \in [Jobs -> {"none", "queued", "retrying", "delivered", "rejected", "failed"}]
BY DEF StorageTypeOK, RecordStatus

(* Taking jobs off, or putting them on, the list of due jobs keeps its type. *)
LEMMA DueType ==
    ASSUME StorageTypeOK, NEW S \in SUBSET Jobs, NotDue(S) \/ BecomeDue(S)
    PROVE  due' \subseteq Jobs /\ ahead' \in [Jobs -> SUBSET Jobs]
<1>1. CASE NotDue(S) BY <1>1 DEF StorageTypeOK, NotDue
<1>2. CASE BecomeDue(S) BY <1>2 DEF StorageTypeOK, BecomeDue
<1> QED BY <1>1, <1>2

(* finish, retry and reject keep the types of storage. *)
LEMMA QueueOpsType ==
    ASSUME StorageTypeOK, NEW j \in Jobs, NEW ok \in BOOLEAN, NEW state \in {"rejected", "failed"},
           FinishQueue(j) \/ RetryQueue(j, ok) \/ RejectQueue(j, state, ok)
    PROVE  StorageTypeOK'
<1>1. CASE UNCHANGED storageVars
    BY <1>1 DEF StorageTypeOK, storageVars, queueVars, mailVars
<1>2. CASE FinishQueue(j) \/ (RetryQueue(j, ok) /\ ok) \/ (RejectQueue(j, state, ok) /\ ok)
    <2>1. NotDue({j}) /\ UNCHANGED <<envelope, mailVars, rules>>
        BY <1>2 DEF FinishQueue, RetryQueue, RejectQueue
    <2>2. due' \subseteq Jobs /\ ahead' \in [Jobs -> SUBSET Jobs]
        BY <2>1, DueType, {j} \in SUBSET Jobs
    <2>3. status' \in [Jobs -> {"none", "queued", "retrying", "delivered", "rejected", "failed"}]
        BY <1>2, RecordStatusType DEF FinishQueue, FinishedStatus, RetryQueue, RejectQueue
    <2>4. queue' \in [Jobs -> {"absent", "pending", "quarantined"}]
        BY <1>2 DEF FinishQueue, RetryQueue, RejectQueue, StorageTypeOK
    <2> QED BY <2>1, <2>2, <2>3, <2>4 DEF StorageTypeOK, mailVars
<1> QED BY <1>1, <1>2 DEF RetryQueue, RejectQueue

(* deliver keeps the types of storage when the job is pinned to a mailbox. *)
LEMMA DeliverType ==
    ASSUME StorageTypeOK, AccountsTypeOK, NEW j \in Jobs, NEW ok \in BOOLEAN, NEW alive,
           Destination(j) \in Mailboxes, Deliver(j, alive, ok)
    PROVE  StorageTypeOK'
<1>1. j[1] \in Submissions BY DEF Jobs
<1>2. Letter(Destination(j), j[1], "Inbox") \in Letters
    BY <1>1 DEF Letter, Letters, AccountsTypeOK
<1>3. CASE ~ok BY <1>3 DEF Deliver, StorageTypeOK, storageVars, queueVars, mailVars
<1>4. CASE ok
    <2>1. CASE AlreadyReceived(Destination(j), j)
        BY <1>1, <1>4, <2>1 DEF Deliver, StorageTypeOK, queueVars
    <2>2. CASE ~AlreadyReceived(Destination(j), j)
        <3>1. Insert(Destination(j), j) /\ receipts' = receipts \cup {<<Destination(j), j>>}
            BY <1>4, <2>2 DEF Deliver
        <3>2. UNCHANGED <<queueVars, requests, accepted, rules>>
            BY <1>4, <2>2 DEF Deliver
        <3>3. mail' \subseteq Letters /\ tombstones' \subseteq Mailboxes
            BY <1>2, <3>1 DEF Insert, StorageTypeOK
        <3>4. inserted' \in [Mailboxes \X Submissions -> Nat]
            BY <1>1, <3>1 DEF Insert, StorageTypeOK
        <3>5. subReceipts' \subseteq Mailboxes \X Submissions /\ receipts' \subseteq Mailboxes \X Jobs
            BY <1>1, <3>1 DEF Insert, StorageTypeOK
        <3> QED BY <3>2, <3>3, <3>4, <3>5 DEF StorageTypeOK, queueVars
    <2> QED BY <2>1, <2>2
<1> QED BY <1>3, <1>4

(* mailbox_delete keeps the types of storage. *)
LEMMA MailboxDeleteType ==
    ASSUME StorageTypeOK, NEW u \in Mailboxes, NEW alive, MailboxDelete(u, alive)
    PROVE  StorageTypeOK'
<1> DEFINE gone == JobsInvolving(u)
<1>1. gone \subseteq Jobs BY DEF JobsInvolving
<1>2. RecordStatus(gone, "failed") \in [Jobs -> {"none", "queued", "retrying", "delivered", "rejected", "failed"}]
    BY RecordStatusType
<1>3. due' \subseteq Jobs /\ ahead' \in [Jobs -> SUBSET Jobs]
    BY <1>1, DueType DEF MailboxDelete
<1>4. CleanupReceipts(u) \subseteq Mailboxes \X Jobs BY DEF CleanupReceipts
<1> QED BY <1>2, <1>3, <1>4 DEF MailboxDelete, StorageTypeOK

(* A request to queue mail is well formed. *)
EnqueueCall(c) ==
    /\ c.sender \in Senders \cup {NoOne} /\ c.user \in Mailboxes \cup {NoOne}
    /\ c.request \in Requests \cup {NoOne}
    /\ c.routes \in [Recipients -> Mailboxes \cup Remotes \cup {NoOne}]

(* enqueue keeps the types of storage. *)
LEMMA EnqueueType ==
    ASSUME StorageTypeOK, AccountsTypeOK, NEW s \in Submissions, NEW c, EnqueueCall(c),
           NEW alive, Enqueue(c, s, alive)
    PROVE  StorageTypeOK'
<1> DEFINE new == {s} \X Canonical(c.routes)
           local == {c.routes[r] : r \in Addressed(c.routes) \cap LocalAddresses}
<1>1. new \in SUBSET Jobs BY DEF Canonical, Addressed, Jobs
<1>2. due' \subseteq Jobs /\ ahead' \in [Jobs -> SUBSET Jobs]
    BY <1>1, DueType DEF Enqueue
<1>3. queue' \in [Jobs -> {"absent", "pending", "quarantined"}]
    BY DEF Enqueue, StorageTypeOK
<1>4. status' \in [Jobs -> {"none", "queued", "retrying", "delivered", "rejected", "failed"}]
    BY DEF Enqueue, StorageTypeOK
<1>5. envelope' \in [Submissions -> Envelopes]
    BY DEF Enqueue, StorageTypeOK, EnqueueCall, Envelopes, AccountsTypeOK
<1>6. accepted' \in [Mailboxes \X Submissions -> 0..MaxIncarnations]
    BY DEF Enqueue, StorageTypeOK, AccountsTypeOK
<1>7. mail' \subseteq Letters /\ tombstones' \subseteq Mailboxes /\ requests' \subseteq Mailboxes \X Requests
    <2>1. CASE c.user = NoOne BY <2>1 DEF Enqueue, StorageTypeOK
    <2>2. CASE c.user # NoOne
        <3>1. Letter(c.user, s, "Sent") \in Letters
            BY <2>2 DEF Letter, Letters, AccountsTypeOK, EnqueueCall
        <3> QED BY <2>2, <3>1 DEF Enqueue, StorageTypeOK
    <2> QED BY <2>1, <2>2
<1>8. UNCHANGED <<receipts, subReceipts, inserted, rules>> BY DEF Enqueue
<1> QED BY <1>2, <1>3, <1>4, <1>5, <1>6, <1>7, <1>8 DEF StorageTypeOK

-----------------------------------------------------------------------------
(* TypeInv is inductive. *)

(* The initial state has the types. *)
LEMMA InitType == Init => TypeInv
<1> SUFFICES ASSUME Init PROVE TypeInv OBVIOUS
<1>1. AccountsTypeOK BY DEF Init, AccountsInit, AccountsTypeOK
<1>2. StorageTypeOK
    <2>1. Unsent \in Envelopes BY DEF Unsent, Envelopes
    <2> QED BY <2>1 DEF Init, StorageInit, StorageTypeOK
<1>3. DeliveryTypeOK BY DEF Init, DeliveryTypeOK
<1> QED BY <1>1, <1>2, <1>3 DEF TypeInv, TypeOK, WorkerIsServed, DeliverHasInbox, Init

(* Steps that only take or give up a request, or move the worker, leave the
   stored data alone.                                                       *)
LEMMA StillTyped ==
    ASSUME TypeInv, UNCHANGED <<accountVars, storageVars>>
    PROVE  /\ AccountsTypeOK' /\ StorageTypeOK'
           /\ \A j : Destination(j)' = Destination(j)
BY DEF TypeInv, TypeOK, AccountsTypeOK, StorageTypeOK, accountVars, storageVars, queueVars,
       mailVars, Destination

(* The steps of the worker that call no storage handler. *)
LEMMA WorkerType ==
    ASSUME TypeInv, TakeJob \/ Scan \/ Transfer \/ Timeout
    PROVE  TypeInv'
<1>1. CASE TakeJob
    BY <1>1, StillTyped DEF TakeJob, TypeInv, TypeOK, DeliveryTypeOK, WorkerIsServed,
       DeliverHasInbox, CallOps, clientVars, StorageTypeOK
<1>2. CASE Scan
    BY <1>2, StillTyped DEF Scan, MoveTo, TypeInv, TypeOK, DeliveryTypeOK, WorkerIsServed,
       DeliverHasInbox, CallOps, clientVars
<1>3. CASE Transfer
    BY <1>3, StillTyped DEF Transfer, MoveTo, TypeInv, TypeOK, DeliveryTypeOK, WorkerIsServed,
       DeliverHasInbox, CallOps, clientVars
<1>4. CASE Timeout
    <2>1. AccountsTypeOK' /\ StorageTypeOK' /\ \A j : Destination(j)' = Destination(j)
        BY <1>4, StillTyped DEF Timeout
    <2>2. job \in Jobs /\ [op |-> pc, job |-> job] \in WorkerCalls
        BY <1>4 DEF Timeout, TypeInv, TypeOK, DeliveryTypeOK, CallOps, WorkerCalls
    <2>3. pc' \in {"list", "retry"} /\ job' \in Jobs \cup {NoJob} /\ (job' = NoJob <=> pc' = "list")
        BY <1>4, <2>2 DEF Timeout, MoveTo, AfterFailure
    <2>4. faults' \in 0..MaxFaults
        BY <1>4 DEF Timeout, Fault, TypeInv, TypeOK, DeliveryTypeOK
    <2>5. CASE serving # Idle /\ serving.answer = "worker"
        <3>1. serving \in Services BY <2>5 DEF TypeInv, TypeOK, DeliveryTypeOK
        <3>2. serving' = [serving EXCEPT !.answer = "nobody"] /\ late' = late
            BY <1>4, <2>5 DEF Timeout
        <3>3. serving' \in Services /\ serving'.call = serving.call /\ serving'.answer = "nobody"
            BY <3>1, <3>2 DEF Services
        <3> QED BY <1>4, <2>1, <2>3, <2>4, <2>5, <3>2, <3>3 DEF Timeout, TypeInv, TypeOK,
                DeliveryTypeOK, WorkerIsServed, DeliverHasInbox, clientVars, CallOps
    <2>6. CASE ~(serving # Idle /\ serving.answer = "worker")
        <3>1. late' = late \cup {[op |-> pc, job |-> job]} /\ serving' = serving
            BY <1>4, <2>6 DEF Timeout
        <3> QED BY <1>4, <2>1, <2>2, <2>3, <2>4, <2>6, <3>1 DEF Timeout, TypeInv, TypeOK,
                DeliveryTypeOK, WorkerIsServed, DeliverHasInbox, clientVars, CallOps
    <2> QED BY <2>5, <2>6
<1> QED BY <1>1, <1>2, <1>3, <1>4

(* Taking a request keeps the types when the request is a well-formed one. *)
LEMMA BeginType ==
    ASSUME TypeInv,
           UNCHANGED <<accountVars, storageVars, workerVars, clientVars, expired, transferred, faults>>,
           late' \subseteq late,
           NEW call \in WorkerCalls \cup ClientCalls,
           NEW answer \in {"worker", "client", "nobody"},
           Begin(call, answer),
           answer = "worker" => pc \in CallOps /\ call = [op |-> pc, job |-> job],
           call.op = "deliver" => Destination(call.job) \in Mailboxes
    PROVE  TypeInv'
<1>1. AccountsTypeOK' /\ StorageTypeOK' /\ \A j : Destination(j)' = Destination(j)
    BY StillTyped
<1>2. serving' \in Services /\ serving'.call = call /\ serving'.answer = answer
    BY DEF Begin, Services
<1>3. DeliveryTypeOK'
    BY <1>2 DEF TypeInv, TypeOK, DeliveryTypeOK, workerVars, clientVars
<1>4. WorkerIsServed' BY <1>2 DEF WorkerIsServed, workerVars, CallOps
<1>5. DeliverHasInbox' BY <1>1, <1>2 DEF TypeInv, DeliverHasInbox, workerVars
<1> QED BY <1>1, <1>3, <1>4, <1>5 DEF TypeInv, TypeOK

(* Requests of the worker, of a caller that gave up, and of clients. *)
LEMMA BeginsType ==
    ASSUME TypeInv,
           BeginWorkerCall \/ BeginLateCall \/ Submit \/ AskRoute \/ AskForwarding \/ AskMailboxDelete
    PROVE  TypeInv'
<1>1. CASE BeginWorkerCall
    <2>1. [op |-> pc, job |-> job] \in WorkerCalls
        BY <1>1 DEF BeginWorkerCall, TypeInv, TypeOK, DeliveryTypeOK, CallOps, WorkerCalls
    <2> QED BY <1>1, <2>1, BeginType DEF BeginWorkerCall, TypeInv, DeliverHasInbox
<1>2. CASE BeginLateCall
    <2>1. PICK c \in late : Begin(c, "nobody") /\ late' = late \ {c}
        BY <1>2 DEF BeginLateCall
    <2>2. c \in WorkerCalls /\ (c.op = "deliver" => Destination(c.job) \in Mailboxes)
        BY DEF TypeInv, TypeOK, DeliveryTypeOK, DeliverHasInbox
    <2> QED BY <1>2, <2>1, <2>2, BeginType DEF BeginLateCall
<1>3. CASE Submit
    <2>1. PICK sender \in Senders \cup {NoOne}, user \in Mailboxes \cup {NoOne} :
          \E request \in IF user = NoOne THEN {NoOne} ELSE Requests \cup {NoOne} :
          \E routes \in Routings(user) :
            Begin([op |-> "enqueue", sender |-> sender, user |-> user,
                   request |-> request, routes |-> routes], "client")
        BY <1>3 DEF Submit
    <2>2. PICK request \in Requests \cup {NoOne}, routes \in Routings(user) :
            Begin([op |-> "enqueue", sender |-> sender, user |-> user,
                   request |-> request, routes |-> routes], "client")
        BY <2>1
    <2>3. [op |-> "enqueue", sender |-> sender, user |-> user,
           request |-> request, routes |-> routes] \in ClientCalls
        BY DEF ClientCalls, Routings
    <2> QED BY <1>3, <2>2, <2>3, BeginType DEF Submit
<1>4. CASE AskRoute
    <2>1. PICK r \in LocalAddresses : Begin([op |-> "route", recipient |-> r], "client")
        BY <1>4 DEF AskRoute
    <2>2. [op |-> "route", recipient |-> r] \in ClientCalls BY DEF ClientCalls
    <2> QED BY <1>4, <2>1, <2>2, BeginType DEF AskRoute
<1>5. CASE AskForwarding
    <2>1. PICK p \in Patterns, u \in Mailboxes :
            Begin([op |-> "forward", pattern |-> p, destination |-> u], "client")
        BY <1>5 DEF AskForwarding
    <2>2. [op |-> "forward", pattern |-> p, destination |-> u] \in ClientCalls BY DEF ClientCalls
    <2> QED BY <1>5, <2>1, <2>2, BeginType DEF AskForwarding
<1>6. CASE AskMailboxDelete
    <2>1. PICK u \in Mailboxes, n \in 1..MaxIncarnations :
            Begin([op |-> "mailboxDelete", owner |-> u, cleanup |-> n], "client")
        BY <1>6 DEF AskMailboxDelete
    <2>2. [op |-> "mailboxDelete", owner |-> u, cleanup |-> n] \in ClientCalls BY DEF ClientCalls
    <2> QED BY <1>6, <2>1, <2>2, BeginType DEF AskMailboxDelete
<1> QED BY <1>1, <1>2, <1>3, <1>4, <1>5, <1>6

(* What is known of the request storage executes. *)
LEMMA ServedCall ==
    ASSUME TypeInv, serving # Idle
    PROVE  /\ serving \in Services
           /\ serving.call.op \in CallOps => serving.call \in WorkerCalls
           /\ serving.call.op = "enqueue" => EnqueueCall(serving.call)
           /\ serving.call.op = "route" => serving.call.recipient \in LocalAddresses
           /\ serving.call.op = "forward"
              => serving.call.pattern \in Patterns /\ serving.call.destination \in Mailboxes
           /\ serving.call.op = "mailboxDelete"
              => serving.call.owner \in Mailboxes /\ serving.call.cleanup \in 1..MaxIncarnations
<1>1. serving \in Services /\ serving.call \in WorkerCalls \cup ClientCalls
    BY DEF TypeInv, TypeOK, DeliveryTypeOK, Services
<1> QED BY <1>1 DEF WorkerCalls, ClientCalls, CallOps, EnqueueCall

(* One answer of the auth service. *)
LEMMA AskType == ASSUME TypeInv, Ask PROVE TypeInv'
<1>1. AccountsTypeOK' /\ StorageTypeOK' /\ \A j : Destination(j)' = Destination(j)
    BY StillTyped DEF Ask
<1>2. PICK u \in Asks(serving.call) :
        serving' = [serving EXCEPT !.asked = @ \cup {u}, !.alive = @ \cup ({u} \cap users)]
    BY DEF Ask
<1>3. serving \in Services BY ServedCall DEF Ask
<1>4. u \in Recipients \cup {NoOne}
    <2>1. CASE serving.call.op \in {"resolve", "deliver"}
        <3>1. serving.call.job \in Jobs BY <2>1, ServedCall DEF Ask, CallOps, WorkerCalls
        <3>2. u = Destination(serving.call.job) BY <1>2, <2>1 DEF Asks
        <3> QED BY <3>1, <3>2, DestinationType DEF TypeInv, TypeOK, Recipients
    <2>2. CASE serving.call.op = "enqueue"
        BY <1>2, <2>2, ServedCall DEF Ask, Asks, EnqueueCall, Addressed, Recipients
    <2>3. CASE serving.call.op \notin {"resolve", "deliver", "enqueue"}
        BY <1>2, <2>3, ServedCall DEF Ask, Asks, Recipients
    <2> QED BY <2>1, <2>2, <2>3
<1>5. /\ serving' \in Services /\ serving'.call = serving.call
      /\ serving'.answer = serving.answer
    BY <1>2, <1>3, <1>4 DEF Services, TypeInv, TypeOK, AccountsTypeOK
<1>6. serving # Idle BY DEF Ask
<1>7. DeliveryTypeOK'
    BY <1>5 DEF Ask, TypeInv, TypeOK, DeliveryTypeOK, workerVars, clientVars
<1>8. WorkerIsServed' /\ DeliverHasInbox'
    BY <1>1, <1>5, <1>6 DEF Ask, TypeInv, WorkerIsServed, DeliverHasInbox, workerVars
<1> QED BY <1>1, <1>7, <1>8 DEF TypeInv, TypeOK

(* Storage becomes free, the worker has not moved: all that is left to show is
   that storage keeps its types and no deliver request loses its inbox.        *)
LEMMA FreeType ==
    ASSUME TypeInv, AccountsTypeOK', StorageTypeOK', serving' = Idle,
           UNCHANGED <<workerVars, late, expired, transferred>>, faults' \in 0..MaxFaults,
           handed' \subseteq LocalAddresses \X Mailboxes,
           purged' \subseteq Mailboxes \X (1..MaxIncarnations),
           \A j \in Jobs : Destination(j) \in Mailboxes => Destination(j)' \in Mailboxes
    PROVE  TypeInv'
<1>1. DeliveryTypeOK' BY DEF TypeInv, TypeOK, DeliveryTypeOK, workerVars
<1>2. WorkerIsServed' BY DEF WorkerIsServed
<1>3. DeliverHasInbox'
    <2>1. pc = "deliver" => job \in Jobs BY DEF TypeInv, TypeOK, DeliveryTypeOK
    <2>2. \A c \in late : c.job \in Jobs
        BY DEF TypeInv, TypeOK, DeliveryTypeOK, WorkerCalls
    <2> QED BY <2>1, <2>2 DEF TypeInv, DeliverHasInbox, workerVars
<1> QED BY <1>1, <1>2, <1>3 DEF TypeInv, TypeOK

(* An answer moves the worker to a step it has, with its job. *)
LEMMA AnswerType ==
    ASSUME TypeInv, NEW ok \in BOOLEAN, serving # Idle, serving.answer = "worker",
           Answer(serving.call.op, ok)
    PROVE  /\ pc' \in {"list", "deliver", "finish", "retry"}
           /\ job' \in Jobs \cup {NoJob} /\ (job' = NoJob <=> pc' = "list")
           /\ pc' = "deliver" => ok /\ serving.call.op = "resolve" /\ job' = serving.call.job
<1>1. pc \in CallOps /\ serving.call = [op |-> pc, job |-> job] /\ job \in Jobs
    BY DEF TypeInv, TypeOK, WorkerIsServed, DeliveryTypeOK, CallOps
<1>2. serving.call.op = pc /\ serving.call.job = job BY <1>1
<1> QED BY <1>1, <1>2 DEF Answer, MoveTo, AfterSuccess, AfterFailure, CallOps

(* Storage becomes free and answers the worker. *)
LEMMA AnsweredType ==
    ASSUME TypeInv, AccountsTypeOK', StorageTypeOK', serving # Idle, serving' = Idle,
           NEW ok \in BOOLEAN,
           IF serving.answer = "worker" THEN Answer(serving.call.op, ok) ELSE UNCHANGED workerVars,
           UNCHANGED <<late, clientVars, expired, transferred>>, faults' \in 0..MaxFaults,
           \A j \in Jobs : Destination(j)' = Destination(j),
           ok /\ serving.call.op = "resolve" => Destination(serving.call.job) \in Mailboxes
    PROVE  TypeInv'
<1>1. CASE serving.answer # "worker"
    BY <1>1, FreeType DEF TypeInv, TypeOK, DeliveryTypeOK, clientVars
<1>2. CASE serving.answer = "worker"
    <2>1. /\ pc' \in {"list", "deliver", "finish", "retry"}
          /\ job' \in Jobs \cup {NoJob} /\ (job' = NoJob <=> pc' = "list")
          /\ pc' = "deliver" => ok /\ serving.call.op = "resolve" /\ job' = serving.call.job
        BY <1>2, AnswerType
    <2>2. DeliveryTypeOK'
        BY <2>1 DEF TypeInv, TypeOK, DeliveryTypeOK, clientVars, CallOps
    <2>3. WorkerIsServed' BY DEF WorkerIsServed
    <2>4. DeliverHasInbox'
        <3>1. \A c \in late : c.job \in Jobs
            BY DEF TypeInv, TypeOK, DeliveryTypeOK, WorkerCalls
        <3> QED BY <2>1, <3>1 DEF TypeInv, DeliverHasInbox
    <2> QED BY <2>2, <2>3, <2>4 DEF TypeInv, TypeOK
<1> QED BY <1>1, <1>2

(* The commit of a request of the worker. *)
LEMMA CommitWorkerType == ASSUME TypeInv, CommitWorkerCall PROVE TypeInv'
<1>1. PICK ok \in BOOLEAN :
        /\ CASE serving.call.op = "resolve" -> ok = ResolvesPinned(serving.call.job, serving.alive) /\ UNCHANGED storageVars
             [] serving.call.op = "deliver" -> Deliver(serving.call.job, serving.alive, ok)
             [] serving.call.op = "finish" -> ok /\ FinishQueue(serving.call.job)
             [] serving.call.op = "reject" -> RejectQueue(serving.call.job, "rejected", ok)
             [] serving.call.op = "expire" -> RejectQueue(serving.call.job, "failed", ok)
             [] serving.call.op = "retry" -> RetryQueue(serving.call.job, ok)
        /\ IF serving.answer = "worker" THEN Answer(serving.call.op, ok) ELSE UNCHANGED workerVars
    BY DEF CommitWorkerCall
<1>2. serving # Idle /\ serving.call.op \in CallOps BY DEF CommitWorkerCall, Answered
<1>3. serving \in Services /\ serving.call \in WorkerCalls BY <1>2, ServedCall
<1>4. serving.call.job \in Jobs /\ serving.alive \subseteq Mailboxes
    BY <1>3 DEF WorkerCalls, Services
<1>5. StorageTypeOK' /\ envelope' = envelope
    <2>1. CASE serving.call.op = "resolve"
        BY <1>1, <2>1 DEF TypeInv, TypeOK, StorageTypeOK, storageVars, queueVars, mailVars
    <2>2. CASE serving.call.op = "deliver"
        <3>1. Deliver(serving.call.job, serving.alive, ok) BY <1>1, <2>2
        <3>2. Destination(serving.call.job) \in Mailboxes BY <1>2, <2>2 DEF TypeInv, DeliverHasInbox
        <3>3. StorageTypeOK' BY <1>4, <3>1, <3>2, DeliverType DEF TypeInv, TypeOK
        <3>4. envelope' = envelope BY <3>1 DEF Deliver, storageVars, queueVars
        <3> QED BY <3>3, <3>4
    <2>3. CASE serving.call.op \in {"finish", "reject", "expire", "retry"}
        <3>1. PICK state \in {"rejected", "failed"} :
                \/ FinishQueue(serving.call.job) \/ RetryQueue(serving.call.job, ok)
                \/ RejectQueue(serving.call.job, state, ok)
            BY <1>1, <2>3
        <3>2. StorageTypeOK' BY <1>4, <3>1, QueueOpsType DEF TypeInv, TypeOK
        <3>3. envelope' = envelope
            BY <3>1 DEF FinishQueue, RetryQueue, RejectQueue, storageVars, queueVars
        <3> QED BY <3>2, <3>3
    <2> QED BY <1>2, <2>1, <2>2, <2>3 DEF CallOps
<1>6. ok /\ serving.call.op = "resolve" => Destination(serving.call.job) \in Mailboxes
    BY <1>1, <1>4 DEF ResolvesPinned
<1>7. AccountsTypeOK' BY DEF CommitWorkerCall, TypeInv, TypeOK, AccountsTypeOK, accountVars
<1>8. \A j \in Jobs : Destination(j)' = Destination(j) BY <1>5 DEF Destination
<1>9. faults' \in 0..MaxFaults BY DEF CommitWorkerCall, TypeInv, TypeOK, DeliveryTypeOK
<1> HIDE DEF AccountsTypeOK
<1> QED BY <1>1, <1>2, <1>5, <1>6, <1>7, <1>8, <1>9, AnsweredType DEF CommitWorkerCall

(* The commits of requests of clients. *)
LEMMA CommitClientType ==
    ASSUME TypeInv, CommitEnqueue \/ CommitRoute \/ CommitForwarding \/ CommitMailboxDelete
    PROVE  TypeInv'
<1>1. serving # Idle BY DEF CommitEnqueue, CommitRoute, CommitForwarding, CommitMailboxDelete, Answered
<1>2. AccountsTypeOK' /\ faults' \in 0..MaxFaults
    BY DEF CommitEnqueue, CommitRoute, CommitForwarding, CommitMailboxDelete, TypeInv, TypeOK,
       AccountsTypeOK, DeliveryTypeOK, accountVars
<1>3. CASE CommitEnqueue
    <2>1. PICK s \in Submissions : Enqueue(serving.call, s, serving.alive) BY <1>3 DEF CommitEnqueue
    <2>2. StorageTypeOK'
        BY <1>1, <1>3, <2>1, ServedCall, EnqueueType DEF CommitEnqueue, TypeInv, TypeOK
    <2>3. \A j \in Jobs : Destination(j) \in Mailboxes => Destination(j)' \in Mailboxes
        <3>1. SUFFICES ASSUME NEW j \in Jobs, Destination(j) \in Mailboxes
                       PROVE  Destination(j)' = Destination(j)
            OBVIOUS
        <3>2. j[2] \in Addressed(envelope[j[1]].routes)
            BY <3>1 DEF Jobs, Addressed, Destination
        <3>3. j[1] # s BY <2>1, <3>2 DEF Enqueue, Fresh
        <3> QED BY <2>1, <3>3 DEF Enqueue, Destination, Jobs, TypeInv, TypeOK, StorageTypeOK
    <2> QED BY <1>2, <1>3, <2>2, <2>3, FreeType
            DEF CommitEnqueue, TypeInv, TypeOK, DeliveryTypeOK, clientVars
<1>4. CASE CommitRoute
    <2>1. AccountsTypeOK' /\ StorageTypeOK' /\ \A j : Destination(j)' = Destination(j)
        BY <1>4, StillTyped DEF CommitRoute
    <2>2. handed' \subseteq LocalAddresses \X Mailboxes
        BY <1>4 DEF CommitRoute, TypeInv, TypeOK, DeliveryTypeOK
    <2> QED BY <1>2, <1>4, <2>1, <2>2, FreeType
            DEF CommitRoute, TypeInv, TypeOK, DeliveryTypeOK
<1>5. CASE CommitForwarding
    <2>1. StorageTypeOK' /\ envelope' = envelope
        BY <1>1, <1>5, ServedCall DEF CommitForwarding, ForwardingCreate, TypeInv, TypeOK,
           StorageTypeOK, queueVars, mailVars
    <2>2. \A j \in Jobs : Destination(j)' = Destination(j) BY <2>1 DEF Destination
    <2> QED BY <1>2, <1>5, <2>1, <2>2, FreeType
            DEF CommitForwarding, TypeInv, TypeOK, DeliveryTypeOK, clientVars
<1>6. CASE CommitMailboxDelete
    <2>1. MailboxDelete(serving.call.owner, serving.alive) BY <1>6 DEF CommitMailboxDelete
    <2>2. serving.call.owner \in Mailboxes /\ serving.call.cleanup \in 1..MaxIncarnations
        BY <1>1, <1>6, ServedCall DEF CommitMailboxDelete
    <2>3. StorageTypeOK' BY <2>1, <2>2, MailboxDeleteType DEF TypeInv, TypeOK
    <2>4. \A j \in Jobs : Destination(j)' = Destination(j)
        BY <2>1 DEF MailboxDelete, Destination
    <2>5. purged' \subseteq Mailboxes \X (1..MaxIncarnations)
        BY <1>6, <2>2 DEF CommitMailboxDelete, TypeInv, TypeOK, DeliveryTypeOK
    <2> QED BY <1>2, <1>6, <2>3, <2>4, <2>5, FreeType
            DEF CommitMailboxDelete, TypeInv, TypeOK, DeliveryTypeOK
<1> QED BY <1>3, <1>4, <1>5, <1>6

(* A request that ends without effect. *)
LEMMA EndType == ASSUME TypeInv, RefuseClient \/ Abort PROVE TypeInv'
<1>1. AccountsTypeOK' /\ StorageTypeOK' /\ \A j : Destination(j)' = Destination(j)
    BY StillTyped DEF RefuseClient, Abort
<1>2. faults' \in 0..MaxFaults
    <2>1. CASE RefuseClient BY <2>1 DEF RefuseClient, TypeInv, TypeOK, DeliveryTypeOK
    <2>2. CASE Abort BY <2>2 DEF Abort, Fault, TypeInv, TypeOK, DeliveryTypeOK
    <2> QED BY <2>1, <2>2
<1>3. CASE RefuseClient
    BY <1>1, <1>2, <1>3, FreeType DEF RefuseClient, TypeInv, TypeOK, DeliveryTypeOK, clientVars
<1>4. CASE Abort BY <1>1, <1>2, <1>4, AnsweredType, FALSE \in BOOLEAN DEF Abort
<1> QED BY <1>3, <1>4

(* Steps after which worker, requests and envelopes are as before. *)
LEMMA AsideType ==
    ASSUME TypeInv, AccountsTypeOK', StorageTypeOK', envelope' = envelope,
           UNCHANGED <<workerVars, serving, late, clientVars, transferred, faults>>,
           expired' \subseteq Jobs
    PROVE  TypeInv'
<1>1. \A j : Destination(j)' = Destination(j) BY DEF Destination
<1>2. DeliveryTypeOK' BY DEF TypeInv, TypeOK, DeliveryTypeOK, workerVars, clientVars
<1> QED BY <1>1, <1>2 DEF TypeInv, TypeOK, WorkerIsServed, DeliverHasInbox, workerVars

(* Accounts, rules, readers and time. *)
LEMMA OthersType ==
    ASSUME TypeInv, AccountStep \/ RemoveRule \/ DiscardMail \/ DueAgain \/ GrowOld
    PROVE  TypeInv'
<1>1. CASE AccountStep
    <2>1. StorageTypeOK' /\ envelope' = envelope
        BY <1>1 DEF AccountStep, TypeInv, TypeOK, StorageTypeOK, storageVars, queueVars, mailVars
    <2>2. AccountsTypeOK'
        <3>1. PICK u \in Mailboxes : CreateUser(u) \/ DeleteUser(u)
                                     \/ \E n \in 1..MaxIncarnations : FinishDelete(u, n)
            BY <1>1 DEF AccountStep
        <3>2. CASE CreateUser(u) BY <3>2 DEF CreateUser, TypeInv, TypeOK, AccountsTypeOK
        <3>3. CASE ~CreateUser(u) BY <3>1, <3>3 DEF DeleteUser, FinishDelete, TypeInv, TypeOK, AccountsTypeOK
        <3> QED BY <3>2, <3>3
    <2> QED BY <1>1, <2>1, <2>2, AsideType DEF AccountStep, TypeInv, TypeOK, DeliveryTypeOK
<1>2. CASE RemoveRule
    <2>1. StorageTypeOK' /\ envelope' = envelope
        BY <1>2 DEF RemoveRule, ForwardingDelete, TypeInv, TypeOK, StorageTypeOK, queueVars, mailVars
    <2>2. AccountsTypeOK' BY <1>2 DEF RemoveRule, TypeInv, TypeOK, AccountsTypeOK, accountVars
    <2> QED BY <1>2, <2>1, <2>2, AsideType DEF RemoveRule, TypeInv, TypeOK, DeliveryTypeOK
<1>3. CASE DiscardMail
    <2>1. StorageTypeOK' /\ envelope' = envelope
        BY <1>3 DEF DiscardMail, DeleteMail, TypeInv, TypeOK, StorageTypeOK, queueVars
    <2>2. AccountsTypeOK' BY <1>3 DEF DiscardMail, TypeInv, TypeOK, AccountsTypeOK, accountVars
    <2> QED BY <1>3, <2>1, <2>2, AsideType DEF DiscardMail, TypeInv, TypeOK, DeliveryTypeOK
<1>4. CASE DueAgain
    <2>1. PICK j \in Jobs : BecomeDue({j}) BY <1>4 DEF DueAgain
    <2>2. due' \subseteq Jobs /\ ahead' \in [Jobs -> SUBSET Jobs]
        BY <2>1, DueType, {j} \in SUBSET Jobs DEF TypeInv, TypeOK
    <2>3. StorageTypeOK' /\ envelope' = envelope
        BY <1>4, <2>2 DEF DueAgain, TypeInv, TypeOK, StorageTypeOK, mailVars
    <2>4. AccountsTypeOK' BY <1>4 DEF DueAgain, TypeInv, TypeOK, AccountsTypeOK, accountVars
    <2> QED BY <1>4, <2>3, <2>4, AsideType DEF DueAgain, TypeInv, TypeOK, DeliveryTypeOK
<1>5. CASE GrowOld
    <2>1. AccountsTypeOK' /\ StorageTypeOK' BY <1>5, StillTyped DEF GrowOld
    <2> QED BY <1>5, <2>1, AsideType
            DEF GrowOld, TypeInv, TypeOK, DeliveryTypeOK, storageVars, queueVars
<1> QED BY <1>1, <1>2, <1>3, <1>4, <1>5

(* A restart forgets the worker's snapshot and every request. *)
LEMMA RestartType == ASSUME TypeInv, Restart PROVE TypeInv'
<1>1. AccountsTypeOK' /\ StorageTypeOK'
    BY DEF Restart, TypeInv, TypeOK, AccountsTypeOK, StorageTypeOK, accountVars, mailVars
<1>2. DeliveryTypeOK' BY DEF Restart, Fault, TypeInv, TypeOK, DeliveryTypeOK, clientVars
<1> QED BY <1>1, <1>2 DEF Restart, TypeInv, TypeOK, WorkerIsServed, DeliverHasInbox

(* Every step keeps TypeInv. *)
LEMMA NextType == TypeInv /\ [Next]_vars => TypeInv'
<1> SUFFICES ASSUME TypeInv, [Next]_vars PROVE TypeInv' OBVIOUS
<1>1. CASE UNCHANGED vars
    <2>1. AccountsTypeOK' /\ StorageTypeOK' BY <1>1, StillTyped DEF vars
    <2> QED BY <1>1, <2>1, AsideType
            DEF vars, TypeInv, TypeOK, DeliveryTypeOK, storageVars, queueVars
<1>2. CASE Next
    BY <1>2, WorkerType, BeginsType, AskType, CommitWorkerType, CommitClientType, EndType,
       OthersType, RestartType DEF Next
<1> QED BY <1>1, <1>2

(* The state of storage, worker, requests and accounts always has its type, and
   the worker holds a job exactly while it works on one.                      *)
THEOREM TypeCorrect == Spec => []TypeOK
<1>1. TypeInv => TypeOK BY DEF TypeInv
<1> QED BY <1>1, InitType, NextType, PTL DEF Spec

-----------------------------------------------------------------------------
(* At most one copy: only deliver inserts into an Inbox, and it looks for the
   receipt it leaves, which nothing removes.                                 *)

(* Every step but the commit of a request of the worker keeps the receipts of
   submissions and the count of copies.                                       *)
LEMMA CopiesUntouched ==
    ASSUME [Next]_vars, ~CommitWorkerCall
    PROVE  UNCHANGED <<inserted, subReceipts>>
<1>1. CASE UNCHANGED vars BY <1>1 DEF vars, storageVars, mailVars
<1>2. CASE TakeJob \/ Scan \/ Transfer \/ Timeout
    BY <1>2 DEF TakeJob, Scan, Transfer, Timeout, storageVars, mailVars
<1>3. CASE BeginWorkerCall \/ BeginLateCall \/ Submit \/ AskRoute \/ AskForwarding \/ AskMailboxDelete \/ Ask
    BY <1>3 DEF BeginWorkerCall, BeginLateCall, Submit, AskRoute, AskForwarding, AskMailboxDelete,
       Ask, storageVars, mailVars
<1>4. CASE CommitEnqueue \/ CommitRoute \/ CommitForwarding \/ CommitMailboxDelete
    BY <1>4 DEF CommitEnqueue, Enqueue, CommitRoute, CommitForwarding, ForwardingCreate,
       CommitMailboxDelete, MailboxDelete, storageVars, mailVars
<1>5. CASE RefuseClient \/ Abort \/ AccountStep \/ RemoveRule \/ DiscardMail \/ DueAgain \/ GrowOld \/ Restart
    BY <1>5 DEF RefuseClient, Abort, AccountStep, RemoveRule, ForwardingDelete, DiscardMail,
       DeleteMail, DueAgain, GrowOld, Restart, storageVars, mailVars
<1> QED BY <1>1, <1>2, <1>3, <1>4, <1>5 DEF Next

(* deliver inserts only where the receipt is missing, and leaves it. *)
LEMMA DeliverOnce ==
    ASSUME TypeInv, CopiesHaveReceipts, NEW j \in Jobs, NEW alive, NEW ok \in BOOLEAN,
           Destination(j) \in Mailboxes, Deliver(j, alive, ok)
    PROVE  CopiesHaveReceipts'
<1> DEFINE d == <<Destination(j), j[1]>>
<1>1. d \in Mailboxes \X Submissions BY DEF Jobs
<1>2. CASE UNCHANGED <<inserted, subReceipts>> BY <1>2 DEF CopiesHaveReceipts
<1>3. CASE ok /\ ~AlreadyReceived(Destination(j), j)
    <2>1. /\ d \notin subReceipts
          /\ inserted' = [inserted EXCEPT ![d] = @ + 1]
          /\ subReceipts' = subReceipts \cup {d}
        BY <1>3 DEF Deliver, Insert, AlreadyReceived
    <2>2. inserted \in [Mailboxes \X Submissions -> Nat] BY DEF TypeInv, TypeOK, StorageTypeOK
    <2>3. inserted[d] \in Nat /\ inserted[d] <= 1 /\ inserted[d] # 1
        BY <1>1, <2>1, <2>2 DEF CopiesHaveReceipts
    <2>4. inserted[d] = 0 BY <2>3
    <2>5. inserted'[d] = 1 BY <1>1, <2>1, <2>2, <2>4
    <2>6. SUFFICES ASSUME NEW e \in Mailboxes \X Submissions
                   PROVE  inserted'[e] <= 1 /\ (inserted'[e] = 1 => e \in subReceipts')
        BY DEF CopiesHaveReceipts
    <2>7. CASE e = d BY <2>1, <2>5, <2>7
    <2>8. CASE e # d BY <2>1, <2>2, <2>8 DEF CopiesHaveReceipts
    <2> QED BY <2>7, <2>8
<1>4. CASE ok /\ AlreadyReceived(Destination(j), j) BY <1>2, <1>4 DEF Deliver
<1>5. CASE ~ok BY <1>2, <1>5 DEF Deliver, storageVars, mailVars
<1> QED BY <1>3, <1>4, <1>5

(* Every step keeps CopiesHaveReceipts. *)
LEMMA NextCopies == TypeInv /\ CopiesHaveReceipts /\ [Next]_vars => CopiesHaveReceipts'
<1> SUFFICES ASSUME TypeInv, CopiesHaveReceipts, [Next]_vars PROVE CopiesHaveReceipts'
    OBVIOUS
<1>1. CASE UNCHANGED <<inserted, subReceipts>> BY <1>1 DEF CopiesHaveReceipts
<1>2. CASE CommitWorkerCall
    <2>1. serving # Idle /\ serving.call.op \in CallOps BY <1>2 DEF CommitWorkerCall, Answered
    <2>2. serving.call.job \in Jobs BY <2>1, ServedCall DEF WorkerCalls
    <2>3. CASE serving.call.op = "deliver"
        <3>1. PICK ok \in BOOLEAN : Deliver(serving.call.job, serving.alive, ok)
            BY <1>2, <2>3 DEF CommitWorkerCall
        <3>2. Destination(serving.call.job) \in Mailboxes
            BY <2>1, <2>3 DEF TypeInv, DeliverHasInbox
        <3> QED BY <2>2, <3>1, <3>2, DeliverOnce
    <2>4. CASE serving.call.op # "deliver"
        <3>1. PICK ok \in BOOLEAN, state \in {"rejected", "failed"} :
                \/ UNCHANGED storageVars
                \/ FinishQueue(serving.call.job) \/ RetryQueue(serving.call.job, ok)
                \/ RejectQueue(serving.call.job, state, ok)
            BY <1>2, <2>1, <2>4 DEF CommitWorkerCall, CallOps
        <3>2. UNCHANGED <<inserted, subReceipts>>
            BY <3>1 DEF FinishQueue, RejectQueue, RetryQueue, storageVars, mailVars
        <3> QED BY <1>1, <3>2
    <2> QED BY <2>3, <2>4
<1>3. CASE ~CommitWorkerCall BY <1>1, <1>3, CopiesUntouched
<1> QED BY <1>2, <1>3

(* Whatever is retried, delayed, repeated, discarded or restarted, no mailbox
   ever receives a second copy of one submission.                             *)
THEOREM AtMostOneCopy == Spec => []OneCopyPerSubmission
<1>1. Init => CopiesHaveReceipts
    BY DEF Init, StorageInit, CopiesHaveReceipts
<1>2. CopiesHaveReceipts => OneCopyPerSubmission
    BY DEF CopiesHaveReceipts, OneCopyPerSubmission
<1> QED BY <1>1, <1>2, InitType, NextType, NextCopies, PTL DEF Spec

-----------------------------------------------------------------------------
(* Owners of routes and rules: OwnersInv is inductive. *)

(* A step that adds no job, no rule, no answer of auth and no cleanup. *)
LEMMA OwnersKept ==
    ASSUME TypeInv, OwnersInv, UNCHANGED <<accountVars, purged>>,
           \A j \in Jobs : queue'[j] # "absent" /\ IsLocal(j)
                => queue[j] # "absent" /\ Destination(j)' = Destination(j),
           \A p \in Patterns : rules'[p] \in {rules[p], NoOne},
           \/ serving' = Idle
           \/ serving # Idle /\ serving'.alive = serving.alive /\ serving'.call = serving.call
           \/ serving'.alive = {} /\ serving'.call.op # "mailboxDelete"
    PROVE  OwnersInv'
<1>1. \A u \in Mailboxes : Clean(u) => Clean(u)' BY DEF Clean, IsLocal
<1> QED BY <1>1 DEF OwnersInv, QueueTargetsHaveOwners, RuleTargetsHaveOwners, accountVars, IsLocal

(* Steps that leave queue, envelopes and rules alone. *)
LEMMA OwnersUntouched ==
    ASSUME TypeInv, OwnersInv, UNCHANGED <<accountVars, purged, queue, envelope, rules>>,
           \/ serving' = Idle
           \/ serving # Idle /\ serving'.alive = serving.alive /\ serving'.call = serving.call
           \/ serving'.alive = {} /\ serving'.call.op # "mailboxDelete"
    PROVE  OwnersInv'
<1>1. \A j : Destination(j)' = Destination(j) BY DEF Destination
<1> QED BY <1>1, OwnersKept

(* The worker, time, readers and restarts. *)
LEMMA OwnersWorker ==
    ASSUME TypeInv, OwnersInv,
           \/ UNCHANGED vars \/ TakeJob \/ Scan \/ Transfer \/ Timeout
           \/ DiscardMail \/ DueAgain \/ GrowOld \/ Restart \/ RefuseClient \/ Abort
    PROVE  OwnersInv'
<1>1. UNCHANGED <<accountVars, purged, queue, envelope, rules>>
    BY DEF vars, TakeJob, Scan, Transfer, Timeout, DiscardMail, DeleteMail, DueAgain, GrowOld,
       Restart, RefuseClient, Abort, storageVars, queueVars, clientVars
<1>2. CASE Timeout
    <2>1. \/ serving' = serving
          \/ serving # Idle /\ serving' = [serving EXCEPT !.answer = "nobody"]
        BY <1>2 DEF Timeout
    <2>2. serving # Idle => serving \in Services BY ServedCall
    <2>3. \/ serving' = Idle
          \/ serving # Idle /\ serving'.alive = serving.alive /\ serving'.call = serving.call
        BY <2>1, <2>2 DEF Services
    <2> QED BY <1>1, <2>3, OwnersUntouched
<1>3. CASE ~Timeout
    <2>1. serving' = serving \/ serving' = Idle
        BY <1>3 DEF vars, TakeJob, Scan, Transfer, DiscardMail, DueAgain, GrowOld, Restart,
           RefuseClient, Abort
    <2> QED BY <1>1, <2>1, OwnersUntouched
<1> QED BY <1>2, <1>3

(* Taking a request: only a mailbox_delete has something to show. *)
LEMMA OwnersBegin ==
    ASSUME TypeInv, OwnersInv,
           BeginWorkerCall \/ BeginLateCall \/ Submit \/ AskRoute \/ AskForwarding \/ AskMailboxDelete
    PROVE  OwnersInv'
<1>1. UNCHANGED <<accountVars, purged, queue, envelope, rules>>
    BY DEF BeginWorkerCall, BeginLateCall, Submit, AskRoute, AskForwarding, AskMailboxDelete,
       storageVars, queueVars, clientVars
<1>2. CASE ~AskMailboxDelete
    <2>1. serving'.alive = {} /\ serving'.call.op # "mailboxDelete"
        <3>1. CASE BeginWorkerCall BY <3>1 DEF BeginWorkerCall, Begin, CallOps
        <3>2. CASE BeginLateCall
            BY <3>2 DEF BeginLateCall, Begin, TypeInv, TypeOK, DeliveryTypeOK, WorkerCalls, CallOps
        <3>3. CASE Submit \/ AskRoute \/ AskForwarding
            BY <3>3 DEF Submit, AskRoute, AskForwarding, Begin
        <3> QED BY <1>2, <3>1, <3>2, <3>3
    <2> QED BY <1>1, <2>1, OwnersUntouched
<1>3. CASE AskMailboxDelete
    <2>1. PICK u \in Mailboxes, n \in 1..MaxIncarnations :
            /\ n < incarnation[u] \/ (n = incarnation[u] /\ u \in deleting)
            /\ Begin([op |-> "mailboxDelete", owner |-> u, cleanup |-> n], "client")
        BY <1>3 DEF AskMailboxDelete
    <2>2. serving'.call = [op |-> "mailboxDelete", owner |-> u, cleanup |-> n] /\ serving'.alive = {}
        BY <2>1 DEF Begin
    <2>3. incarnation[u] \in Nat BY DEF TypeInv, TypeOK, AccountsTypeOK
    <2>4. n <= incarnation[u] /\ (n = incarnation[u] => u \notin users)
        BY <2>1, <2>3 DEF OwnersInv
    <2>5. \A j : Destination(j)' = Destination(j) BY <1>1 DEF Destination
    <2>6. \A v \in Mailboxes : Clean(v) => Clean(v)' BY <1>1, <2>2, <2>5 DEF Clean
    <2>7. QueueTargetsHaveOwners' /\ RuleTargetsHaveOwners'
        BY <1>1, <2>5 DEF OwnersInv, QueueTargetsHaveOwners, RuleTargetsHaveOwners, accountVars
    <2> QED BY <1>1, <2>2, <2>4, <2>6, <2>7 DEF OwnersInv, accountVars
<1> QED BY <1>2, <1>3

(* An answer of auth names only addresses that have an account now. *)
LEMMA OwnersAsk == ASSUME TypeInv, OwnersInv, Ask PROVE OwnersInv'
<1>1. UNCHANGED <<accountVars, purged, queue, envelope, rules>>
    BY DEF Ask, storageVars, queueVars, clientVars
<1>2. PICK u : serving' = [serving EXCEPT !.asked = @ \cup {u}, !.alive = @ \cup ({u} \cap users)]
    BY DEF Ask
<1>3. serving # Idle /\ serving \in Services BY ServedCall DEF Ask
<1>4. serving'.call = serving.call /\ serving'.alive = serving.alive \cup ({u} \cap users)
    BY <1>2, <1>3 DEF Services
<1>5. \A j : Destination(j)' = Destination(j) BY <1>1 DEF Destination
<1>6. \A v \in Mailboxes : Clean(v) /\ v \notin users => Clean(v)'
    BY <1>1, <1>3, <1>4, <1>5 DEF Clean
<1>7. QueueTargetsHaveOwners' /\ RuleTargetsHaveOwners'
    BY <1>1, <1>5 DEF OwnersInv, QueueTargetsHaveOwners, RuleTargetsHaveOwners, accountVars
<1>8. serving'.alive \subseteq users \cup deleting BY <1>3, <1>4 DEF OwnersInv
<1> QED BY <1>1, <1>3, <1>4, <1>6, <1>7, <1>8 DEF OwnersInv, accountVars

(* Commits of the worker's requests, removal of a rule, and of a route lookup,
   only take away.                                                            *)
LEMMA OwnersTaken ==
    ASSUME TypeInv, OwnersInv, CommitWorkerCall \/ CommitRoute \/ RemoveRule
    PROVE  OwnersInv'
<1>1. CASE CommitWorkerCall
    <2>1. serving # Idle /\ serving.call.op \in CallOps BY <1>1 DEF CommitWorkerCall, Answered
    <2>2. serving.call.job \in Jobs BY <2>1, ServedCall DEF WorkerCalls
    <2>3. PICK ok \in BOOLEAN, state \in {"rejected", "failed"} :
            \/ UNCHANGED storageVars
            \/ Deliver(serving.call.job, serving.alive, ok)
            \/ FinishQueue(serving.call.job) \/ RetryQueue(serving.call.job, ok)
            \/ RejectQueue(serving.call.job, state, ok)
        BY <1>1, <2>1 DEF CommitWorkerCall, CallOps
    <2>4. envelope' = envelope /\ rules' = rules
        BY <2>3 DEF Deliver, FinishQueue, RejectQueue, RetryQueue, storageVars, queueVars
    <2>5. \/ queue' = queue
          \/ queue' = [queue EXCEPT ![serving.call.job] = "absent"]
          \/ /\ queue[serving.call.job] = "pending"
             /\ queue' = [queue EXCEPT ![serving.call.job] = "quarantined"]
        BY <2>3 DEF Deliver, FinishQueue, RejectQueue, RetryQueue, StillPending, storageVars, queueVars
    <2>6. \A j \in Jobs : queue'[j] # "absent" => queue[j] # "absent"
        BY <2>2, <2>5 DEF TypeInv, TypeOK, StorageTypeOK
    <2>7. \A j : Destination(j)' = Destination(j) BY <2>4 DEF Destination
    <2>8. UNCHANGED <<accountVars, purged>> /\ serving' = Idle
        BY <1>1 DEF CommitWorkerCall, clientVars
    <2> QED BY <2>4, <2>6, <2>7, <2>8, OwnersKept
<1>2. CASE CommitRoute
    BY <1>2, OwnersUntouched DEF CommitRoute, storageVars, queueVars
<1>3. CASE RemoveRule
    <2>1. \A p \in Patterns : rules'[p] \in {rules[p], NoOne}
        BY <1>3 DEF RemoveRule, ForwardingDelete, TypeInv, TypeOK, StorageTypeOK
    <2>2. UNCHANGED <<accountVars, purged, queue, envelope>> /\ serving' = Idle
        BY <1>3 DEF RemoveRule, ForwardingDelete, queueVars, clientVars
    <2>3. \A j : Destination(j)' = Destination(j) BY <2>2 DEF Destination
    <2> QED BY <2>1, <2>2, <2>3, OwnersKept
<1> QED BY <1>1, <1>2, <1>3

(* A new rule and a new job lead to mailboxes auth has vouched for. *)
LEMMA OwnersForwarding == ASSUME TypeInv, OwnersInv, CommitForwarding PROVE OwnersInv'
<1> DEFINE u == serving.call.destination
<1>1. serving # Idle /\ serving' = Idle /\ UNCHANGED <<accountVars, purged, queue, envelope>>
    BY DEF CommitForwarding, Answered, ForwardingCreate, queueVars, clientVars
<1>2. u \in serving.alive /\ u \in Mailboxes /\ \A p \in Patterns : rules'[p] \in {rules[p], u}
    BY <1>1, ServedCall DEF CommitForwarding, ForwardingCreate, IsMailbox, TypeInv, TypeOK, StorageTypeOK
<1>3. u \in users \cup deleting BY <1>1, <1>2 DEF OwnersInv
<1>4. \A j : Destination(j)' = Destination(j) BY <1>1 DEF Destination
<1>5. \A v \in Mailboxes : Clean(v) => Clean(v)' BY <1>1, <1>2, <1>4 DEF Clean
<1>6. QueueTargetsHaveOwners' /\ RuleTargetsHaveOwners'
    BY <1>1, <1>2, <1>3, <1>4 DEF OwnersInv, QueueTargetsHaveOwners, RuleTargetsHaveOwners, accountVars
<1> QED BY <1>1, <1>5, <1>6 DEF OwnersInv, accountVars

(* The pinned inboxes of new jobs have an account or a cleanup to come. *)
LEMMA OwnersEnqueue == ASSUME TypeInv, OwnersInv, CommitEnqueue PROVE OwnersInv'
<1> DEFINE c == serving.call
<1>1. serving # Idle /\ serving' = Idle /\ UNCHANGED <<accountVars, purged>>
    BY DEF CommitEnqueue, Answered, clientVars
<1>2. PICK s \in Submissions : Enqueue(c, s, serving.alive) BY DEF CommitEnqueue
<1>3. rules' = rules BY <1>2 DEF Enqueue
<1>4. EnqueueCall(c) BY <1>1, ServedCall DEF CommitEnqueue
<1>5. \A j \in Jobs : j[1] # s => queue'[j] = queue[j] /\ Destination(j)' = Destination(j)
    BY <1>2 DEF Enqueue, Destination, TypeInv, TypeOK, StorageTypeOK, Jobs
<1>6. \A j \in Jobs : j[1] = s /\ queue'[j] # "absent" /\ IsLocal(j)
            => Destination(j)' \in serving.alive
    <2>1. SUFFICES ASSUME NEW j \in Jobs, j[1] = s, queue'[j] # "absent", IsLocal(j)
                   PROVE  Destination(j)' \in serving.alive
        OBVIOUS
    <2>2. j[2] \in Recipients /\ j = <<s, j[2]>> BY <2>1 DEF Jobs
    <2>3. Destination(j) = NoOne BY <1>2, <2>1, <2>2 DEF Enqueue, Fresh, Addressed, Destination
    <2>4. queue[j] = "absent"
        BY <2>1, <2>3 DEF OwnersInv, QueueTargetsHaveOwners, TypeInv, TypeOK, AccountsTypeOK
    <2>5. j \in {s} \X Canonical(c.routes) BY <1>2, <2>1, <2>4 DEF Enqueue
    <2>6. j[2] \in Addressed(c.routes) BY <2>5 DEF Canonical
    <2>7. c.routes[j[2]] \in serving.alive
        BY <1>2, <2>1, <2>6 DEF Enqueue, RoutesAlive, IsLocal
    <2>8. Destination(j)' = c.routes[j[2]]
        BY <1>2, <2>1 DEF Enqueue, Destination, TypeInv, TypeOK, StorageTypeOK
    <2> QED BY <2>7, <2>8
<1>7. serving.alive \subseteq users \cup deleting BY <1>1 DEF OwnersInv
<1>8. \A v \in Mailboxes : Clean(v) => Clean(v)'
    BY <1>1, <1>3, <1>5, <1>6 DEF Clean, IsLocal
<1>9. QueueTargetsHaveOwners' /\ RuleTargetsHaveOwners'
    BY <1>1, <1>3, <1>5, <1>6, <1>7
    DEF OwnersInv, QueueTargetsHaveOwners, RuleTargetsHaveOwners, accountVars, IsLocal
<1> QED BY <1>1, <1>8, <1>9 DEF OwnersInv, accountVars

(* mailbox_delete leaves the mailbox clean. *)
LEMMA OwnersDelete == ASSUME TypeInv, OwnersInv, CommitMailboxDelete PROVE OwnersInv'
<1>0. PICK u, n : u = serving.call.owner /\ n = serving.call.cleanup OBVIOUS
<1>1. /\ serving # Idle /\ serving' = Idle /\ UNCHANGED accountVars
      /\ purged' = purged \cup {<<u, n>>}
      /\ MailboxDelete(u, serving.alive)
    BY <1>0 DEF CommitMailboxDelete, Answered
<1>2. n <= incarnation[u] /\ (n = incarnation[u] => u \notin users)
    BY <1>0, <1>1 DEF OwnersInv, CommitMailboxDelete
<1>3. \A j \in Jobs : queue'[j] # "absent" => queue[j] # "absent" /\ ~Targets(j, u)
    BY <1>1 DEF MailboxDelete, JobsInvolving, TypeInv, TypeOK, StorageTypeOK
<1>4. \A p \in Patterns : rules'[p] \in {rules[p], NoOne} /\ (u # NoOne => rules'[p] # u)
    BY <1>1 DEF MailboxDelete
<1>5. u \in Mailboxes BY <1>0, <1>1, ServedCall DEF CommitMailboxDelete
<1>6. \A j : Destination(j)' = Destination(j) BY <1>1 DEF MailboxDelete, Destination
<1>7. Clean(u)' BY <1>1, <1>3, <1>4, <1>5, <1>6 DEF Clean, Targets
<1>8. \A v \in Mailboxes : Clean(v) => Clean(v)'
    BY <1>1, <1>3, <1>4, <1>6 DEF Clean, IsLocal
<1>9. QueueTargetsHaveOwners' /\ RuleTargetsHaveOwners'
    BY <1>1, <1>3, <1>4, <1>6
    DEF OwnersInv, QueueTargetsHaveOwners, RuleTargetsHaveOwners, accountVars, IsLocal
<1> QED BY <1>1, <1>2, <1>7, <1>8, <1>9 DEF OwnersInv, accountVars

(* Registering, disabling and finishing: a cleanup finishes only when nothing
   leads to the mailbox any more.                                            *)
LEMMA OwnersAccounts == ASSUME TypeInv, OwnersInv, AccountStep PROVE OwnersInv'
<1>1. UNCHANGED <<serving, purged, queue, envelope, rules>>
    BY DEF AccountStep, storageVars, queueVars, clientVars
<1>2. \A j : Destination(j)' = Destination(j) BY <1>1 DEF Destination
<1>3. \A v \in Mailboxes : Clean(v)' = Clean(v) BY <1>1, <1>2 DEF Clean
<1>4. PICK u \in Mailboxes :
        \/ CreateUser(u)
        \/ DeleteUser(u)
        \/ \E n \in 1..MaxIncarnations : <<u, n>> \in purged /\ FinishDelete(u, n)
    BY DEF AccountStep
<1>5. incarnation \in [Mailboxes -> 0..MaxIncarnations] /\ users \subseteq Mailboxes
    BY DEF TypeInv, TypeOK, AccountsTypeOK
<1>6. serving # Idle /\ serving.call.op = "mailboxDelete"
      => serving.call.owner \in Mailboxes /\ serving.call.cleanup \in Nat
    BY ServedCall
<1>7. CASE CreateUser(u)
    <2>1. u \notin users /\ u \notin deleting /\ users' = users \cup {u} /\ deleting' = deleting
          /\ incarnation' = [incarnation EXCEPT ![u] = @ + 1]
        BY <1>7 DEF CreateUser, MayRegister
    <2>2. \A v \in Mailboxes : incarnation'[v] = IF v = u THEN incarnation[v] + 1 ELSE incarnation[v]
        BY <1>5, <2>1
    <2>3. ASSUME NEW v \in Mailboxes, NEW n \in Nat, n <= incarnation[v]
          PROVE  n <= incarnation'[v] /\ (n = incarnation'[v] => n = incarnation[v] /\ v # u)
        <3>1. incarnation[v] \in Nat BY <1>5
        <3>2. CASE v = u BY <2>2, <2>3, <3>1, <3>2
        <3>3. CASE v # u BY <2>2, <2>3, <3>1, <3>3
        <3> QED BY <3>2, <3>3
    <2>4. QueueTargetsHaveOwners' /\ RuleTargetsHaveOwners'
        BY <1>1, <1>2, <2>1 DEF OwnersInv, QueueTargetsHaveOwners, RuleTargetsHaveOwners, IsLocal
    <2>5. ASSUME serving' # Idle, serving'.call.op = "mailboxDelete"
          PROVE  /\ serving'.call.cleanup <= incarnation'[serving'.call.owner]
                 /\ serving'.call.cleanup = incarnation'[serving'.call.owner]
                    => serving'.call.owner \notin users'
        <3> DEFINE o == serving.call.owner
                   m == serving.call.cleanup
        <3>1. /\ o \in Mailboxes /\ m \in Nat /\ m <= incarnation[o]
              /\ m = incarnation[o] => o \notin users
            BY <1>1, <1>6, <2>5 DEF OwnersInv
        <3>2. m <= incarnation'[o] /\ (m = incarnation'[o] => m = incarnation[o] /\ o # u)
            BY <2>3, <3>1
        <3> QED BY <1>1, <2>1, <3>1, <3>2
    <2>6. \A v \in Mailboxes, n \in 1..MaxIncarnations : <<v, n>> \in purged'
          => /\ n <= incarnation'[v]
             /\ n = incarnation'[v] => v \notin users' /\ Clean(v)'
        BY <1>1, <1>3, <2>1, <2>3 DEF OwnersInv
    <2> QED BY <1>1, <2>1, <2>4, <2>5, <2>6 DEF OwnersInv
<1>8. CASE DeleteUser(u)
    <2>1. users' = users \ {u} /\ deleting' = deleting \cup {u} /\ incarnation' = incarnation
          /\ u \in users
        BY <1>8 DEF DeleteUser
    <2>2. users' \cup deleting' = users \cup deleting BY <2>1
    <2>3. QueueTargetsHaveOwners' /\ RuleTargetsHaveOwners'
        BY <1>1, <1>2, <2>2 DEF OwnersInv, QueueTargetsHaveOwners, RuleTargetsHaveOwners, IsLocal
    <2> QED BY <1>1, <1>3, <2>1, <2>2, <2>3 DEF OwnersInv
<1>9. CASE \E n \in 1..MaxIncarnations : <<u, n>> \in purged /\ FinishDelete(u, n)
    <2>1. /\ deleting' = deleting \ {u} /\ UNCHANGED <<users, incarnation>>
          /\ Clean(u)
        BY <1>9 DEF FinishDelete, OwnersInv
    <2>2. QueueTargetsHaveOwners' /\ RuleTargetsHaveOwners'
        BY <1>1, <1>2, <2>1 DEF OwnersInv, QueueTargetsHaveOwners, RuleTargetsHaveOwners, IsLocal, Clean
    <2>3. serving' # Idle => serving'.alive \subseteq users' \cup deleting'
        BY <1>1, <2>1 DEF OwnersInv, Clean
    <2> QED BY <1>1, <1>3, <2>1, <2>2, <2>3 DEF OwnersInv
<1> QED BY <1>4, <1>7, <1>8, <1>9

(* Every step keeps OwnersInv. *)
LEMMA NextOwners == TypeInv /\ OwnersInv /\ [Next]_vars => OwnersInv'
<1> SUFFICES ASSUME TypeInv, OwnersInv, [Next]_vars PROVE OwnersInv' OBVIOUS
<1> QED BY OwnersWorker, OwnersBegin, OwnersAsk, OwnersTaken, OwnersForwarding, OwnersEnqueue,
        OwnersDelete, OwnersAccounts DEF Next

(* The inbox of every queued job and the target of every rule belongs to an
   account, or to one whose cleanup has yet to remove them: storage keeps its
   mutex while it asks auth, and the cleanup of an account waits for it.      *)
THEOREM TargetsHaveOwners == Spec => []TargetsAreOwned
<1>1. Init => OwnersInv
    BY DEF Init, AccountsInit, StorageInit, OwnersInv, QueueTargetsHaveOwners, RuleTargetsHaveOwners
<1>2. OwnersInv => TargetsAreOwned BY DEF OwnersInv, TargetsAreOwned
<1> QED BY <1>1, <1>2, InitType, NextType, NextOwners, PTL DEF Spec

-----------------------------------------------------------------------------
(*****************************************************************************)
(* What becomes of accepted mail: the status a sender reads, the contract of *)
(* delivery, and what one owner of an address leaves to the next.            *)
(*****************************************************************************)

LEMMA LocalIsNotRemote == \A r \in LocalAddresses : r \in Recipients /\ r \notin Remotes
<1> SUFFICES ASSUME NEW r \in LocalAddresses, r \in Remotes PROVE FALSE
    BY DEF Recipients, LocalAddresses
<1>1. r \in Remotes \cap (Mailboxes \cup Aliases) BY DEF LocalAddresses
<1> QED BY <1>1, StorageAssumption

-----------------------------------------------------------------------------
(* What never goes back *)

(* Envelopes of queued mail never change, receipts and hand-overs stay. *)
Grown ==
    /\ \A s \in Submissions : ~Fresh(s) => envelope'[s] = envelope[s]
    /\ receipts \subseteq receipts'
    /\ subReceipts \subseteq subReceipts'
    /\ transferred \subseteq transferred'

(* What committing a request of the worker does. *)
LEMMA WorkerCommit ==
    ASSUME TypeInv, CommitWorkerCall
    PROVE  /\ serving # Idle /\ serving' = Idle /\ serving.call.job \in Jobs
           /\ serving.alive \subseteq Mailboxes
           /\ envelope' = envelope /\ UNCHANGED <<accountVars, late, clientVars, expired, transferred>>
           /\ \E ok \in BOOLEAN :
                /\ IF serving.answer = "worker" THEN Answer(serving.call.op, ok) ELSE UNCHANGED workerVars
                /\ \/ serving.call.op = "resolve" /\ UNCHANGED storageVars
                   \/ serving.call.op = "deliver" /\ Deliver(serving.call.job, serving.alive, ok)
                   \/ serving.call.op = "finish" /\ FinishQueue(serving.call.job)
                   \/ /\ serving.call.op \in {"reject", "expire"}
                      /\ \E state \in {"rejected", "failed"} : RejectQueue(serving.call.job, state, ok)
                   \/ serving.call.op = "retry" /\ RetryQueue(serving.call.job, ok)
<1>1. serving # Idle /\ serving' = Idle /\ serving.call.op \in CallOps
    BY DEF CommitWorkerCall, Answered
<1>2. serving.call.job \in Jobs /\ serving.alive \subseteq Mailboxes
    BY <1>1, ServedCall DEF WorkerCalls, Services
<1>3. PICK ok \in BOOLEAN :
        /\ IF serving.answer = "worker" THEN Answer(serving.call.op, ok) ELSE UNCHANGED workerVars
        /\ \/ serving.call.op = "resolve" /\ UNCHANGED storageVars
           \/ serving.call.op = "deliver" /\ Deliver(serving.call.job, serving.alive, ok)
           \/ serving.call.op = "finish" /\ FinishQueue(serving.call.job)
           \/ /\ serving.call.op \in {"reject", "expire"}
              /\ \E state \in {"rejected", "failed"} : RejectQueue(serving.call.job, state, ok)
           \/ serving.call.op = "retry" /\ RetryQueue(serving.call.job, ok)
    BY <1>1 DEF CommitWorkerCall, CallOps
<1>4. envelope' = envelope
    BY <1>3 DEF Deliver, FinishQueue, RejectQueue, RetryQueue, storageVars, queueVars
<1> QED BY <1>1, <1>2, <1>3, <1>4 DEF CommitWorkerCall

LEMMA NextGrows == ASSUME TypeInv, [Next]_vars PROVE Grown
<1>1. CASE UNCHANGED <<envelope, receipts, subReceipts, transferred>> BY <1>1 DEF Grown
<1>2. CASE UNCHANGED vars BY <1>1, <1>2 DEF vars, storageVars, queueVars, mailVars
<1>3. CASE Transfer BY <1>3 DEF Transfer, Grown, storageVars, queueVars, mailVars
<1>4. CASE TakeJob \/ Scan \/ Timeout \/ DueAgain \/ GrowOld \/ Restart
    BY <1>1, <1>4 DEF TakeJob, Scan, Timeout, DueAgain, GrowOld, Restart, storageVars, queueVars, mailVars
<1>5. CASE BeginWorkerCall \/ BeginLateCall \/ Submit \/ AskRoute \/ AskForwarding \/ AskMailboxDelete \/ Ask
    BY <1>1, <1>5 DEF BeginWorkerCall, BeginLateCall, Submit, AskRoute, AskForwarding, AskMailboxDelete,
       Ask, storageVars, queueVars, mailVars
<1>6. CASE CommitWorkerCall
    BY <1>6, WorkerCommit DEF Deliver, Insert, FinishQueue, RejectQueue, RetryQueue, storageVars,
       queueVars, mailVars, Grown
<1>7. CASE CommitEnqueue
    <2>1. PICK s \in Submissions : Enqueue(serving.call, s, serving.alive) BY <1>7 DEF CommitEnqueue
    <2> QED BY <1>7, <2>1 DEF CommitEnqueue, Enqueue, Grown, TypeInv, TypeOK, StorageTypeOK
<1>8. CASE CommitRoute \/ CommitForwarding
    BY <1>1, <1>8 DEF CommitRoute, CommitForwarding, ForwardingCreate, storageVars, queueVars, mailVars
<1>9. CASE CommitMailboxDelete
    BY <1>9 DEF CommitMailboxDelete, MailboxDelete, Grown
<1>10. CASE RefuseClient \/ Abort \/ AccountStep \/ RemoveRule \/ DiscardMail
    BY <1>1, <1>10 DEF RefuseClient, Abort, AccountStep, RemoveRule, ForwardingDelete, DiscardMail,
       DeleteMail, storageVars, queueVars, mailVars
<1> QED BY <1>2, <1>3, <1>4, <1>5, <1>6, <1>7, <1>8, <1>9, <1>10 DEF Next

(* Committed jobs keep their routes, and what is justified stays so. *)
LEMMA CommittedKept ==
    ASSUME Grown, NEW j \in Jobs, Committed(j)
    PROVE  Committed(j)' /\ Destination(j)' = Destination(j) /\ envelope'[j[1]] = envelope[j[1]]
<1>1. j[1] \in Submissions BY DEF Jobs
<1>2. envelope'[j[1]] = envelope[j[1]] BY <1>1 DEF Grown, Committed
<1> QED BY <1>2 DEF Committed, Fresh, Destination

LEMMA JustifiedKept ==
    ASSUME Grown, NEW j \in Jobs, NEW step, Justified(step, j)
    PROVE  Justified(step, j)'
<1>1. Committed(j)' /\ Destination(j)' = Destination(j) BY CommittedKept DEF Justified
<1> QED BY <1>1 DEF Justified, Earned, AlreadyReceived, IsLocal, Grown

-----------------------------------------------------------------------------
(* The worker's steps and requests *)

(* The worker waits, or goes on with work that is justified; requests are the
   ones already there, or the one it gave up.                                *)
LEMMA WorkKept ==
    ASSUME TypeInv, WorkIsJustified, Grown,
           pc' # "list" => (pc' = pc /\ job' = job) \/ Justified(pc, job)',
           \A c \in late' : c \in late \/ (pc # "list" /\ c = [op |-> pc, job |-> job]),
           \/ serving' = Idle
           \/ serving # Idle /\ serving'.call = serving.call
           \/ serving'.call.op \notin CallOps
           \/ serving'.call \in late
           \/ pc # "list" /\ serving'.call = [op |-> pc, job |-> job]
    PROVE  WorkIsJustified'
<1>1. \A step, j : j \in Jobs /\ Justified(step, j) => Justified(step, j)' BY JustifiedKept
<1>2. pc # "list" => job \in Jobs /\ Justified(pc, job)
    BY DEF TypeInv, TypeOK, DeliveryTypeOK, WorkIsJustified
<1>3. \A c \in late : c.job \in Jobs /\ Justified(c.op, c.job)
    BY DEF TypeInv, TypeOK, DeliveryTypeOK, WorkerCalls, WorkIsJustified
<1>4. serving # Idle /\ serving.call.op \in CallOps
      => serving.call.job \in Jobs /\ Justified(serving.call.op, serving.call.job)
    BY ServedCall DEF WorkerCalls, WorkIsJustified
<1>5. \A c : c \in late \/ (pc # "list" /\ c = [op |-> pc, job |-> job])
             => c.job \in Jobs /\ Justified(c.op, c.job)
    BY <1>2, <1>3
<1>6. pc' # "list" => Justified(pc, job)'
    <2>1. CASE pc' # "list" /\ pc' = pc /\ job' = job
        <3>1. PICK step, j : step = pc /\ j = job OBVIOUS
        <3> QED BY <1>1, <1>2, <2>1, <3>1
    <2> QED BY <2>1
<1>7. \A c \in late' : Justified(c.op, c.job)' BY <1>1, <1>5
<1>8. serving' # Idle /\ serving'.call.op \in CallOps => Justified(serving.call.op, serving.call.job)'
    <2>1. SUFFICES ASSUME serving' # Idle, serving'.call.op \in CallOps
                   PROVE  Justified(serving.call.op, serving.call.job)'
        OBVIOUS
    <2>2. PICK step, j : step = serving'.call.op /\ j = serving'.call.job OBVIOUS
    <2>3. j \in Jobs /\ Justified(step, j) BY <1>4, <1>5, <2>1, <2>2
    <2> QED BY <1>1, <2>2, <2>3
<1> QED BY <1>6, <1>7, <1>8 DEF WorkIsJustified, CallOps

LEMMA NextWork ==
    ASSUME TypeInv, JourneyInv, [Next]_vars
    PROVE  WorkIsJustified'
<1>1. Grown BY NextGrows
<1>2. WorkIsJustified /\ RowsAreCommitted BY DEF JourneyInv, RecordsAreTrue
<1>3. pc # "list" => job \in Jobs /\ Justified(pc, job)
    BY <1>2 DEF TypeInv, TypeOK, DeliveryTypeOK, WorkIsJustified
<1>5. CASE UNCHANGED vars BY <1>1, <1>2, <1>5, WorkKept DEF vars, workerVars
<1>6. CASE TakeJob
    <2>1. job' \in due /\ pc' \in {"expire", "scan"} BY <1>6 DEF TakeJob
    <2>2. job' \in Jobs /\ Committed(job)'
        <3>1. PICK j : j = job' OBVIOUS
        <3>2. j \in Jobs /\ Committed(j)
            BY <1>2, <2>1, <3>1 DEF RowsAreCommitted, TypeInv, TypeOK, StorageTypeOK
        <3>3. UNCHANGED envelope BY <1>6 DEF TakeJob, storageVars, queueVars
        <3> QED BY <3>1, <3>2, <3>3 DEF Committed, Fresh
    <2>3. Justified(pc, job)' BY <2>1, <2>2 DEF Justified
    <2> QED BY <1>1, <1>2, <1>6, <2>3, WorkKept DEF TakeJob
<1>7. CASE Scan
    <2>1. pc = "scan" /\ job \in Jobs /\ Committed(job) BY <1>3, <1>7 DEF Scan, Justified
    <2>2. /\ job' = job /\ UNCHANGED envelope
          /\ pc' \in {"reject", "retry", IF IsLocal(job) THEN "resolve" ELSE "send"}
        BY <1>7 DEF Scan, MoveTo, storageVars, queueVars
    <2>3. Justified(pc, job)' BY <2>1, <2>2 DEF Justified, Committed, Fresh, IsLocal
    <2> QED BY <1>1, <1>2, <1>7, <2>3, WorkKept DEF Scan
<1>8. CASE Transfer
    <2>1. pc = "send" /\ job \in Jobs /\ Committed(job) /\ ~IsLocal(job)
        BY <1>3, <1>8 DEF Transfer, Justified
    <2>2. /\ job' = job /\ UNCHANGED envelope
          /\ pc' \in {"finish", "reject", "retry"} /\ (pc' = "finish" => job \in transferred')
        BY <1>8 DEF Transfer, MoveTo, storageVars, queueVars
    <2>3. Justified(pc, job)' BY <2>1, <2>2 DEF Justified, Committed, Fresh, IsLocal, Earned
    <2> QED BY <1>1, <1>2, <1>8, <2>3, WorkKept DEF Transfer
<1>9. CASE Timeout
    <2>1. pc # "list" /\ pc' \in {"list", "retry"} /\ (pc' = "retry" => job' = job)
        BY <1>9 DEF Timeout, MoveTo, AfterFailure, CallOps
    <2>2. UNCHANGED envelope BY <1>9 DEF Timeout, storageVars, queueVars
    <2>3. pc' # "list" => Justified(pc, job)' BY <1>3, <2>1, <2>2 DEF Justified, Committed, Fresh
    <2>4. serving' = serving \/ (serving # Idle /\ serving'.call = serving.call)
        BY <1>9, ServedCall DEF Timeout, Services
    <2>5. \A c \in late' : c \in late \/ c = [op |-> pc, job |-> job] BY <1>9 DEF Timeout
    <2> QED BY <1>1, <1>2, <2>1, <2>3, <2>4, <2>5, WorkKept
<1>10. CASE BeginWorkerCall
    <2>1. /\ pc # "list" /\ UNCHANGED <<workerVars, late>>
          /\ serving'.call = [op |-> pc, job |-> job]
        BY <1>10 DEF BeginWorkerCall, Begin, CallOps
    <2> QED BY <1>1, <1>2, <2>1, WorkKept DEF workerVars
<1>11. CASE BeginLateCall
    <2>1. UNCHANGED workerVars /\ late' \subseteq late /\ serving'.call \in late
        BY <1>11 DEF BeginLateCall, Begin
    <2> QED BY <1>1, <1>2, <2>1, WorkKept DEF workerVars
<1>12. CASE Submit \/ AskRoute \/ AskForwarding \/ AskMailboxDelete
    <2>1. UNCHANGED <<workerVars, late>> /\ serving'.call.op \notin CallOps
        BY <1>12 DEF Submit, AskRoute, AskForwarding, AskMailboxDelete, Begin, CallOps
    <2> QED BY <1>1, <1>2, <2>1, WorkKept DEF workerVars
<1>13. CASE Ask
    <2>1. UNCHANGED <<workerVars, late>> /\ serving # Idle /\ serving'.call = serving.call
        BY <1>13, ServedCall DEF Ask, Services
    <2> QED BY <1>1, <1>2, <2>1, WorkKept DEF workerVars
<1>14. CASE CommitWorkerCall
    <2>1. serving # Idle /\ serving' = Idle /\ late' = late /\ envelope' = envelope
        BY <1>14, WorkerCommit
    <2>2. PICK ok \in BOOLEAN :
            /\ serving.call.op = "deliver" => Deliver(serving.call.job, serving.alive, ok)
            /\ IF serving.answer = "worker" THEN Answer(serving.call.op, ok) ELSE UNCHANGED workerVars
        BY <1>14, WorkerCommit
    <2>3. CASE serving.answer # "worker"
        BY <1>1, <1>2, <2>1, <2>2, <2>3, WorkKept DEF workerVars
    <2>4. CASE serving.answer = "worker"
        <3>1. pc \in CallOps /\ serving.call.op = pc /\ serving.call.job = job
            BY <2>1, <2>4 DEF TypeInv, WorkerIsServed
        <3>2. Justified(pc, job) /\ job \in Jobs BY <1>3, <3>1 DEF CallOps
        <3>3. \/ pc' = "list"
              \/ job' = job /\ pc' = "retry"
              \/ job' = job /\ pc = "resolve" /\ pc' = "deliver"
              \/ job' = job /\ pc = "deliver" /\ pc' = "finish" /\ ok
            BY <2>2, <2>4, <3>1 DEF Answer, MoveTo, AfterSuccess, AfterFailure, CallOps
        <3>4. pc = "deliver" /\ ok => IsLocal(job) /\ Destination(job) \in Mailboxes
                                     /\ <<Destination(job), job>> \in receipts'
            BY <2>2, <3>1, <3>2 DEF Deliver, Justified, TypeInv, DeliverHasInbox
        <3>5. pc' # "list" => Justified(pc, job)'
            BY <2>1, <3>2, <3>3, <3>4
            DEF Justified, Committed, Fresh, IsLocal, Earned, AlreadyReceived, Destination
        <3> QED BY <1>1, <1>2, <2>1, <3>5, WorkKept
    <2> QED BY <2>3, <2>4
<1>15. CASE CommitEnqueue \/ CommitRoute \/ CommitForwarding \/ CommitMailboxDelete \/ RefuseClient
    <2>1. UNCHANGED <<workerVars, late>> /\ serving' = Idle
        BY <1>15 DEF CommitEnqueue, CommitRoute, CommitForwarding, CommitMailboxDelete, RefuseClient
    <2> QED BY <1>1, <1>2, <2>1, WorkKept DEF workerVars
<1>16. CASE Abort
    <2>1. UNCHANGED <<envelope, late>> /\ serving # Idle /\ serving' = Idle
        BY <1>16 DEF Abort, storageVars, queueVars
    <2>2. CASE serving.answer # "worker"
        BY <1>1, <1>2, <1>16, <2>1, <2>2, WorkKept DEF Abort, workerVars
    <2>3. CASE serving.answer = "worker"
        <3>1. pc \in CallOps /\ serving.call.op = pc
            BY <2>1, <2>3 DEF TypeInv, WorkerIsServed
        <3>2. pc' = "list" \/ (job' = job /\ pc' = "retry" /\ Committed(job))
            BY <1>3, <1>16, <2>3, <3>1 DEF Abort, Answer, MoveTo, AfterFailure, Justified, CallOps
        <3>3. pc' # "list" => Justified(pc, job)' BY <2>1, <3>2 DEF Justified, Committed, Fresh
        <3> QED BY <1>1, <1>2, <2>1, <3>3, WorkKept
    <2> QED BY <2>2, <2>3
<1>17. CASE AccountStep \/ RemoveRule \/ DiscardMail \/ DueAgain \/ GrowOld
    <2>1. UNCHANGED <<workerVars, late, serving>>
        BY <1>17 DEF AccountStep, RemoveRule, DiscardMail, DueAgain, GrowOld
    <2> QED BY <1>1, <1>2, <2>1, WorkKept DEF workerVars
<1>18. CASE Restart
    <2>1. pc' = "list" /\ late' = {} /\ serving' = Idle BY <1>18 DEF Restart
    <2> QED BY <1>1, <1>2, <2>1, WorkKept
<1> QED BY <1>5, <1>6, <1>7, <1>8, <1>9, <1>10, <1>11, <1>12, <1>13, <1>14, <1>15, <1>16, <1>17, <1>18
        DEF Next

(* Envelopes and the request to fill one stay well formed. *)
LEMMA NextRoutes ==
    ASSUME TypeInv, RoutesAreGood, [Next]_vars
    PROVE  RoutesAreGood'
<1>1. CASE CommitEnqueue
    <2>1. PICK s \in Submissions : Enqueue(serving.call, s, serving.alive)
        BY <1>1 DEF CommitEnqueue
    <2>2. GoodRoutes(serving.call.routes) /\ serving' = Idle
        BY <1>1 DEF CommitEnqueue, Answered, RoutesAreGood
    <2>3. \A t \in Submissions : envelope'[t].routes \in {envelope[t].routes, serving.call.routes}
        BY <2>1 DEF Enqueue, TypeInv, TypeOK, StorageTypeOK
    <2> QED BY <2>2, <2>3 DEF RoutesAreGood, GoodRoutes
<1>2. CASE Submit
    <2>1. PICK sender \in Senders \cup {NoOne}, user \in Mailboxes \cup {NoOne} :
          \E request \in IF user = NoOne THEN {NoOne} ELSE Requests \cup {NoOne} :
          \E routes \in Routings(user) :
            Begin([op |-> "enqueue", sender |-> sender, user |-> user,
                   request |-> request, routes |-> routes], "client")
        BY <1>2 DEF Submit
    <2>2. PICK request \in IF user = NoOne THEN {NoOne} ELSE Requests \cup {NoOne},
               routes \in Routings(user) :
            Begin([op |-> "enqueue", sender |-> sender, user |-> user,
                   request |-> request, routes |-> routes], "client")
        BY <2>1
    <2>3. /\ serving'.call.routes = routes /\ serving'.call.user = user
          /\ serving'.call.request = request
        BY <2>2 DEF Begin
    <2>4. \A r \in Recipients : routes[r] # NoOne =>
            IF r \in Remotes THEN routes[r] = r ELSE <<r, routes[r]>> \in handed
        BY <2>2 DEF Routings, Addressed
    <2>5. GoodRoutes(routes) /\ Addressed(routes) # {}
        <3>1. Addressed(routes) # {} BY <2>2 DEF Routings
        <3>2. \A r, u : <<r, u>> \in handed => u \in Mailboxes
            BY DEF TypeInv, TypeOK, DeliveryTypeOK
        <3>3. \A r \in Remotes : routes[r] \in {r, NoOne} BY <2>4 DEF Recipients
        <3>4. \A r \in LocalAddresses : routes[r] \in Mailboxes \cup {NoOne}
            BY <2>4, <3>2, LocalIsNotRemote
        <3> QED BY <3>1, <3>3, <3>4 DEF GoodRoutes
    <2>6. user = NoOne => request = NoOne BY <2>2
    <2> QED BY <1>2, <2>3, <2>5, <2>6 DEF Submit, RoutesAreGood, storageVars, queueVars
<1>3. CASE ~CommitEnqueue /\ ~Submit
    <2>1. envelope' = envelope
        <3>1. CASE CommitWorkerCall BY <3>1, WorkerCommit
        <3>2. CASE ~CommitWorkerCall
            BY <1>3, <3>2 DEF Next, vars, TakeJob, Scan, Transfer, Timeout, BeginWorkerCall,
               BeginLateCall, AskRoute, AskForwarding, AskMailboxDelete, Ask, CommitRoute,
               CommitForwarding, ForwardingCreate, CommitMailboxDelete, MailboxDelete, RefuseClient,
               Abort, AccountStep, RemoveRule, ForwardingDelete, DiscardMail, DeleteMail, DueAgain,
               GrowOld, Restart, storageVars, queueVars
        <3> QED BY <3>1, <3>2
    <2>2. \/ serving' = Idle
          \/ serving # Idle /\ serving'.call = serving.call
          \/ serving'.call.op # "enqueue"
        <3>1. serving # Idle => serving \in Services BY ServedCall
        <3>2. \A c \in late : c.op # "enqueue"
            BY DEF TypeInv, TypeOK, DeliveryTypeOK, WorkerCalls, CallOps
        <3>3. pc # "enqueue" BY DEF TypeInv, TypeOK, DeliveryTypeOK, CallOps
        <3>4. CASE BeginWorkerCall \/ BeginLateCall \/ AskRoute \/ AskForwarding \/ AskMailboxDelete
            BY <3>2, <3>3, <3>4 DEF BeginWorkerCall, BeginLateCall, AskRoute, AskForwarding,
               AskMailboxDelete, Begin
        <3>5. CASE Ask BY <3>1, <3>5 DEF Ask, Services
        <3>6. CASE Timeout BY <3>1, <3>6 DEF Timeout, Services
        <3>7. serving' \in {serving, Idle} \/ BeginWorkerCall \/ BeginLateCall \/ AskRoute
              \/ AskForwarding \/ AskMailboxDelete \/ Ask \/ Timeout
            BY <1>3 DEF Next, vars, TakeJob, Scan, Transfer, CommitWorkerCall, CommitRoute,
               CommitForwarding, CommitMailboxDelete, RefuseClient, Abort, AccountStep, RemoveRule,
               DiscardMail, DueAgain, GrowOld, Restart
        <3> QED BY <3>4, <3>5, <3>6, <3>7
    <2> QED BY <2>1, <2>2 DEF RoutesAreGood
<1> QED BY <1>1, <1>2, <1>3

-----------------------------------------------------------------------------
(* What storage records *)

(* Steps that change no row that RecordsAreTrue speaks of, but may forget or
   store mail of committed submissions.                                      *)
LEMMA RecordsKept ==
    ASSUME TypeInv, RecordsAreTrue,
           UNCHANGED <<queue, status, envelope, receipts, subReceipts, inserted>>,
           \A j \in due' : queue[j] = "pending",
           \A m \in mail' \ mail : m.box = "Inbox" => ~Fresh(m.sub),
           transferred \subseteq transferred',
           \A j \in transferred' \ transferred : Committed(j)
    PROVE  RecordsAreTrue'
<1>1. \A j : (Committed(j)' <=> Committed(j)) /\ Destination(j)' = Destination(j)
    BY DEF Committed, Fresh, Destination
<1>2. \A s : Fresh(s)' <=> Fresh(s) BY DEF Fresh
<1>3. RowsAreCommitted'
    <2>1. \A j \in transferred' \ transferred : ~Fresh(j[1]) BY DEF Committed
    <2> QED BY <1>1, <1>2, <2>1 DEF RecordsAreTrue, RowsAreCommitted
<1>4. ReceiptsAreTrue' BY <1>1 DEF RecordsAreTrue, ReceiptsAreTrue
<1>5. \A j \in Jobs : Arrived(j) => Arrived(j)' BY <1>1 DEF Arrived, IsLocal
<1> QED BY <1>1, <1>3, <1>4, <1>5 DEF RecordsAreTrue, StatusMatchesQueue

(* deliver: the copy, its receipts and its count are written together. *)
LEMMA DeliverRecords ==
    ASSUME TypeInv, CopiesHaveReceipts, RecordsAreTrue, NEW j \in Jobs, NEW alive, NEW ok \in BOOLEAN,
           Committed(j), Destination(j) \in Mailboxes, Deliver(j, alive, ok),
           UNCHANGED transferred
    PROVE  RecordsAreTrue'
<1> DEFINE u == Destination(j)
           d == <<u, j[1]>>
<1>1. UNCHANGED <<queue, status, envelope, due>> BY DEF Deliver, storageVars, queueVars
<1>2. CASE UNCHANGED storageVars
    BY <1>2, RecordsKept DEF storageVars, queueVars, mailVars, RecordsAreTrue, RowsAreCommitted
<1>3. CASE ~UNCHANGED storageVars
    <2>1. ok /\ receipts' = receipts \cup {<<u, j>>} BY <1>3 DEF Deliver
    <2>2. d \in Mailboxes \X Submissions /\ inserted \in [Mailboxes \X Submissions -> Nat]
        BY DEF Jobs, TypeInv, TypeOK, StorageTypeOK
    <2>3. \A k : (Committed(k)' <=> Committed(k)) /\ Destination(k)' = Destination(k)
        BY <1>1 DEF Committed, Fresh, Destination
    <2>4. \A s : Fresh(s)' <=> Fresh(s) BY <1>1 DEF Fresh
    <2>5. ~Fresh(j[1]) BY DEF Committed
    <2>6. /\ \A e \in Mailboxes \X Submissions : e # d => inserted'[e] = inserted[e]
          /\ inserted[d] = 1 => inserted'[d] = 1
          /\ \A e \in subReceipts' : e \in subReceipts \/ e = d
          /\ d \in subReceipts' \/ UNCHANGED <<inserted, subReceipts>>
          /\ d \in subReceipts' \ subReceipts => inserted'[d] = 1
          /\ queue[j] = "absent" \/ inserted'[d] = 1
          /\ \A m \in mail' \ mail : m.sub = j[1]
        <3>1. CASE AlreadyReceived(u, j)
            <4>1. UNCHANGED <<mail, inserted, subReceipts>> BY <2>1, <3>1 DEF Deliver
            <4>2. d \in subReceipts \/ <<u, j>> \in receipts BY <3>1 DEF AlreadyReceived
            <4>3. queue[j] = "absent" \/ inserted[d] = 1
                BY <4>2 DEF RecordsAreTrue, ReceiptsAreTrue
            <4> QED BY <4>1, <4>3
        <3>2. CASE ~AlreadyReceived(u, j)
            <4>1. /\ d \notin subReceipts
                  /\ inserted' = [inserted EXCEPT ![d] = @ + 1]
                  /\ subReceipts' = subReceipts \cup {d}
                  /\ mail' = mail \cup {Letter(u, j[1], "Inbox")}
                BY <2>1, <3>2 DEF Deliver, Insert, AlreadyReceived
            <4>2. inserted[d] \in Nat /\ inserted[d] <= 1 /\ inserted[d] # 1
                BY <2>2, <4>1 DEF CopiesHaveReceipts
            <4>3. inserted[d] = 0 BY <4>2
            <4>4. inserted'[d] = 1 BY <2>2, <4>1, <4>3
            <4>5. Letter(u, j[1], "Inbox").sub = j[1] BY DEF Letter
            <4> QED BY <2>2, <4>1, <4>3, <4>4, <4>5
        <3> QED BY <3>1, <3>2
    <2>7. RowsAreCommitted'
        <3>1. \A v \in Mailboxes, s \in Submissions : Fresh(s) => inserted'[<<v, s>>] = 0
            BY <2>5, <2>6 DEF RecordsAreTrue, RowsAreCommitted
        <3>2. \A m \in mail' : m.box = "Inbox" => ~Fresh(m.sub)
            BY <2>5, <2>6 DEF RecordsAreTrue, RowsAreCommitted
        <3> QED BY <1>1, <2>3, <2>4, <3>1, <3>2 DEF RecordsAreTrue, RowsAreCommitted
    <2>8. \A e \in Mailboxes \X Submissions : inserted[e] = 1 => inserted'[e] = 1 BY <2>6
    <2>9. ReceiptsAreTrue'
        <3>1. \A e \in subReceipts : e \in Mailboxes \X Submissions
            BY DEF TypeInv, TypeOK, StorageTypeOK
        <3>2. \A r \in receipts : <<r[1], r[2][1]>> \in Mailboxes \X Submissions
            BY DEF TypeInv, TypeOK, StorageTypeOK, Jobs
        <3>3. \A e \in subReceipts' : inserted'[e] = 1
            BY <2>6, <2>8, <3>1 DEF RecordsAreTrue, ReceiptsAreTrue
        <3>4. \A r \in receipts' :
                Committed(r[2]) /\ (queue[r[2]] = "absent" \/ inserted'[<<r[1], r[2][1]>>] = 1)
            <4>1. ASSUME NEW r \in receipts
                  PROVE  Committed(r[2]) /\ (queue[r[2]] = "absent" \/ inserted'[<<r[1], r[2][1]>>] = 1)
                BY <2>8, <3>2 DEF RecordsAreTrue, ReceiptsAreTrue
            <4>2. ASSUME NEW r, r = <<u, j>>
                  PROVE  Committed(r[2]) /\ (queue[r[2]] = "absent" \/ inserted'[<<r[1], r[2][1]>>] = 1)
                <5>1. r[1] = u /\ r[2] = j BY <4>2
                <5> QED BY <2>6, <5>1
            <4> QED BY <2>1, <4>1, <4>2
        <3> QED BY <1>1, <2>3, <3>3, <3>4 DEF ReceiptsAreTrue
    <2>10. \A k \in Jobs : Arrived(k) => Arrived(k)'
        BY <2>3, <2>8 DEF Arrived, IsLocal, Jobs
    <2> QED BY <1>1, <2>3, <2>7, <2>9, <2>10 DEF RecordsAreTrue, StatusMatchesQueue
<1> QED BY <1>2, <1>3

(* A receipt of a queued job means that its copy is stored. *)
LEMMA EarnedArrives ==
    ASSUME TypeInv, RecordsAreTrue, NEW j \in Jobs, Earned(j), queue[j] # "absent"
    PROVE  Arrived(j)
<1>1. CASE IsLocal(j)
    <2>1. Destination(j) \in Mailboxes /\ AlreadyReceived(Destination(j), j)
        BY <1>1 DEF Earned
    <2>2. inserted[<<Destination(j), j[1]>>] = 1
        BY <2>1 DEF AlreadyReceived, RecordsAreTrue, ReceiptsAreTrue
    <2> QED BY <1>1, <2>1, <2>2 DEF Arrived
<1>2. CASE ~IsLocal(j) BY <1>2 DEF Earned, Arrived
<1> QED BY <1>1, <1>2

(* A change of queue and status alone. *)
LEMMA StatusChange ==
    ASSUME TypeInv, RecordsAreTrue,
           UNCHANGED <<envelope, receipts, subReceipts, inserted, transferred>>,
           mail' \subseteq mail,
           \A k \in Jobs : queue'[k] # "absent" => queue[k] # "absent",
           \A k \in due' : queue'[k] = "pending",
           \A k \in Jobs : status[k] = "none" => status'[k] = "none",
           \A k \in Jobs : status'[k] = "delivered" => status[k] = "delivered" \/ (Arrived(k) /\ Committed(k)),
           StatusMatchesQueue'
    PROVE  RecordsAreTrue'
<1>1. \A k : (Committed(k)' <=> Committed(k)) /\ (Arrived(k)' <=> Arrived(k))
    BY DEF Committed, Fresh, Destination, Arrived, IsLocal
<1>2. \A s : Fresh(s)' <=> Fresh(s) BY DEF Fresh
<1>3. RowsAreCommitted' BY <1>1, <1>2 DEF RecordsAreTrue, RowsAreCommitted
<1>4. ReceiptsAreTrue'
    <2>1. \A r \in receipts : r[2] \in Jobs BY DEF TypeInv, TypeOK, StorageTypeOK
    <2> QED BY <1>1, <2>1 DEF RecordsAreTrue, ReceiptsAreTrue
<1> QED BY <1>1, <1>3, <1>4 DEF RecordsAreTrue

(* queue_finish, queue_retry and queue_reject, late or not. *)
LEMMA QueueOpsRecords ==
    ASSUME TypeInv, RecordsAreTrue, NEW j \in Jobs, Committed(j), UNCHANGED transferred,
           NEW ok \in BOOLEAN, NEW state \in {"rejected", "failed"},
           (FinishQueue(j) /\ Earned(j)) \/ RetryQueue(j, ok) \/ RejectQueue(j, state, ok)
    PROVE  RecordsAreTrue'
<1>1. CASE UNCHANGED storageVars
    BY <1>1, RecordsKept DEF storageVars, queueVars, mailVars, RecordsAreTrue, RowsAreCommitted
<1>2. CASE ~UNCHANGED storageVars
    <2>1. PICK word \in {"delivered", "retrying", state} :
            /\ UNCHANGED <<envelope, mailVars>>
            /\ status' = RecordStatus({j}, word) /\ NotDue({j})
            /\ \/ word = "delivered" /\ Earned(j) /\ queue' = [queue EXCEPT ![j] = "absent"]
               \/ word = "retrying" /\ queue' = queue /\ queue[j] = "pending"
               \/ word = state /\ queue' = [queue EXCEPT ![j] = "quarantined"] /\ queue[j] = "pending"
        BY <1>2 DEF FinishQueue, FinishedStatus, RetryQueue, RejectQueue, StillPending
    <2>2. queue \in [Jobs -> {"absent", "pending", "quarantined"}]
        BY DEF TypeInv, TypeOK, StorageTypeOK
    <2>3. \A k \in Jobs : status'[k] = IF k = j /\ queue[j] # "absent" /\ status[j] # "none"
                                      THEN word ELSE status[k]
        BY <2>1 DEF RecordStatus
    <2>4. \A k \in Jobs : k # j => queue'[k] = queue[k] BY <2>1, <2>2
    <2>5. due' = due \ {j} /\ due \subseteq Jobs
        BY <2>1 DEF NotDue, TypeInv, TypeOK, StorageTypeOK
    <2>6. \A k \in due' : queue'[k] = "pending"
        BY <2>4, <2>5 DEF RecordsAreTrue, RowsAreCommitted
    <2>7. \A k \in Jobs : queue'[k] # "absent" => queue[k] # "absent" BY <2>1, <2>2
    <2>8. \A k \in Jobs : status'[k] = "delivered" => status[k] = "delivered" \/ (Arrived(k) /\ Committed(k))
        BY <2>1, <2>3, EarnedArrives
    <2>9. StatusMatchesQueue'
        <3>1. StatusMatchesQueue BY DEF RecordsAreTrue
        <3>2. ASSUME NEW k \in Jobs, k # j
              PROVE  queue'[k] = queue[k] /\ status'[k] = status[k]
            BY <2>3, <2>4, <3>2
        <3>3. \/ queue'[j] = "absent" /\ status'[j] \in {"none", "delivered", "failed"}
              \/ queue'[j] = "pending" /\ status'[j] \in {"none", "retrying"}
              \/ queue'[j] = "quarantined" /\ status'[j] \in {"none", "rejected", "failed"}
            BY <2>1, <2>2, <2>3, <3>1 DEF StatusMatchesQueue
        <3> QED BY <3>1, <3>2, <3>3 DEF StatusMatchesQueue
    <2>10. \A k \in Jobs : status[k] = "none" => status'[k] = "none" BY <2>3
    <2>11. mail' \subseteq mail /\ UNCHANGED <<envelope, receipts, subReceipts, inserted>>
        BY <2>1 DEF mailVars
    <2> QED BY <2>6, <2>7, <2>8, <2>9, <2>10, <2>11, StatusChange
<1> QED BY <1>1, <1>2

(* What mailbox_delete removes is marked failed, or forgotten with its sender;
   the receipts it leaves are of jobs that are gone.                          *)
LEMMA DeleteRecords ==
    ASSUME TypeInv, RecordsAreTrue, NEW u \in Mailboxes, NEW alive, MailboxDelete(u, alive),
           UNCHANGED transferred
    PROVE  RecordsAreTrue'
<1> DEFINE gone == JobsInvolving(u)
<1>1. \A k : (Committed(k)' <=> Committed(k)) /\ (Arrived(k)' <=> Arrived(k))
    BY DEF MailboxDelete, Committed, Fresh, Destination, Arrived, IsLocal
<1>2. \A s : Fresh(s)' <=> Fresh(s) BY DEF MailboxDelete, Fresh
<1>3. \A k \in Jobs : queue'[k] = IF k \in gone THEN "absent" ELSE queue[k]
    BY DEF MailboxDelete
<1>4. \A k \in gone : k \in Jobs /\ queue[k] # "absent" BY DEF JobsInvolving, Targets
<1>5. \A k \in Jobs : status'[k] \in {"none", status[k]} \/ (k \in gone /\ status'[k] = "failed")
    BY DEF MailboxDelete, RecordStatus
<1>6. \A k \in Jobs : k \in gone /\ status[k] # "none" => status'[k] \in {"none", "failed"}
    BY <1>4 DEF MailboxDelete, RecordStatus
<1>7. \A k \in Jobs : status[k] = "none" => status'[k] = "none"
    BY DEF MailboxDelete, RecordStatus
<1>8. due' = due \ gone /\ due \subseteq Jobs
    BY DEF MailboxDelete, NotDue, TypeInv, TypeOK, StorageTypeOK
<1>9. RowsAreCommitted'
    <2>1. UNCHANGED <<transferred, inserted>> /\ mail' \subseteq mail BY DEF MailboxDelete
    <2>2. \A k \in due' : queue'[k] = "pending"
        BY <1>3, <1>8 DEF RecordsAreTrue, RowsAreCommitted
    <2> QED BY <1>1, <1>2, <1>3, <1>7, <2>1, <2>2 DEF RecordsAreTrue, RowsAreCommitted
<1>10. ReceiptsAreTrue'
    <2>1. UNCHANGED <<inserted, subReceipts>> /\ receipts' = receipts \cup CleanupReceipts(u)
        BY DEF MailboxDelete
    <2>2. \A r \in receipts : r[2] \in Jobs BY DEF TypeInv, TypeOK, StorageTypeOK
    <2>3. \A r \in CleanupReceipts(u) : r[2] \in gone
        BY DEF CleanupReceipts, JobsInvolving
    <2>4. \A k \in gone : Committed(k) BY <1>4 DEF RecordsAreTrue, RowsAreCommitted
    <2> QED BY <1>1, <1>3, <1>4, <2>1, <2>2, <2>3, <2>4 DEF RecordsAreTrue, ReceiptsAreTrue
<1>11. StatusMatchesQueue'
    <2>1. StatusMatchesQueue BY DEF RecordsAreTrue
    <2> QED BY <1>3, <1>5, <1>6, <1>7, <2>1 DEF StatusMatchesQueue
<1> QED BY <1>1, <1>5, <1>9, <1>10, <1>11 DEF RecordsAreTrue

(* enqueue: all rows of the submission are new. *)
LEMMA EnqueueRecords ==
    ASSUME TypeInv, RecordsAreTrue, NEW c, EnqueueCall(c), NEW s \in Submissions, NEW alive,
           Enqueue(c, s, alive), GoodRoutes(c.routes), UNCHANGED transferred
    PROVE  RecordsAreTrue'
<1> DEFINE new == {s} \X Canonical(c.routes)
<1>1. /\ Fresh(s) /\ UNCHANGED <<receipts, subReceipts, inserted>>
      /\ due' = due \cup new
      /\ \A t \in Submissions : t # s => envelope'[t] = envelope[t]
      /\ envelope'[s].routes = c.routes
      /\ \A k \in Jobs : queue'[k] = IF k \in new THEN "pending" ELSE queue[k]
      /\ \A k \in Jobs : status'[k] = status[k] \/ (k \in new /\ status'[k] = "queued")
      /\ \A m \in mail' : m.box = "Inbox" => m \in mail
    <2>1. \A v : Letter(v, s, "Sent").box = "Sent" BY DEF Letter
    <2> QED BY <2>1 DEF Enqueue, BecomeDue, TypeInv, TypeOK, StorageTypeOK
<1>2. \A t \in Submissions : ~Fresh(t) => t # s /\ ~Fresh(t)' BY <1>1 DEF Fresh
<1>3. \A k \in Jobs : Committed(k) => Committed(k)' /\ Destination(k)' = Destination(k) /\ k[1] # s
    <2>1. ASSUME NEW k \in Jobs, Committed(k) PROVE k[1] \in Submissions /\ ~Fresh(k[1])
        BY <2>1 DEF Committed, Jobs
    <2> QED BY <1>1, <1>2, <2>1 DEF Committed, Destination
<1>4. \A k \in new : k \in Jobs /\ k[1] = s /\ Committed(k)'
    BY <1>1 DEF Canonical, Addressed, Jobs, Committed, Fresh
<1>5. \A k \in Jobs : k[1] = s => status[k] = "none" /\ queue[k] = "absent" /\ k \notin transferred
    BY <1>1 DEF RecordsAreTrue, RowsAreCommitted, Committed
<1>6. RowsAreCommitted'
    <2>1. \A k \in Jobs : queue'[k] # "absent" => Committed(k)'
        BY <1>1, <1>3, <1>4 DEF RecordsAreTrue, RowsAreCommitted
    <2>2. due \subseteq Jobs BY DEF TypeInv, TypeOK, StorageTypeOK
    <2>3. \A k \in due' : queue'[k] = "pending"
        BY <1>1, <1>4, <2>2 DEF RecordsAreTrue, RowsAreCommitted
    <2>4. \A k \in Jobs : Fresh(k[1])' => Fresh(k[1]) /\ k \notin new
        <3>1. \A k \in Jobs : k[1] \in Submissions BY DEF Jobs
        <3> QED BY <1>2, <1>4, <3>1 DEF Committed
    <2>5. \A k \in Jobs : Fresh(k[1])' => status'[k] = "none" /\ k \notin transferred'
        BY <1>1, <2>4 DEF RecordsAreTrue, RowsAreCommitted
    <2>6. \A v \in Mailboxes, t \in Submissions : Fresh(t)' => inserted'[<<v, t>>] = 0
        BY <1>1, <1>2 DEF RecordsAreTrue, RowsAreCommitted
    <2>7. \A m \in mail' : m.box = "Inbox" => ~Fresh(m.sub)'
        BY <1>1, <1>2 DEF RecordsAreTrue, RowsAreCommitted, TypeInv, TypeOK, StorageTypeOK, Letters
    <2> QED BY <2>1, <2>3, <2>5, <2>6, <2>7 DEF RowsAreCommitted
<1>7. ReceiptsAreTrue'
    <2>1. \A r \in receipts : r[2] \in Jobs BY DEF TypeInv, TypeOK, StorageTypeOK
    <2>2. \A r \in receipts : Committed(r[2]) /\ r[2] \notin new
        BY <1>3, <1>4, <2>1 DEF RecordsAreTrue, ReceiptsAreTrue
    <2> QED BY <1>1, <1>3, <2>1, <2>2 DEF RecordsAreTrue, ReceiptsAreTrue
<1>8. \A k \in Jobs : Committed(k) /\ Arrived(k) => Arrived(k)'
    BY <1>1, <1>3 DEF Arrived, IsLocal
<1>9. \A k \in Jobs : status'[k] = "delivered" => Committed(k)' /\ Arrived(k)'
    BY <1>1, <1>3, <1>8 DEF RecordsAreTrue
<1>10. StatusMatchesQueue'
    <2>1. StatusMatchesQueue BY DEF RecordsAreTrue
    <2> QED BY <1>1, <1>4, <1>5, <2>1 DEF StatusMatchesQueue
<1> QED BY <1>6, <1>7, <1>9, <1>10 DEF RecordsAreTrue

(* Every step keeps what storage records true. *)
LEMMA NextRecords ==
    ASSUME TypeInv, CopiesHaveReceipts, JourneyInv, [Next]_vars
    PROVE  RecordsAreTrue'
<1>1. RecordsAreTrue /\ WorkIsJustified /\ RoutesAreGood BY DEF JourneyInv
<1>2. \A j \in due : queue[j] = "pending" BY <1>1 DEF RecordsAreTrue, RowsAreCommitted
<1>3. CASE UNCHANGED <<storageVars, transferred>>
    BY <1>1, <1>2, <1>3, RecordsKept DEF storageVars, queueVars, mailVars
<1>4. CASE Transfer
    <2>1. Committed(job) BY <1>1, <1>4 DEF Transfer, WorkIsJustified, Justified
    <2>2. transferred' \in {transferred, transferred \cup {job}} BY <1>4 DEF Transfer
    <2> QED BY <1>1, <1>2, <1>4, <2>1, <2>2, RecordsKept DEF Transfer, storageVars, queueVars, mailVars
<1>5. CASE CommitWorkerCall
    <2> DEFINE j == serving.call.job
    <2>1. /\ serving # Idle /\ j \in Jobs /\ UNCHANGED transferred
          /\ serving.call.op = "deliver" => Destination(j) \in Mailboxes
        BY <1>5, WorkerCommit DEF TypeInv, DeliverHasInbox
    <2>2. serving.call.op \in CallOps BY <1>5 DEF CommitWorkerCall
    <2>3. Justified(serving.call.op, j) BY <1>1, <2>1, <2>2 DEF WorkIsJustified
    <2>4. PICK ok \in BOOLEAN, state \in {"rejected", "failed"} :
            \/ UNCHANGED storageVars
            \/ serving.call.op = "deliver" /\ Deliver(j, serving.alive, ok)
            \/ serving.call.op = "finish" /\ FinishQueue(j)
            \/ RetryQueue(j, ok) \/ RejectQueue(j, state, ok)
        BY <1>5, WorkerCommit
    <2>5. Committed(j) /\ (serving.call.op = "finish" => Earned(j)) BY <2>3 DEF Justified
    <2> HIDE DEF j
    <2> QED BY <1>1, <1>3, <2>1, <2>4, <2>5, DeliverRecords, QueueOpsRecords
<1>6. CASE CommitEnqueue
    <2>1. PICK s \in Submissions : Enqueue(serving.call, s, serving.alive)
        BY <1>6 DEF CommitEnqueue
    <2>2. serving # Idle /\ serving.call.op = "enqueue" /\ UNCHANGED transferred
        BY <1>6 DEF CommitEnqueue, Answered
    <2>3. EnqueueCall(serving.call) /\ GoodRoutes(serving.call.routes)
        BY <1>1, <2>2, ServedCall DEF RoutesAreGood
    <2> QED BY <1>1, <2>1, <2>2, <2>3, EnqueueRecords
<1>7. CASE CommitMailboxDelete
    <2>1. /\ serving.call.owner \in Mailboxes /\ UNCHANGED transferred
          /\ MailboxDelete(serving.call.owner, serving.alive)
        BY <1>7, ServedCall DEF CommitMailboxDelete, Answered
    <2> QED BY <1>1, <2>1, DeleteRecords
<1>8. CASE CommitForwarding \/ RemoveRule
    BY <1>1, <1>2, <1>8, RecordsKept
    DEF CommitForwarding, ForwardingCreate, RemoveRule, ForwardingDelete, queueVars, mailVars
<1>9. CASE DiscardMail
    BY <1>1, <1>2, <1>9, RecordsKept DEF DiscardMail, DeleteMail, queueVars
<1>10. CASE DueAgain
    <2>1. PICK j \in Jobs : queue[j] = "pending" /\ BecomeDue({j}) BY <1>10 DEF DueAgain
    <2>2. \A k \in due' : queue[k] = "pending" BY <1>2, <2>1 DEF BecomeDue
    <2> QED BY <1>1, <1>10, <2>2, RecordsKept DEF DueAgain, mailVars
<1>11. CASE Restart
    <2>1. /\ UNCHANGED <<queue, due, envelope, mailVars, transferred>>
          /\ \A k \in Jobs : status'[k] = status[k] \/ (queue[k] = "absent" /\ status'[k] = "failed"
                                                       /\ status[k] # "none")
        BY <1>11 DEF Restart
    <2>2. StatusMatchesQueue' BY <1>1, <2>1 DEF RecordsAreTrue, StatusMatchesQueue
    <2> QED BY <1>1, <1>2, <2>1, <2>2, StatusChange DEF mailVars
<1>12. CASE UNCHANGED vars \/ TakeJob \/ Scan \/ Timeout \/ BeginWorkerCall \/ BeginLateCall \/ Submit
            \/ AskRoute \/ AskForwarding \/ AskMailboxDelete \/ Ask \/ CommitRoute \/ RefuseClient
            \/ Abort \/ AccountStep \/ GrowOld
    BY <1>3, <1>12 DEF vars, TakeJob, Scan, Timeout, BeginWorkerCall, BeginLateCall, Submit, AskRoute,
       AskForwarding, AskMailboxDelete, Ask, CommitRoute, RefuseClient, Abort, AccountStep, GrowOld
<1> QED BY <1>4, <1>5, <1>6, <1>7, <1>8, <1>9, <1>10, <1>11, <1>12 DEF Next

LEMMA InitJourney == Init => JourneyInv
<1> SUFFICES ASSUME Init PROVE JourneyInv OBVIOUS
<1>1. \A s \in Submissions : envelope[s] = Unsent /\ Fresh(s) /\ GoodRoutes(envelope[s].routes)
    BY DEF Init, StorageInit, Fresh, Addressed, Unsent, GoodRoutes, Recipients, LocalAddresses
<1>2. WorkIsJustified /\ RoutesAreGood BY <1>1 DEF Init, WorkIsJustified, RoutesAreGood
<1>3. RecordsAreTrue
    BY <1>1 DEF Init, StorageInit, RecordsAreTrue, RowsAreCommitted, ReceiptsAreTrue, StatusMatchesQueue
<1> QED BY <1>2, <1>3 DEF JourneyInv

LEMMA NextJourney == TypeInv /\ CopiesHaveReceipts /\ JourneyInv /\ [Next]_vars => JourneyInv'
<1> SUFFICES ASSUME TypeInv, CopiesHaveReceipts, JourneyInv, [Next]_vars PROVE JourneyInv' OBVIOUS
<1>1. RoutesAreGood BY DEF JourneyInv
<1> QED BY <1>1, NextWork, NextRoutes, NextRecords DEF JourneyInv

(* What the proofs below may rely on in every reachable state. *)
MailInv == TypeInv /\ CopiesHaveReceipts /\ OwnersInv /\ JourneyInv

LEMMA MailInvHolds == Spec => []MailInv
<1>1. Init => CopiesHaveReceipts BY DEF Init, StorageInit, CopiesHaveReceipts
<1>2. Init => OwnersInv
    BY DEF Init, AccountsInit, StorageInit, OwnersInv, QueueTargetsHaveOwners, RuleTargetsHaveOwners
<1>3. Init => MailInv BY <1>1, <1>2, InitType, InitJourney DEF MailInv
<1>4. MailInv /\ [Next]_vars => MailInv' BY NextType, NextCopies, NextOwners, NextJourney DEF MailInv
<1> QED BY <1>3, <1>4, PTL DEF Spec

(* A sender who reads "delivered" is told the truth, and the status agrees with
   the queue, however late a retry, a reject or a finish of an earlier attempt
   arrives, and also when mailboxes are deleted under way.                     *)
THEOREM StatusStaysTrue == Spec => []StatusIsTrue
<1>1. MailInv => StatusIsTrue
    <2>1. SUFFICES ASSUME MailInv PROVE StatusIsTrue OBVIOUS
    <2>2. RecordsAreTrue BY <2>1 DEF MailInv, JourneyInv
    <2>3. \A j \in Jobs : Arrived(j) => Completed(j) BY DEF Arrived, Completed
    <2> QED BY <2>2, <2>3 DEF RecordsAreTrue, StatusIsTrue, DeliveredIsTrue
<1> QED BY <1>1, MailInvHolds, PTL

-----------------------------------------------------------------------------
(* MailDelivery implements DeliveryContract, step by step. *)

(* Recipients that share an inbox share one job, and there is such a job. *)
LEMMA OneCanonical ==
    ASSUME NEW routes, NEW q \in Canonical(routes), NEW r \in Canonical(routes), routes[q] = routes[r]
    PROVE  q = r
BY DEF Canonical

LEMMA SomeCanonical ==
    ASSUME NEW routes, Addressed(routes) # {}
    PROVE  Canonical(routes) # {}
<1>1. PICK r \in Addressed(routes) : TRUE OBVIOUS
<1> DEFINE q == CHOOSE p \in Addressed(routes) : routes[p] = routes[r]
<1>2. q \in Addressed(routes) /\ routes[q] = routes[r] BY <1>1
<1>3. q = CHOOSE p \in Addressed(routes) : routes[p] = routes[q] BY <1>2
<1>4. q \in Canonical(routes) BY <1>2, <1>3 DEF Canonical
<1> QED BY <1>4

LEMMA BarsKept ==
    ASSUME UNCHANGED envelope
    PROVE  /\ partiesBar' = partiesBar
           /\ queue' = queue => phaseBar' = phaseBar
           /\ UNCHANGED <<inserted, transferred>> => copiesBar' = copiesBar
<1>1. \A j : (Committed(j)' <=> Committed(j)) /\ Destination(j)' = Destination(j) /\ Parties(j)' = Parties(j)
    BY DEF Committed, Fresh, Destination, Parties
<1>2. partiesBar' = partiesBar BY <1>1 DEF partiesBar
<1>3. queue' = queue => phaseBar' = phaseBar BY <1>1 DEF phaseBar
<1>4. UNCHANGED <<inserted, transferred>> => copiesBar' = copiesBar BY <1>1 DEF copiesBar, IsLocal
<1> QED BY <1>2, <1>3, <1>4

(* deliver: the parcel arrives, unless it has arrived before. *)
LEMMA DeliverArrives ==
    ASSUME MailInv, NEW j \in Jobs, NEW alive, NEW ok \in BOOLEAN,
           Committed(j), IsLocal(j), Destination(j) \in Mailboxes, Deliver(j, alive, ok),
           UNCHANGED transferred
    PROVE  [Contract!ContractNext]_(Contract!contractVars)
<1> DEFINE u == Destination(j)
           d == <<u, j[1]>>
<1>1. UNCHANGED <<queue, envelope>> BY DEF Deliver, storageVars, queueVars
<1>2. partiesBar' = partiesBar /\ phaseBar' = phaseBar BY <1>1, BarsKept
<1>3. CASE inserted' = inserted
    BY <1>1, <1>2, <1>3, BarsKept DEF Contract!contractVars
<1>4. CASE inserted' # inserted
    <2>1. /\ d \notin subReceipts
          /\ inserted' = [inserted EXCEPT ![d] = @ + 1]
        BY <1>4 DEF Deliver, Insert, AlreadyReceived, storageVars, mailVars
    <2>2. d \in Mailboxes \X Submissions /\ inserted \in [Mailboxes \X Submissions -> Nat]
        BY DEF Jobs, MailInv, TypeInv, TypeOK, StorageTypeOK
    <2>3. inserted[d] \in Nat /\ inserted[d] <= 1 /\ inserted[d] # 1
        BY <2>1, <2>2 DEF MailInv, CopiesHaveReceipts
    <2>4. inserted[d] = 0 BY <2>3
    <2>5. inserted'[d] = 1 /\ \A e \in Mailboxes \X Submissions : e # d => inserted'[e] = inserted[e]
        BY <2>1, <2>2, <2>4
    <2>6. phaseBar[j] # "new" /\ copiesBar[j] = 0
        BY <2>4 DEF phaseBar, copiesBar
    <2>7. \A k \in Jobs : Committed(k) /\ IsLocal(k) /\ k # j
            => <<Destination(k), k[1]>> \in Mailboxes \X Submissions \ {d}
        <3>1. SUFFICES ASSUME NEW k \in Jobs, Committed(k), IsLocal(k), k # j
                       PROVE  <<Destination(k), k[1]>> \in Mailboxes \X Submissions \ {d}
            OBVIOUS
        <3>2. k[1] \in Submissions /\ k[2] \in Recipients /\ k = <<k[1], k[2]>> /\ j = <<j[1], j[2]>>
            BY DEF Jobs
        <3>3. k[2] \in Canonical(envelope[k[1]].routes) /\ j[2] \in Canonical(envelope[j[1]].routes)
            BY <3>1 DEF Committed
        <3>4. Destination(k) # NoOne BY <3>3 DEF Canonical, Addressed, Destination
        <3>5. Destination(k) \in Mailboxes
            BY <3>1, <3>2, <3>4 DEF MailInv, JourneyInv, RoutesAreGood, GoodRoutes, Destination, IsLocal
        <3>6. k[1] = j[1] => Destination(k) # u
            BY <3>1, <3>2, <3>3, OneCanonical DEF Destination
        <3> QED BY <3>2, <3>5, <3>6
    <2>8. \A k \in Jobs : copiesBar'[k] = IF k = j THEN 1 ELSE copiesBar[k]
        <3>1. \A k : (Committed(k)' <=> Committed(k)) /\ Destination(k)' = Destination(k)
            BY <1>1 DEF Committed, Fresh, Destination
        <3> QED BY <2>5, <2>7, <3>1 DEF copiesBar, IsLocal
    <2>9. copiesBar' = [copiesBar EXCEPT ![j] = 1] BY <2>8 DEF copiesBar
    <2>10. Contract!Arrive(j) BY <1>2, <2>6, <2>9 DEF Contract!Arrive
    <2> QED BY <2>10 DEF Contract!ContractNext
<1> QED BY <1>3, <1>4

(* Finishing, quarantining and retrying a job. *)
LEMMA QueueOpsRefine ==
    ASSUME MailInv, NEW j \in Jobs, Committed(j), UNCHANGED transferred,
           NEW ok \in BOOLEAN, NEW state \in {"rejected", "failed"},
           (FinishQueue(j) /\ Earned(j)) \/ RetryQueue(j, ok) \/ RejectQueue(j, state, ok)
    PROVE  [Contract!ContractNext]_(Contract!contractVars)
<1>1. UNCHANGED <<envelope, inserted>>
    BY DEF FinishQueue, RetryQueue, RejectQueue, storageVars, queueVars, mailVars
<1>2. partiesBar' = partiesBar /\ copiesBar' = copiesBar BY <1>1, BarsKept
<1>3. CASE queue' = queue BY <1>1, <1>2, <1>3, BarsKept DEF Contract!contractVars
<1>4. \A k : Committed(k)' <=> Committed(k) BY <1>1 DEF Committed, Fresh
<1>5. queue \in [Jobs -> {"absent", "pending", "quarantined"}]
    BY DEF MailInv, TypeInv, TypeOK, StorageTypeOK
<1>6. CASE queue' # queue /\ FinishQueue(j)
    <2>1. queue' = [queue EXCEPT ![j] = "absent"] /\ queue[j] # "absent" /\ Earned(j)
        BY <1>5, <1>6 DEF FinishQueue, RetryQueue, RejectQueue, storageVars, queueVars
    <2>2. Arrived(j) BY <2>1, EarnedArrives DEF MailInv, JourneyInv
    <2>3. copiesBar[j] = 1 /\ phaseBar[j] \in {"waiting", "held"}
        BY <1>5, <2>1, <2>2 DEF copiesBar, phaseBar, Arrived
    <2>4. phaseBar' = [phaseBar EXCEPT ![j] = "gone"]
        BY <1>4, <1>5, <2>1 DEF phaseBar
    <2>5. Contract!Settle(j) BY <1>2, <2>3, <2>4 DEF Contract!Settle
    <2> QED BY <2>5 DEF Contract!ContractNext
<1>7. CASE queue' # queue /\ ~FinishQueue(j)
    <2>1. queue' = [queue EXCEPT ![j] = "quarantined"] /\ queue[j] = "pending"
        BY <1>7 DEF RetryQueue, RejectQueue, StillPending, storageVars, queueVars
    <2>2. phaseBar[j] = "waiting" /\ phaseBar' = [phaseBar EXCEPT ![j] = "held"]
        BY <1>4, <1>5, <2>1 DEF phaseBar
    <2>3. Contract!Hold(j) BY <1>2, <2>2 DEF Contract!Hold
    <2> QED BY <2>3 DEF Contract!ContractNext
<1> QED BY <1>3, <1>6, <1>7

(* enqueue accepts a batch of new parcels. *)
LEMMA EnqueueRefines ==
    ASSUME MailInv, NEW c, EnqueueCall(c), NEW s \in Submissions, NEW alive,
           Enqueue(c, s, alive), GoodRoutes(c.routes), Addressed(c.routes) # {},
           UNCHANGED transferred
    PROVE  [Contract!ContractNext]_(Contract!contractVars)
<1> DEFINE new == {s} \X Canonical(c.routes)
<1>1. /\ Fresh(s) /\ inserted' = inserted
      /\ \A t \in Submissions : t # s => envelope'[t] = envelope[t]
      /\ envelope'[s].routes = c.routes
      /\ \A k \in Jobs : queue'[k] = IF k \in new THEN "pending" ELSE queue[k]
    BY DEF Enqueue, MailInv, TypeInv, TypeOK, StorageTypeOK
<1>2. RowsAreCommitted BY DEF MailInv, JourneyInv, RecordsAreTrue
<1>3. \A k \in Jobs : k[1] = s => ~Committed(k) /\ queue[k] = "absent" /\ k \notin transferred
    BY <1>1, <1>2 DEF RowsAreCommitted, Committed
<1>4. ~Fresh(s)' BY <1>1 DEF Fresh
<1>5. \A k \in Jobs : k[1] = s => (Committed(k)' <=> k \in new)
    <2>1. \A k \in Jobs : k = <<k[1], k[2]>> BY DEF Jobs
    <2>2. \A k \in Jobs : k[1] = s => (Committed(k)' <=> k[2] \in Canonical(c.routes))
        BY <1>1, <1>4 DEF Committed
    <2> QED BY <2>1, <2>2
<1>6. \A k \in Jobs : k[1] # s
        => /\ Committed(k)' <=> Committed(k)
           /\ Destination(k)' = Destination(k) /\ Parties(k)' = Parties(k) /\ k \notin new
    <2>1. \A k \in Jobs : k[1] \in Submissions BY DEF Jobs
    <2> QED BY <1>1, <2>1 DEF Committed, Fresh, Destination, Parties
<1>7. new \subseteq Jobs BY DEF Canonical, Addressed, Jobs
<1>8. new # {}
    <2>1. PICK r : r \in Canonical(c.routes) BY SomeCanonical
    <2>2. <<s, r>> \in new BY <2>1
    <2> QED BY <2>2
<1>9. \A k \in new : k[1] = s OBVIOUS
<1> HIDE DEF new
<1>10. \A k \in Jobs : phaseBar'[k] = IF k \in new THEN "waiting" ELSE phaseBar[k]
    BY <1>1, <1>3, <1>5, <1>6 DEF phaseBar
<1>11. \A k \in new : phaseBar[k] = "new" BY <1>3, <1>7, <1>9 DEF phaseBar
<1>12. \A k \in Jobs : k \notin new => partiesBar'[k] = partiesBar[k]
    BY <1>3, <1>5, <1>6 DEF partiesBar
<1>13. copiesBar' = copiesBar
    <2>1. ASSUME NEW k \in Jobs PROVE copiesBar'[k] = copiesBar[k]
        <3>1. CASE k[1] # s BY <1>1, <1>6, <3>1 DEF copiesBar, IsLocal
        <3>2. CASE k[1] = s /\ k \notin new
            BY <1>3, <1>5, <3>2 DEF copiesBar
        <3>3. CASE k \in new
            <4>1. k[1] = s /\ ~Committed(k) /\ Committed(k)' /\ k \notin transferred
                BY <1>3, <1>5, <1>9, <3>3
            <4>2. IsLocal(k) => Destination(k)' \in Mailboxes
                <5>1. Destination(k)' = c.routes[k[2]] BY <1>1, <4>1 DEF Destination
                <5>2. k[2] \in Canonical(envelope'[s].routes) BY <4>1 DEF Committed
                <5>3. c.routes[k[2]] # NoOne BY <1>1, <5>2 DEF Canonical, Addressed
                <5> QED BY <5>1, <5>3 DEF GoodRoutes, IsLocal
            <4>3. \A v \in Mailboxes : inserted[<<v, s>>] = 0 BY <1>1, <1>2 DEF RowsAreCommitted
            <4> QED BY <1>1, <4>1, <4>2, <4>3 DEF copiesBar, IsLocal
        <3> QED BY <3>1, <3>2, <3>3
    <2> QED BY <2>1 DEF copiesBar
<1>14. partiesBar' \in [Jobs -> SUBSET Mailboxes] BY DEF partiesBar
<1>15. Contract!Accept(new)
    <2>1. phaseBar' = [k \in Jobs |-> IF k \in new THEN "waiting" ELSE phaseBar[k]]
        BY <1>10 DEF phaseBar
    <2> QED BY <1>8, <1>11, <1>12, <1>13, <1>14, <2>1 DEF Contract!Accept
<1> QED BY <1>7, <1>15 DEF Contract!ContractNext

(* mailbox_delete cancels exactly the parcels its mailbox is party to. *)
LEMMA DeleteRefines ==
    ASSUME MailInv, NEW u \in Mailboxes, NEW alive, MailboxDelete(u, alive), UNCHANGED transferred
    PROVE  [Contract!ContractNext]_(Contract!contractVars)
<1>1. UNCHANGED <<envelope, inserted>>
      /\ queue' = [k \in Jobs |-> IF k \in JobsInvolving(u) THEN "absent" ELSE queue[k]]
    BY DEF MailboxDelete
<1>2. partiesBar' = partiesBar /\ copiesBar' = copiesBar BY <1>1, BarsKept
<1>3. RowsAreCommitted BY DEF MailInv, JourneyInv, RecordsAreTrue
<1>4. queue \in [Jobs -> {"absent", "pending", "quarantined"}]
    BY DEF MailInv, TypeInv, TypeOK, StorageTypeOK
<1>5. \A k \in Jobs : k \in JobsInvolving(u)
            <=> phaseBar[k] \in {"waiting", "held"} /\ u \in partiesBar[k]
    <2>1. SUFFICES ASSUME NEW k \in Jobs
                   PROVE  k \in JobsInvolving(u) <=> phaseBar[k] \in {"waiting", "held"} /\ u \in partiesBar[k]
        OBVIOUS
    <2>2. phaseBar[k] \in {"waiting", "held"} <=> queue[k] # "absent" BY <1>4 DEF phaseBar
    <2>3. queue[k] # "absent" => (u \in partiesBar[k] <=> u \in Parties(k))
        BY <1>3 DEF partiesBar, RowsAreCommitted
    <2> QED BY <2>2, <2>3 DEF JobsInvolving, Targets, Parties
<1>6. phaseBar' = [k \in Jobs |->
            IF phaseBar[k] \in {"waiting", "held"} /\ u \in partiesBar[k] THEN "gone" ELSE phaseBar[k]]
    <2>1. \A k : Committed(k)' <=> Committed(k) BY <1>1 DEF Committed, Fresh
    <2>2. ASSUME NEW k \in Jobs
          PROVE  phaseBar'[k] = IF phaseBar[k] \in {"waiting", "held"} /\ u \in partiesBar[k]
                               THEN "gone" ELSE phaseBar[k]
        <3>1. CASE k \in JobsInvolving(u)
            <4>1. Committed(k) BY <1>3, <3>1 DEF RowsAreCommitted, JobsInvolving, Targets
            <4> QED BY <1>1, <1>5, <2>1, <3>1, <4>1 DEF phaseBar
        <3>2. CASE k \notin JobsInvolving(u)
            <4>1. queue'[k] = queue[k] BY <1>1, <3>2
            <4>2. phaseBar'[k] = phaseBar[k] BY <2>1, <4>1 DEF phaseBar
            <4> QED BY <1>5, <3>2, <4>2
        <3> QED BY <3>1, <3>2
    <2> QED BY <2>2 DEF phaseBar
<1>7. Contract!Close(u) BY <1>2, <1>6 DEF Contract!Close
<1> QED BY <1>7 DEF Contract!ContractNext

(* Every step is one of the contract, or leaves it as it is. *)
LEMMA StepRefines ==
    ASSUME MailInv, [Next]_vars
    PROVE  [Contract!ContractNext]_(Contract!contractVars)
<1>1. TypeInv /\ WorkIsJustified /\ RoutesAreGood BY DEF MailInv, JourneyInv
<1>2. CASE UNCHANGED <<queue, envelope, inserted, transferred>>
    BY <1>2, BarsKept DEF Contract!contractVars
<1>3. CASE Transfer
    <2>1. pc = "send" /\ job \in Jobs
        BY <1>1, <1>3 DEF Transfer, TypeInv, TypeOK, DeliveryTypeOK
    <2>2. Committed(job) /\ ~IsLocal(job) BY <1>1, <2>1 DEF WorkIsJustified, Justified
    <2>3. UNCHANGED <<queue, envelope, inserted>> BY <1>3 DEF Transfer, storageVars, queueVars, mailVars
    <2>4. CASE transferred' = transferred BY <1>2, <2>3, <2>4
    <2>5. CASE transferred' # transferred
        <3>1. transferred' = transferred \cup {job} /\ job \notin transferred
            BY <1>3, <2>5 DEF Transfer
        <3>2. phaseBar[job] # "new" /\ copiesBar[job] = 0
            BY <2>1, <2>2, <3>1 DEF phaseBar, copiesBar
        <3>3. \A k : (Committed(k)' <=> Committed(k)) /\ Destination(k)' = Destination(k)
            BY <2>3 DEF Committed, Fresh, Destination
        <3>4. copiesBar' = [copiesBar EXCEPT ![job] = 1]
            BY <2>1, <2>2, <2>3, <3>1, <3>3 DEF copiesBar, IsLocal
        <3>5. Contract!Arrive(job) BY <2>3, <3>2, <3>4, BarsKept DEF Contract!Arrive
        <3> QED BY <2>1, <3>5 DEF Contract!ContractNext
    <2> QED BY <2>4, <2>5
<1>4. CASE CommitWorkerCall
    <2> DEFINE j == serving.call.job
    <2>1. /\ serving # Idle /\ j \in Jobs /\ UNCHANGED transferred
          /\ serving.call.op = "deliver" => Destination(j) \in Mailboxes
        BY <1>1, <1>4, WorkerCommit DEF TypeInv, DeliverHasInbox
    <2>2. serving.call.op \in CallOps BY <1>4 DEF CommitWorkerCall
    <2>3. Justified(serving.call.op, j) BY <1>1, <2>1, <2>2 DEF WorkIsJustified
    <2>4. PICK ok \in BOOLEAN, state \in {"rejected", "failed"} :
            \/ UNCHANGED storageVars
            \/ serving.call.op = "deliver" /\ Deliver(j, serving.alive, ok)
            \/ serving.call.op = "finish" /\ FinishQueue(j)
            \/ RetryQueue(j, ok) \/ RejectQueue(j, state, ok)
        BY <1>1, <1>4, WorkerCommit
    <2>5. /\ Committed(j) /\ (serving.call.op = "finish" => Earned(j))
          /\ serving.call.op = "deliver" => IsLocal(j)
        BY <2>3 DEF Justified
    <2>6. CASE UNCHANGED storageVars BY <1>2, <2>1, <2>6 DEF storageVars, queueVars, mailVars
    <2> HIDE DEF j
    <2> QED BY <2>1, <2>4, <2>5, <2>6, DeliverArrives, QueueOpsRefine
<1>5. CASE CommitEnqueue
    <2>1. PICK s \in Submissions : Enqueue(serving.call, s, serving.alive)
        BY <1>5 DEF CommitEnqueue
    <2>2. serving # Idle /\ serving.call.op = "enqueue" /\ UNCHANGED transferred
        BY <1>5 DEF CommitEnqueue, Answered
    <2>3. EnqueueCall(serving.call) /\ GoodRoutes(serving.call.routes) /\ Addressed(serving.call.routes) # {}
        BY <1>1, <2>2, ServedCall DEF RoutesAreGood
    <2> QED BY <2>1, <2>2, <2>3, EnqueueRefines
<1>6. CASE CommitMailboxDelete
    <2>1. /\ serving.call.owner \in Mailboxes /\ UNCHANGED transferred
          /\ MailboxDelete(serving.call.owner, serving.alive)
        BY <1>1, <1>6, ServedCall DEF CommitMailboxDelete, Answered
    <2> QED BY <2>1, DeleteRefines
<1>7. CASE CommitForwarding \/ RemoveRule \/ DiscardMail \/ DueAgain \/ Restart
    BY <1>2, <1>7 DEF CommitForwarding, ForwardingCreate, RemoveRule, ForwardingDelete, DiscardMail,
       DeleteMail, DueAgain, Restart, queueVars, mailVars
<1>8. CASE UNCHANGED vars \/ TakeJob \/ Scan \/ Timeout \/ BeginWorkerCall \/ BeginLateCall \/ Submit
            \/ AskRoute \/ AskForwarding \/ AskMailboxDelete \/ Ask \/ CommitRoute \/ RefuseClient
            \/ Abort \/ AccountStep \/ GrowOld
    BY <1>2, <1>8 DEF vars, TakeJob, Scan, Timeout, BeginWorkerCall, BeginLateCall, Submit, AskRoute,
       AskForwarding, AskMailboxDelete, Ask, CommitRoute, RefuseClient, Abort, AccountStep, GrowOld,
       storageVars, queueVars, mailVars
<1> QED BY <1>3, <1>4, <1>5, <1>6, <1>7, <1>8 DEF Next

(* Storage, worker, clients and administrator together do nothing that the
   contract of delivery forbids: a local parcel is stored at most once, none is
   settled before it has arrived, and only a deleted mailbox cancels one.      *)
THEOREM DeliveryKeepsContract == Spec => ImplementsContract
<1>1. Init => Contract!ContractInit
    <2>1. SUFFICES ASSUME Init PROVE Contract!ContractInit OBVIOUS
    <2>2. \A j \in Jobs : queue[j] = "absent" /\ ~Committed(j)
        <3>1. \A s \in Submissions : Fresh(s)
            BY <2>1 DEF Init, StorageInit, Fresh, Addressed, Unsent, Recipients
        <3> QED BY <2>1, <3>1 DEF Init, StorageInit, Committed, Jobs
    <2> QED BY <2>2 DEF Contract!ContractInit, phaseBar, partiesBar, copiesBar
<1>2. MailInv /\ [Next]_vars => [Contract!ContractNext]_(Contract!contractVars) BY StepRefines
<1> QED BY <1>1, <1>2, MailInvHolds, PTL DEF Spec, ImplementsContract, Contract!ContractSpec

-----------------------------------------------------------------------------
(* No mail of an earlier owner: OwnMailInv is inductive. *)

(* A step that queues nothing, registers nobody, and lets a job leave the queue
   only with a receipt.                                                        *)
LEMMA OwnMailKept ==
    ASSUME MailInv, OwnMailInv, Grown, UNCHANGED <<envelope, accepted, incarnation>>,
           \A k \in Jobs : queue'[k] # "absent" => queue[k] # "absent",
           \A k \in Jobs : /\ queue'[k] = "absent" /\ queue[k] # "absent"
                           /\ Committed(k) /\ IsLocal(k) /\ Unshared(Destination(k), k[1])
                           => <<Destination(k), k>> \in receipts' \/ <<Destination(k), k[1]>> \in subReceipts',
           \A m \in mail' \ mail : m.box = "Inbox" /\ Unshared(m.owner, m.sub)
                           => m.incarnation = accepted[<<m.owner, m.sub>>]
    PROVE  OwnMailInv'
<1>1. \A k : (Committed(k)' <=> Committed(k)) /\ Destination(k)' = Destination(k)
    BY DEF Committed, Fresh, Destination
<1>2. \A u, s : Unshared(u, s)' <=> Unshared(u, s) BY DEF Unshared
<1>3. OldRoutesAreClosed'
    BY <1>1, <1>2 DEF OwnMailInv, OldRoutesAreClosed, AlreadyReceived, Grown, IsLocal
<1>4. UnsharedMailStaysWithItsOwner'
    BY <1>2 DEF OwnMailInv, UnsharedMailStaysWithItsOwner
<1> QED BY <1>3, <1>4 DEF OwnMailInv

(* The commits of the worker's requests. *)
LEMMA OwnMailWorker ==
    ASSUME MailInv, OwnMailInv, Grown, CommitWorkerCall
    PROVE  OwnMailInv'
<1> DEFINE j == serving.call.job
<1>1. /\ serving # Idle /\ j \in Jobs /\ UNCHANGED <<envelope, incarnation>>
      /\ serving.call.op \in CallOps
    BY WorkerCommit DEF MailInv, CommitWorkerCall, accountVars
<1>2. Justified(serving.call.op, j)
    BY <1>1 DEF MailInv, JourneyInv, WorkIsJustified
<1>3. PICK ok \in BOOLEAN, state \in {"rejected", "failed"} :
        \/ UNCHANGED storageVars
        \/ serving.call.op = "deliver" /\ Deliver(j, serving.alive, ok)
        \/ serving.call.op = "finish" /\ FinishQueue(j)
        \/ RetryQueue(j, ok) \/ RejectQueue(j, state, ok)
    BY WorkerCommit DEF MailInv
<1> HIDE DEF j
<1>4. CASE UNCHANGED storageVars
    BY <1>1, <1>4, OwnMailKept DEF storageVars, queueVars, mailVars
<1>5. CASE serving.call.op = "deliver" /\ Deliver(j, serving.alive, ok)
    <2> DEFINE u == Destination(j)
    <2>1. UNCHANGED <<queue, accepted>> BY <1>5 DEF Deliver, storageVars, queueVars, mailVars
    <2>2. Committed(j) /\ IsLocal(j) BY <1>2, <1>5 DEF Justified
    <2>3. ASSUME NEW m \in mail' \ mail, Unshared(m.owner, m.sub)
          PROVE  m.incarnation = accepted[<<m.owner, m.sub>>]
        <3>1. ~AlreadyReceived(u, j) /\ m = Letter(u, j[1], "Inbox")
            BY <1>5, <2>3 DEF Deliver, Insert, storageVars, mailVars
        <3>2. m.owner = u /\ m.sub = j[1] /\ m.incarnation = incarnation[u]
            BY <3>1 DEF Letter
        <3> QED BY <1>1, <2>2, <2>3, <3>1, <3>2 DEF OwnMailInv, OldRoutesAreClosed
    <2> QED BY <1>1, <2>1, <2>3, OwnMailKept
<1>6. CASE serving.call.op = "finish" /\ FinishQueue(j)
    <2>1. UNCHANGED <<accepted, mail, receipts, subReceipts>> /\ queue' = [queue EXCEPT ![j] = "absent"]
        BY <1>6 DEF FinishQueue, mailVars
    <2>2. \A k \in Jobs : k # j => queue'[k] = queue[k]
        BY <2>1 DEF MailInv, TypeInv, TypeOK, StorageTypeOK
    <2>3. IsLocal(j) => AlreadyReceived(Destination(j), j)
        BY <1>2, <1>6 DEF Justified, Earned
    <2>4. queue'[j] = "absent" BY <1>1, <2>1 DEF MailInv, TypeInv, TypeOK, StorageTypeOK
    <2>5. \A k \in Jobs : queue'[k] = "absent" /\ queue[k] # "absent" => k = j BY <2>2
    <2> QED BY <1>1, <2>1, <2>2, <2>3, <2>4, <2>5, OwnMailKept DEF AlreadyReceived
<1>7. CASE RetryQueue(j, ok) \/ RejectQueue(j, state, ok)
    <2>1. UNCHANGED <<accepted, mail>>
          /\ \/ queue' = queue
             \/ queue' = [queue EXCEPT ![j] = "quarantined"] /\ queue[j] = "pending"
        BY <1>7 DEF RetryQueue, RejectQueue, StillPending, storageVars, queueVars, mailVars
    <2>2. \A k \in Jobs : queue'[k] = "absent" <=> queue[k] = "absent"
        BY <1>1, <2>1 DEF MailInv, TypeInv, TypeOK, StorageTypeOK
    <2> QED BY <1>1, <2>1, <2>2, OwnMailKept
<1> QED BY <1>3, <1>4, <1>5, <1>6, <1>7

(* enqueue notes who owns each mailbox it pins. *)
LEMMA OwnMailEnqueue ==
    ASSUME MailInv, OwnMailInv, NEW c, EnqueueCall(c), NEW s \in Submissions, NEW alive,
           Enqueue(c, s, alive), GoodRoutes(c.routes), UNCHANGED incarnation
    PROVE  OwnMailInv'
<1> DEFINE new == {s} \X Canonical(c.routes)
<1>1. /\ Fresh(s) /\ UNCHANGED <<receipts, subReceipts>>
      /\ \A t \in Submissions : t # s => envelope'[t] = envelope[t]
      /\ envelope'[s].routes = c.routes
      /\ \A k \in Jobs : queue'[k] = IF k \in new THEN "pending" ELSE queue[k]
      /\ \A m \in mail' : m.box = "Inbox" => m \in mail
    <2>1. \A v : Letter(v, s, "Sent").box = "Sent" BY DEF Letter
    <2> QED BY <2>1 DEF Enqueue, MailInv, TypeInv, TypeOK, StorageTypeOK
<1>2. \A u \in Mailboxes, t \in Submissions :
        accepted'[<<u, t>>] = IF t = s /\ u \in {c.routes[r] : r \in Addressed(c.routes) \cap LocalAddresses}
                             THEN incarnation[u] ELSE accepted[<<u, t>>]
    BY DEF Enqueue
<1>3. \A k \in Jobs : k[1] \in Submissions /\ k = <<k[1], k[2]>> BY DEF Jobs
<1>4. \A k \in Jobs : Committed(k) => k[1] # s BY <1>1 DEF Committed
<1>5. \A t \in Submissions : t # s => \A u : (Unshared(u, t)' <=> Unshared(u, t))
    BY <1>1 DEF Unshared
<1>6. OldRoutesAreClosed'
    <2>1. SUFFICES ASSUME NEW k \in Jobs, Committed(k)', IsLocal(k), Unshared(Destination(k), k[1])'
                   PROVE  IF queue'[k] = "absent" THEN AlreadyReceived(Destination(k), k)'
                          ELSE accepted'[<<Destination(k)', k[1]>>] = incarnation[Destination(k)']
        BY DEF OldRoutesAreClosed, IsLocal
    <2>2. CASE k[1] # s
        <3>1. Committed(k) /\ Destination(k)' = Destination(k) /\ k \notin new
            BY <1>1, <1>3, <2>1, <2>2 DEF Committed, Fresh, Destination
        <3>2. Unshared(Destination(k), k[1]) BY <1>3, <1>5, <2>1, <2>2, <3>1
        <3>3. IF queue[k] = "absent" THEN AlreadyReceived(Destination(k), k)
              ELSE accepted[<<Destination(k), k[1]>>] = incarnation[Destination(k)]
            BY <2>1, <3>1, <3>2 DEF OwnMailInv, OldRoutesAreClosed
        <3>4. queue[k] # "absent" => Destination(k) \in Mailboxes
            BY <2>1 DEF MailInv, OwnersInv, QueueTargetsHaveOwners, TypeInv, TypeOK, AccountsTypeOK
        <3> QED BY <1>1, <1>2, <1>3, <2>2, <3>1, <3>3, <3>4 DEF AlreadyReceived
    <2>3. CASE k[1] = s
        <3>1. Destination(k)' = c.routes[k[2]] BY <1>1, <2>3 DEF Destination
        <3>2. k[2] \in Canonical(c.routes) BY <1>1, <2>1, <2>3 DEF Committed
        <3>3. k \in new /\ k[2] \in Addressed(c.routes) \cap LocalAddresses
            BY <1>3, <2>1, <2>3, <3>2 DEF Canonical, IsLocal
        <3>4. c.routes[k[2]] \in Mailboxes BY <3>3 DEF GoodRoutes, Addressed
        <3>5. accepted'[<<c.routes[k[2]], s>>] = incarnation[c.routes[k[2]]]
            BY <1>2, <3>3, <3>4
        <3> QED BY <1>1, <2>3, <3>1, <3>3, <3>5
    <2> QED BY <2>2, <2>3
<1>7. UnsharedMailStaysWithItsOwner'
    <2>1. \A m \in mail : m.box = "Inbox" => m.owner \in Mailboxes /\ m.sub \in Submissions /\ m.sub # s
        BY <1>1 DEF MailInv, JourneyInv, RecordsAreTrue, RowsAreCommitted, TypeInv, TypeOK, StorageTypeOK, Letters
    <2> QED BY <1>1, <1>2, <1>5, <2>1 DEF OwnMailInv, UnsharedMailStaysWithItsOwner
<1> QED BY <1>6, <1>7 DEF OwnMailInv

(* mailbox_delete leaves receipts for what it removes. A job it removes from the
   mailbox of somebody else was sent by, or addressed to, the deleted mailbox.   *)
LEMMA OwnMailDelete ==
    ASSUME MailInv, OwnMailInv, Grown, NEW u \in Mailboxes, NEW alive, MailboxDelete(u, alive),
           UNCHANGED incarnation
    PROVE  OwnMailInv'
<1>1. /\ UNCHANGED <<envelope, accepted>> /\ mail' \subseteq mail
      /\ receipts' = receipts \cup CleanupReceipts(u)
      /\ \A k \in Jobs : queue'[k] = IF k \in JobsInvolving(u) THEN "absent" ELSE queue[k]
    BY DEF MailboxDelete
<1>2. ASSUME NEW k \in Jobs, k \in JobsInvolving(u), Committed(k), Unshared(Destination(k), k[1])
      PROVE  <<Destination(k), k>> \in receipts'
    <2>1. queue[k] # "absent" /\ u \in {k[2], Destination(k), envelope[k[1]].sender}
        BY <1>2 DEF JobsInvolving, Targets
    <2>2. Destination(k) = u
        <3>1. k[2] \in Recipients /\ envelope[k[1]].routes[k[2]] = Destination(k)
            BY DEF Destination, Jobs
        <3>2. k[2] = u => Destination(k) = u BY <1>2, <3>1 DEF Unshared
        <3>3. u # NoOne BY StorageAssumption
        <3>4. envelope[k[1]].sender = u => Destination(k) = u BY <1>2, <3>3 DEF Unshared
        <3> QED BY <2>1, <3>2, <3>4
    <2>3. <<u, k>> \in CleanupReceipts(u) BY <2>1, <2>2 DEF CleanupReceipts, Targets
    <2> QED BY <1>1, <2>2, <2>3
<1> QED BY <1>1, <1>2, OwnMailKept

(* Nobody registers an address while a job is queued for it. *)
LEMMA OwnMailAccounts ==
    ASSUME MailInv, OwnMailInv, AccountStep
    PROVE  OwnMailInv'
<1>1. UNCHANGED storageVars BY DEF AccountStep
<1>2. PICK u \in Mailboxes : \/ CreateUser(u) \/ incarnation' = incarnation
    BY DEF AccountStep, DeleteUser, FinishDelete
<1>3. \A k \in Jobs : queue[k] # "absent" /\ IsLocal(k)
        => incarnation'[Destination(k)] = incarnation[Destination(k)]
    <2>1. SUFFICES ASSUME NEW k \in Jobs, queue[k] # "absent", IsLocal(k)
                   PROVE  incarnation'[Destination(k)] = incarnation[Destination(k)]
        OBVIOUS
    <2>2. Destination(k) \in users \cup deleting
        BY <2>1 DEF MailInv, OwnersInv, QueueTargetsHaveOwners
    <2>3. Destination(k) \in Mailboxes BY <2>2 DEF MailInv, TypeInv, TypeOK, AccountsTypeOK
    <2> QED BY <1>2, <2>2, <2>3 DEF CreateUser, MayRegister, MailInv, TypeInv, TypeOK, AccountsTypeOK
<1>4. \A k : (Committed(k)' <=> Committed(k)) /\ Destination(k)' = Destination(k)
             /\ (AlreadyReceived(Destination(k), k)' <=> AlreadyReceived(Destination(k), k))
    BY <1>1 DEF Committed, Fresh, Destination, AlreadyReceived, storageVars, queueVars, mailVars
<1>5. \A v, s : Unshared(v, s)' <=> Unshared(v, s) BY <1>1 DEF Unshared, storageVars, queueVars
<1>6. UNCHANGED <<queue, accepted, mail>> BY <1>1 DEF storageVars, queueVars, mailVars
<1>7. OldRoutesAreClosed'
    BY <1>3, <1>4, <1>5, <1>6 DEF OwnMailInv, OldRoutesAreClosed, IsLocal
<1>8. UnsharedMailStaysWithItsOwner'
    BY <1>5, <1>6 DEF OwnMailInv, UnsharedMailStaysWithItsOwner
<1> QED BY <1>7, <1>8 DEF OwnMailInv

LEMMA NextOwnMail ==
    ASSUME MailInv, OwnMailInv, [Next]_vars
    PROVE  OwnMailInv'
<1>1. Grown BY NextGrows DEF MailInv
<1>2. CASE UNCHANGED <<queue, envelope, accepted, incarnation>> /\ mail' \subseteq mail
    BY <1>1, <1>2, OwnMailKept
<1>3. CASE CommitEnqueue
    <2>1. PICK s \in Submissions : Enqueue(serving.call, s, serving.alive)
        BY <1>3 DEF CommitEnqueue
    <2>2. serving # Idle /\ serving.call.op = "enqueue" /\ UNCHANGED incarnation
        BY <1>3 DEF CommitEnqueue, Answered, accountVars
    <2>3. EnqueueCall(serving.call) /\ GoodRoutes(serving.call.routes)
        BY <2>2, ServedCall DEF MailInv, JourneyInv, RoutesAreGood
    <2> QED BY <2>1, <2>2, <2>3, OwnMailEnqueue
<1>4. CASE CommitMailboxDelete
    <2>1. /\ serving.call.owner \in Mailboxes /\ UNCHANGED incarnation
          /\ MailboxDelete(serving.call.owner, serving.alive)
        BY <1>4, ServedCall DEF CommitMailboxDelete, Answered, MailInv, accountVars
    <2> QED BY <1>1, <2>1, OwnMailDelete
<1>5. CASE CommitForwarding \/ RemoveRule \/ DiscardMail \/ DueAgain \/ Restart
    BY <1>2, <1>5 DEF CommitForwarding, ForwardingCreate, RemoveRule, ForwardingDelete, DiscardMail,
       DeleteMail, DueAgain, Restart, queueVars, mailVars, accountVars
<1>6. CASE UNCHANGED vars \/ TakeJob \/ Scan \/ Transfer \/ Timeout \/ BeginWorkerCall \/ BeginLateCall
            \/ Submit \/ AskRoute \/ AskForwarding \/ AskMailboxDelete \/ Ask \/ CommitRoute
            \/ RefuseClient \/ Abort \/ GrowOld
    BY <1>2, <1>6 DEF vars, TakeJob, Scan, Transfer, Timeout, BeginWorkerCall, BeginLateCall, Submit,
       AskRoute, AskForwarding, AskMailboxDelete, Ask, CommitRoute, RefuseClient, Abort, GrowOld,
       storageVars, queueVars, mailVars, accountVars
<1> QED BY <1>1, <1>3, <1>4, <1>5, <1>6, OwnMailWorker, OwnMailAccounts DEF Next

(* Mail accepted for one owner of an address is never found with the next one,
   unless a second local mailbox took part in it.                              *)
THEOREM MailStaysWithOwner == Spec => []UnsharedMailStaysWithItsOwner
<1>1. Init => OwnMailInv
    <2>1. SUFFICES ASSUME Init PROVE OwnMailInv OBVIOUS
    <2>2. \A s \in Submissions : Fresh(s)
        BY <2>1 DEF Init, StorageInit, Fresh, Addressed, Unsent, Recipients
    <2>3. \A k \in Jobs : ~Committed(k) BY <2>2 DEF Committed, Jobs
    <2> QED BY <2>1, <2>3 DEF Init, StorageInit, OwnMailInv, OldRoutesAreClosed, UnsharedMailStaysWithItsOwner
<1>2. OwnMailInv => UnsharedMailStaysWithItsOwner BY DEF OwnMailInv
<1> QED BY <1>1, <1>2, NextOwnMail, MailInvHolds, PTL DEF Spec

-----------------------------------------------------------------------------
(* What a purge takes: PurgeInv is inductive. *)

(* A step that registers nobody and queues nothing. *)
LEMMA PurgeKept ==
    ASSUME PurgeInv, UNCHANGED <<accountVars, envelope, requests>>,
           \A m \in mail' \ mail : m.incarnation <= incarnation[m.owner],
           serving' = Idle \/ mail' \subseteq mail,
           \A u \in users : Purging(u)' => Purging(u),
           \A u : Closed(u) => Closed(u)'
    PROVE  PurgeInv'
<1>1. UNCHANGED <<users, incarnation>> BY DEF accountVars
<1>2. \A u : (serving' = Idle => ~Purging(u)') BY DEF Purging
<1>3. \A u : (mail' \subseteq mail /\ NothingOf(u) => NothingOf(u)') BY <1>1 DEF NothingOf
<1>4. PurgesSpareOwners'
    <2>1. \A m \in mail' : m.incarnation <= incarnation[m.owner]
        BY DEF PurgeInv, PurgesSpareOwners
    <2>2. \A u \in users : Purging(u)' => NothingOf(u)'
        BY <1>2, <1>3 DEF PurgeInv, PurgesSpareOwners
    <2> QED BY <1>1, <2>1, <2>2 DEF PurgeInv, PurgesSpareOwners
<1>5. RequestsRemembered' BY <1>1 DEF PurgeInv, RequestsRemembered
<1>6. RequestQueuedOnce' BY DEF PurgeInv, RequestQueuedOnce
<1> QED BY <1>4, <1>5, <1>6 DEF PurgeInv

(* Taking a request, an answer of auth, and requests that end. *)
LEMMA PurgeServing ==
    ASSUME MailInv, PurgeInv, [Next]_vars,
           UNCHANGED <<accountVars, envelope, requests, tombstones>>, mail' \subseteq mail
    PROVE  PurgeInv'
<1>1. serving # Idle => serving \in Services BY ServedCall DEF MailInv
<1>2. \/ serving' = Idle
      \/ serving # Idle /\ serving'.call = serving.call
         /\ \/ serving'.asked = serving.asked /\ serving'.alive = serving.alive
            \/ \E u : /\ serving'.asked = serving.asked \cup {u}
                      /\ serving'.alive = serving.alive \cup ({u} \cap users)
      \/ serving'.asked = {} /\ serving'.alive = {}
    <2>1. CASE Ask BY <1>1, <2>1 DEF Ask, Services
    <2>2. CASE Timeout BY <1>1, <2>2 DEF Timeout, Services
    <2>3. CASE BeginWorkerCall \/ BeginLateCall \/ Submit \/ AskRoute \/ AskForwarding \/ AskMailboxDelete
        <3>1. \E c, a : Begin(c, a)
            BY <2>3 DEF BeginWorkerCall, BeginLateCall, Submit, AskRoute, AskForwarding, AskMailboxDelete
        <3> QED BY <3>1 DEF Begin
    <2>4. serving' \in {serving, Idle} \/ BeginWorkerCall \/ BeginLateCall \/ Submit \/ AskRoute
          \/ AskForwarding \/ AskMailboxDelete \/ Ask \/ Timeout
        BY DEF Next, vars, TakeJob, Scan, Transfer, CommitWorkerCall, CommitEnqueue, CommitRoute,
           CommitForwarding, CommitMailboxDelete, RefuseClient, Abort, AccountStep, RemoveRule,
           DiscardMail, DueAgain, GrowOld, Restart
    <2> QED BY <2>1, <2>2, <2>3, <2>4
<1>3. \A u \in users : Purging(u)' => Purging(u) BY <1>2 DEF Purging
<1>4. \A u : Closed(u) => Closed(u)' BY <1>2 DEF Closed, accountVars
<1> QED BY <1>3, <1>4, PurgeKept

(* Storing a copy: a mailbox that is closed refuses it. *)
LEMMA PurgeDeliver ==
    ASSUME MailInv, PurgeInv, NEW j, NEW ok, Deliver(j, serving.alive, ok),
           serving # Idle, serving' = Idle, UNCHANGED accountVars, Destination(j) \in Mailboxes
    PROVE  PurgeInv'
<1> DEFINE u == Destination(j)
<1>1. UNCHANGED <<envelope, requests>> BY DEF Deliver, storageVars, queueVars, mailVars
<1>2. \A v : ~Purging(v)' BY DEF Purging
<1>3. \A m \in mail' \ mail : m.incarnation <= incarnation[m.owner]
    <2>1. SUFFICES ASSUME NEW m \in mail' \ mail PROVE m.incarnation <= incarnation[m.owner] OBVIOUS
    <2>2. m = Letter(u, j[1], "Inbox") BY <2>1 DEF Deliver, Insert, storageVars, mailVars
    <2>3. m.incarnation = incarnation[u] /\ m.owner = u BY <2>2 DEF Letter
    <2>4. incarnation[u] \in Nat BY DEF MailInv, TypeInv, TypeOK, AccountsTypeOK
    <2> QED BY <2>3, <2>4
<1>4. \A v : Closed(v) => Closed(v)'
    <2>1. \A v \in tombstones : v \in tombstones' \/ v \in serving.alive
        BY DEF Deliver, Insert, MailboxUsable, storageVars, mailVars
    <2> QED BY <2>1 DEF Closed, accountVars
<1> QED BY <1>1, <1>2, <1>3, <1>4, PurgeKept

(* enqueue remembers the request of the present owner. *)
LEMMA PurgeEnqueue ==
    ASSUME MailInv, PurgeInv, CommitEnqueue
    PROVE  PurgeInv'
<1> DEFINE c == serving.call
<1>1. PICK s \in Submissions : Enqueue(c, s, serving.alive) BY DEF CommitEnqueue
<1>2. /\ serving # Idle /\ serving.call.op = "enqueue" /\ serving' = Idle
      /\ UNCHANGED <<users, incarnation>>
    BY DEF CommitEnqueue, Answered, accountVars
<1>3. EnqueueCall(c) /\ (c.user = NoOne => c.request = NoOne)
    BY <1>2, ServedCall DEF MailInv, JourneyInv, RoutesAreGood
<1> HIDE DEF c
<1>4. /\ \A t \in Submissions : t # s => envelope'[t] = envelope[t]
      /\ envelope'[s].user = c.user /\ envelope'[s].request = c.request
      /\ c.user # NoOne => envelope'[s].era = incarnation[c.user]
    BY <1>1 DEF Enqueue, MailInv, TypeInv, TypeOK, StorageTypeOK
<1>5. \A u \in Mailboxes : incarnation[u] \in Nat
    BY DEF MailInv, TypeInv, TypeOK, AccountsTypeOK
<1>6. \A v : Closed(v) => Closed(v)' /\ v # c.user
    <2>1. \A v \in tombstones : v \in tombstones' \/ v \in serving.alive
        BY <1>1 DEF Enqueue, MailboxUsable
    <2>2. c.user \in tombstones => c.user \in serving.alive
        BY <1>1, StorageAssumption DEF Enqueue, MailboxUsable, MailInv, TypeInv, TypeOK, StorageTypeOK
    <2> QED BY <1>2, <2>1, <2>2 DEF Closed
<1>7. /\ requests \subseteq requests'
      /\ c.user # NoOne /\ c.request # NoOne
         => <<c.user, c.request>> \in requests' \ requests
    BY <1>1, <1>3 DEF Enqueue, Repeated, EnqueueCall
<1>8. PurgesSpareOwners'
    <2>1. \A m \in mail' : m.incarnation <= incarnation[m.owner]
        <3>1. SUFFICES ASSUME NEW m \in mail' \ mail PROVE m.incarnation <= incarnation[m.owner]
            BY DEF PurgeInv, PurgesSpareOwners
        <3>2. m = Letter(c.user, s, "Sent") /\ c.user # NoOne BY <1>1, <3>1 DEF Enqueue
        <3>3. m.incarnation = incarnation[c.user] /\ m.owner = c.user /\ c.user \in Mailboxes
            BY <1>3, <3>2 DEF Letter, EnqueueCall
        <3> QED BY <1>5, <3>3
    <2>2. \A t \in Submissions : envelope'[t].user # NoOne
            => envelope'[t].era <= incarnation[envelope'[t].user]
        <3>1. c.user # NoOne => incarnation[c.user] <= incarnation[c.user]
            BY <1>3, <1>5 DEF EnqueueCall
        <3> QED BY <1>4, <3>1 DEF PurgeInv, PurgesSpareOwners
    <2>3. \A u : ~Purging(u)' BY <1>2 DEF Purging
    <2> QED BY <1>2, <2>1, <2>2, <2>3 DEF PurgesSpareOwners
<1>9. RequestsRemembered'
    <2>1. \A t \in Submissions : t # s =>
            /\ envelope'[t].user = NoOne => envelope'[t].request = NoOne
            /\ envelope'[t].request # NoOne /\ envelope'[t].era = incarnation[envelope'[t].user]
               => <<envelope'[t].user, envelope'[t].request>> \in requests' \/ Closed(envelope[t].user)'
        BY <1>4, <1>6, <1>7 DEF PurgeInv, RequestsRemembered
    <2>2. /\ envelope'[s].user = NoOne => envelope'[s].request = NoOne
          /\ envelope'[s].request # NoOne => <<envelope'[s].user, envelope'[s].request>> \in requests'
        BY <1>3, <1>4, <1>7
    <2> QED BY <1>2, <2>1, <2>2 DEF RequestsRemembered
<1>10. RequestQueuedOnce'
    <2>1. ASSUME NEW t \in Submissions, t # s, c.request # NoOne
          PROVE  <<envelope[t].user, envelope[t].era, envelope[t].request>>
                 # <<c.user, incarnation[c.user], c.request>>
        <3>1. c.user # NoOne BY <1>3, <2>1
        <3>2. <<c.user, c.request>> \notin requests /\ ~Closed(c.user)
            BY <1>6, <1>7, <2>1, <3>1
        <3> QED BY <2>1, <3>2 DEF PurgeInv, RequestsRemembered
    <2>2. c.request # NoOne => envelope'[s].era = incarnation[c.user] BY <1>3, <1>4
    <2>3. \A p, q \in Submissions : p # q /\ p # s /\ q # s /\ envelope'[p].request # NoOne
            => <<envelope'[p].user, envelope'[p].era, envelope'[p].request>>
               # <<envelope'[q].user, envelope'[q].era, envelope'[q].request>>
        BY <1>4 DEF PurgeInv, RequestQueuedOnce
    <2>4. \A t \in Submissions : t # s /\ c.request # NoOne
            => <<envelope'[t].user, envelope'[t].era, envelope'[t].request>>
               # <<envelope'[s].user, envelope'[s].era, envelope'[s].request>>
        BY <1>4, <2>1, <2>2
    <2>5. \A t \in Submissions : t # s /\ envelope'[t].request # NoOne
            => <<envelope'[t].user, envelope'[t].era, envelope'[t].request>>
               # <<envelope'[s].user, envelope'[s].era, envelope'[s].request>>
        BY <1>4, <2>4
    <2> QED BY <1>4, <2>3, <2>4, <2>5 DEF RequestQueuedOnce
<1> QED BY <1>8, <1>9, <1>10 DEF PurgeInv

(* mailbox_delete is told that the account is gone; whoever has registered since
   has stored nothing yet, because storage has been busy with the purge.        *)
LEMMA CommitsPurge ==
    ASSUME MailInv, PurgeInv, CommitMailboxDelete
    PROVE  /\ serving.call.owner \in Mailboxes
           /\ serving.call.owner \in users => NothingOf(serving.call.owner)
<1>1. /\ serving # Idle /\ serving.call.op = "mailboxDelete"
      /\ serving.call.owner \in serving.asked \ serving.alive
    BY DEF CommitMailboxDelete, Answered, Asks, MailboxDelete, MayPurge
<1>2. serving.call.owner \in Mailboxes BY <1>1, ServedCall DEF MailInv
<1>3. Purging(serving.call.owner) BY <1>1 DEF Purging
<1> QED BY <1>2, <1>3 DEF PurgeInv, PurgesSpareOwners

LEMMA PurgeDelete == ASSUME MailInv, PurgeInv, CommitMailboxDelete PROVE PurgeInv'
<1>0. PICK u : u = serving.call.owner OBVIOUS
<1>1. /\ UNCHANGED <<users, incarnation, envelope>> /\ serving' = Idle
      /\ mail' \subseteq mail /\ tombstones' = tombstones \cup {u}
      /\ requests' = {q \in requests : q[1] # u}
    BY <1>0 DEF CommitMailboxDelete, MailboxDelete, accountVars
<1>2. u \in users => NothingOf(u) BY <1>0, CommitsPurge
<1>3. \A v : ~Purging(v)' BY <1>1 DEF Purging
<1>4. PurgesSpareOwners' BY <1>1, <1>3 DEF PurgeInv, PurgesSpareOwners
<1>5. RequestsRemembered'
    <2>1. SUFFICES ASSUME NEW s \in Submissions
                   PROVE  LET e == envelope[s] IN
                          /\ e.user = NoOne => e.request = NoOne
                          /\ e.request # NoOne /\ e.era = incarnation[e.user]
                             => <<e.user, e.request>> \in requests' \/ Closed(envelope[s].user)'
        BY <1>1 DEF RequestsRemembered
    <2>2. envelope[s].user = NoOne => envelope[s].request = NoOne
        BY DEF PurgeInv, RequestsRemembered
    <2>3. ASSUME envelope[s].request # NoOne, envelope[s].era = incarnation[envelope[s].user]
          PROVE  <<envelope[s].user, envelope[s].request>> \in requests' \/ Closed(envelope[s].user)'
        <3>1. CASE envelope[s].user # u
            BY <1>1, <2>3, <3>1 DEF PurgeInv, RequestsRemembered, Closed
        <3>2. CASE envelope[s].user = u
            <4>1. envelope[s].era \in Nat
                BY DEF MailInv, TypeInv, TypeOK, StorageTypeOK, Envelopes
            <4>2. u \notin users BY <1>2, <2>3, <3>2, <4>1 DEF NothingOf
            <4> QED BY <1>1, <3>2, <4>2 DEF Closed
        <3> QED BY <3>1, <3>2
    <2> QED BY <2>2, <2>3
<1>6. RequestQueuedOnce' BY <1>1 DEF PurgeInv, RequestQueuedOnce
<1> QED BY <1>4, <1>5, <1>6 DEF PurgeInv

(* Who registers is later than all that is stored. *)
LEMMA PurgeAccounts == ASSUME MailInv, PurgeInv, AccountStep PROVE PurgeInv'
<1>1. UNCHANGED <<mail, envelope, requests, tombstones, serving>>
    BY DEF AccountStep, storageVars, queueVars, mailVars
<1>2. incarnation \in [Mailboxes -> Nat] BY DEF MailInv, TypeInv, TypeOK, AccountsTypeOK
<1>3. /\ \A m \in mail : m.owner \in Mailboxes /\ m.incarnation \in Nat
      /\ \A s \in Submissions : envelope[s].user \in Mailboxes \cup {NoOne} /\ envelope[s].era \in Nat
    BY DEF MailInv, TypeInv, TypeOK, StorageTypeOK, Letters, Envelopes
<1>4. PICK u \in Mailboxes :
        \/ /\ u \notin users /\ users' = users \cup {u}
           /\ incarnation' = [incarnation EXCEPT ![u] = @ + 1]
        \/ users' \subseteq users /\ incarnation' = incarnation
    BY DEF AccountStep, CreateUser, MayRegister, DeleteUser, FinishDelete
<1>5. \A v : Purging(v)' <=> Purging(v) BY <1>1 DEF Purging
<1>6. CASE users' \subseteq users /\ incarnation' = incarnation
    <2>1. \A v : Closed(v) => Closed(v)' BY <1>1, <1>6 DEF Closed
    <2>2. \A v : NothingOf(v) => NothingOf(v)' BY <1>1, <1>6 DEF NothingOf
    <2>3. PurgesSpareOwners' BY <1>1, <1>5, <1>6, <2>2 DEF PurgeInv, PurgesSpareOwners
    <2>4. RequestsRemembered' BY <1>1, <1>6, <2>1 DEF PurgeInv, RequestsRemembered
    <2>5. RequestQueuedOnce' BY <1>1 DEF PurgeInv, RequestQueuedOnce
    <2> QED BY <2>3, <2>4, <2>5 DEF PurgeInv
<1>7. CASE /\ u \notin users /\ users' = users \cup {u}
           /\ incarnation' = [incarnation EXCEPT ![u] = @ + 1]
    <2>1. \A v \in Mailboxes : incarnation'[v] = IF v = u THEN incarnation[v] + 1 ELSE incarnation[v]
        BY <1>2, <1>7
    <2>2. \A v \in Mailboxes, n \in Nat : n <= incarnation[v]
            => n <= incarnation'[v] /\ (n = incarnation'[v] => v # u) /\ (v = u => n < incarnation'[v])
        <3>1. SUFFICES ASSUME NEW v \in Mailboxes, NEW n \in Nat, n <= incarnation[v]
                       PROVE  n <= incarnation'[v] /\ (n = incarnation'[v] => v # u)
                              /\ (v = u => n < incarnation'[v])
            OBVIOUS
        <3>2. incarnation[v] \in Nat BY <1>2
        <3>3. CASE v = u BY <2>1, <3>1, <3>2, <3>3
        <3>4. CASE v # u BY <2>1, <3>1, <3>2, <3>4
        <3> QED BY <3>3, <3>4
    <2>3. NothingOf(u)'
        BY <1>1, <1>3, <1>4, <2>2, StorageAssumption DEF PurgeInv, PurgesSpareOwners, NothingOf
    <2>4. \A v \in Mailboxes : v # u /\ NothingOf(v) => NothingOf(v)'
        BY <1>1, <2>1 DEF NothingOf
    <2>5. users \subseteq Mailboxes BY DEF MailInv, TypeInv, TypeOK, AccountsTypeOK
    <2>6. PurgesSpareOwners'
        <3>1. \A m \in mail' : m.incarnation <= incarnation'[m.owner]
            BY <1>1, <1>3, <2>2 DEF PurgeInv, PurgesSpareOwners
        <3>2. \A s \in Submissions : envelope'[s].user # NoOne
                => envelope'[s].era <= incarnation'[envelope'[s].user]
            BY <1>1, <1>3, <2>2 DEF PurgeInv, PurgesSpareOwners
        <3>3. \A v \in users' : Purging(v)' => NothingOf(v)'
            BY <1>5, <1>7, <2>3, <2>4, <2>5 DEF PurgeInv, PurgesSpareOwners
        <3> QED BY <3>1, <3>2, <3>3 DEF PurgesSpareOwners
    <2>7. \A v : v # u /\ Closed(v) => Closed(v)' BY <1>1, <1>7 DEF Closed
    <2>8. RequestsRemembered'
        <3>1. SUFFICES ASSUME NEW s \in Submissions, envelope[s].request # NoOne,
                              envelope[s].era = incarnation'[envelope[s].user]
                       PROVE  <<envelope[s].user, envelope[s].request>> \in requests
                              \/ Closed(envelope[s].user)'
            BY <1>1 DEF PurgeInv, RequestsRemembered
        <3>2. envelope[s].user \in Mailboxes /\ envelope[s].era <= incarnation[envelope[s].user]
            BY <1>3, <3>1 DEF PurgeInv, PurgesSpareOwners, RequestsRemembered
        <3>3. envelope[s].user # u BY <1>3, <2>2, <3>1, <3>2
        <3>4. envelope[s].era = incarnation[envelope[s].user] BY <2>1, <3>1, <3>2, <3>3
        <3>5. <<envelope[s].user, envelope[s].request>> \in requests \/ Closed(envelope[s].user)
            BY <3>1, <3>4 DEF PurgeInv, RequestsRemembered
        <3>6. PICK v : v = envelope[s].user OBVIOUS
        <3>7. envelope'[s].user = v BY <1>1, <3>6
        <3>8. Closed(v) => Closed(v)' BY <2>7, <3>3, <3>6
        <3>9. CASE Closed(envelope[s].user)
            <4>1. Closed(v)' BY <3>6, <3>8, <3>9
            <4> QED BY <3>7, <4>1 DEF Closed
        <3> QED BY <3>5, <3>9
    <2>9. RequestQueuedOnce' BY <1>1 DEF PurgeInv, RequestQueuedOnce
    <2> QED BY <2>6, <2>8, <2>9 DEF PurgeInv
<1> QED BY <1>4, <1>6, <1>7

LEMMA NextPurge ==
    ASSUME MailInv, PurgeInv, [Next]_vars
    PROVE  PurgeInv'
<1>1. CASE UNCHANGED <<accountVars, envelope, requests, tombstones>> /\ mail' \subseteq mail
    BY <1>1, PurgeServing
<1>2. CASE CommitWorkerCall
    <2>1. /\ serving # Idle /\ serving' = Idle /\ UNCHANGED <<accountVars, envelope>>
          /\ serving.call.op = "deliver" => Destination(serving.call.job) \in Mailboxes
        BY <1>2, WorkerCommit DEF MailInv, TypeInv, DeliverHasInbox
    <2>2. PICK ok \in BOOLEAN, state \in {"rejected", "failed"} :
            \/ UNCHANGED storageVars
            \/ serving.call.op = "deliver" /\ Deliver(serving.call.job, serving.alive, ok)
            \/ FinishQueue(serving.call.job) \/ RetryQueue(serving.call.job, ok)
            \/ RejectQueue(serving.call.job, state, ok)
        BY <1>2, WorkerCommit DEF MailInv
    <2>3. CASE serving.call.op = "deliver" /\ Deliver(serving.call.job, serving.alive, ok)
        BY <2>1, <2>3, PurgeDeliver
    <2>4. CASE ~Deliver(serving.call.job, serving.alive, ok) \/ serving.call.op # "deliver"
        <3>1. UNCHANGED <<requests, tombstones, mail>>
            BY <2>2, <2>4 DEF FinishQueue, RetryQueue, RejectQueue, storageVars, queueVars, mailVars
        <3> QED BY <1>1, <2>1, <3>1
    <2> QED BY <2>3, <2>4
<1>3. CASE CommitForwarding \/ RemoveRule \/ DiscardMail \/ DueAgain \/ Restart
    BY <1>1, <1>3 DEF CommitForwarding, ForwardingCreate, RemoveRule, ForwardingDelete, DiscardMail,
       DeleteMail, DueAgain, Restart, queueVars, mailVars
<1>4. CASE UNCHANGED vars \/ TakeJob \/ Scan \/ Transfer \/ Timeout \/ BeginWorkerCall \/ BeginLateCall
            \/ Submit \/ AskRoute \/ AskForwarding \/ AskMailboxDelete \/ Ask \/ CommitRoute
            \/ RefuseClient \/ Abort \/ GrowOld
    BY <1>1, <1>4 DEF vars, TakeJob, Scan, Transfer, Timeout, BeginWorkerCall, BeginLateCall, Submit,
       AskRoute, AskForwarding, AskMailboxDelete, Ask, CommitRoute, RefuseClient, Abort, GrowOld,
       storageVars, queueVars, mailVars
<1> QED BY <1>2, <1>3, <1>4, PurgeEnqueue, PurgeDelete, PurgeAccounts DEF Next

LEMMA PurgeInvHolds == Spec => [](MailInv /\ PurgeInv)
<1>1. Init => PurgeInv
    <2>1. SUFFICES ASSUME Init PROVE PurgeInv OBVIOUS
    <2>2. \A s \in Submissions : envelope[s].user = NoOne /\ envelope[s].request = NoOne
        BY <2>1 DEF Init, StorageInit, Unsent
    <2>3. mail = {} /\ \A u : ~Purging(u) BY <2>1 DEF Init, StorageInit, Purging
    <2> QED BY <2>2, <2>3 DEF PurgeInv, PurgesSpareOwners, RequestsRemembered, RequestQueuedOnce
<1> QED BY <1>1, NextPurge, MailInvHolds, PTL DEF Spec

(* A client that repeats its submission_id never queues its mail twice in the
   life of its account, whatever cleanups of earlier accounts come late.      *)
THEOREM RequestsAreQueuedOnce == Spec => []RequestQueuedOnce
<1>1. MailInv /\ PurgeInv => RequestQueuedOnce BY DEF PurgeInv
<1> QED BY <1>1, PurgeInvHolds, PTL

(* A mailbox_delete that comes late removes none of the new account's mail. *)
THEOREM CleanupsSpareOwners == Spec => CleanupSparesNewOwner
<1>1. ASSUME MailInv, PurgeInv, [Next]_vars
      PROVE  [serving # Idle => \A m \in mail \ mail' :
                m.owner \notin users \/ m.incarnation < incarnation[m.owner]]_vars
    <2>1. SUFFICES ASSUME serving # Idle, NEW m \in mail \ mail', m.owner \in users
                   PROVE  m.incarnation < incarnation[m.owner]
        OBVIOUS
    <2>2. CommitMailboxDelete
        <3>1. CASE CommitWorkerCall
            <4>1. PICK ok \in BOOLEAN, state \in {"rejected", "failed"} :
                    \/ UNCHANGED storageVars
                    \/ serving.call.op = "deliver" /\ Deliver(serving.call.job, serving.alive, ok)
                    \/ FinishQueue(serving.call.job) \/ RetryQueue(serving.call.job, ok)
                    \/ RejectQueue(serving.call.job, state, ok)
                BY <1>1, <3>1, WorkerCommit DEF MailInv
            <4>2. CASE Deliver(serving.call.job, serving.alive, ok)
                BY <4>2 DEF Deliver, Insert, storageVars, mailVars
            <4>3. CASE ~Deliver(serving.call.job, serving.alive, ok)
                BY <4>1, <4>3 DEF FinishQueue, RetryQueue, RejectQueue, storageVars, mailVars
            <4> QED BY <4>2, <4>3
        <3>2. CASE CommitEnqueue
            <4>1. mail \subseteq mail' BY <3>2 DEF CommitEnqueue, Enqueue
            <4> QED BY <2>1, <4>1
        <3>3. CASE ~CommitWorkerCall /\ ~CommitEnqueue /\ ~CommitMailboxDelete
            <4>1. mail' = mail
                BY <1>1, <2>1, <3>3 DEF Next, vars, TakeJob, Scan, Transfer, Timeout, BeginWorkerCall,
                   BeginLateCall, Submit, AskRoute, AskForwarding, AskMailboxDelete, Ask, CommitRoute,
                   CommitForwarding, ForwardingCreate, RefuseClient, Abort, AccountStep, RemoveRule,
                   DiscardMail, DueAgain, GrowOld, Restart, storageVars, mailVars
            <4> QED BY <2>1, <4>1
        <3> QED BY <3>1, <3>2, <3>3
    <2>3. m.owner = serving.call.owner
        BY <2>1, <2>2 DEF CommitMailboxDelete, MailboxDelete
    <2>4. NothingOf(m.owner) BY <1>1, <2>1, <2>2, <2>3, CommitsPurge
    <2> QED BY <2>1, <2>4 DEF NothingOf
<1> QED BY <1>1, PurgeInvHolds, PTL DEF Spec, CleanupSparesNewOwner
=============================================================================
