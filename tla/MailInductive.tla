--------------------------- MODULE MailInductive ----------------------------
(* The inductive invariants of MailDelivery: what the proofs in MailProofs    *)
(* rest on, and what TLC checks on its instances first.                       *)
EXTENDS MailRefinement

(* The request storage executes for the worker is the one the worker awaits. *)
WorkerIsServed ==
    serving # Idle /\ serving.answer = "worker"
    => pc \in CallOps /\ serving.call = [op |-> pc, job |-> job]

(* A deliver request, wherever it is, names a job pinned to a mailbox: it was
   made from the answer of resolve_recipient, and an envelope never changes.  *)
DeliverHasInbox ==
    /\ pc = "deliver" => Destination(job) \in Mailboxes
    /\ \A c \in late : c.op = "deliver" => Destination(c.job) \in Mailboxes
    /\ serving # Idle /\ serving.call.op = "deliver" => Destination(serving.call.job) \in Mailboxes

(* The type invariant and what makes it inductive. *)
TypeInv == TypeOK /\ WorkerIsServed /\ DeliverHasInbox

(* A copy in an Inbox has left the receipt that deliver looks for. *)
CopiesHaveReceipts ==
    \A d \in Mailboxes \X Submissions :
        inserted[d] <= 1 /\ (inserted[d] = 1 => d \in subReceipts)

(* Nothing in storage refers to the mailbox any more: what mailbox_delete
   leaves behind, and what holds as long as the address has no account.     *)
Clean(u) ==
    /\ \A j \in Jobs : queue[j] # "absent" /\ IsLocal(j) => Destination(j) # u
    /\ \A p \in Patterns : rules[p] # u
    /\ serving # Idle => u \notin serving.alive

(* Between storage's question to auth and its commit an account may be
   disabled, but its cleanup cannot finish: finishing needs the current
   cleanup_id and a mailbox_delete that ran after the account was disabled,
   and that waits for the mutex the asking request holds.                    *)
OwnersInv ==
    /\ users \cap deleting = {}
    /\ serving # Idle => serving.alive \subseteq users \cup deleting
    /\ serving # Idle /\ serving.call.op = "mailboxDelete"
       => LET c == serving.call IN
          /\ c.cleanup <= incarnation[c.owner]
          /\ c.cleanup = incarnation[c.owner] => c.owner \notin users
    /\ \A u \in Mailboxes, n \in 1..MaxIncarnations : <<u, n>> \in purged
       => /\ n <= incarnation[u]
          /\ n = incarnation[u] => u \notin users /\ Clean(u)
    /\ QueueTargetsHaveOwners
    /\ RuleTargetsHaveOwners

-----------------------------------------------------------------------------
(* What becomes of a job *)

(* The message of j is where it should be. *)
Arrived(j) ==
    IF IsLocal(j) THEN Destination(j) \in Mailboxes /\ inserted[<<Destination(j), j[1]>>] = 1
                  ELSE j \in transferred

(* What justifies finishing j: a receipt of deliver, or the remote answer. *)
Earned(j) ==
    IF IsLocal(j) THEN Destination(j) \in Mailboxes /\ AlreadyReceived(Destination(j), j)
                  ELSE j \in transferred

(* A step, or a request of the worker, belongs to the kind of job it is about,
   and finishes only a job whose message has been received.                  *)
Justified(step, j) ==
    /\ Committed(j)
    /\ step \in {"resolve", "deliver"} => IsLocal(j)
    /\ step = "send" => ~IsLocal(j)
    /\ step = "finish" => Earned(j)

WorkIsJustified ==
    /\ pc # "list" => Justified(pc, job)
    /\ \A c \in late : Justified(c.op, c.job)
    /\ serving # Idle /\ serving.call.op \in CallOps => Justified(serving.call.op, serving.call.job)

(* A request to queue has recipients, and routes a remote one nowhere else. *)
GoodRoutes(routes) ==
    /\ \A r \in Remotes : routes[r] \in {r, NoOne}
    /\ \A r \in LocalAddresses : routes[r] \in Mailboxes \cup {NoOne}

RoutesAreGood ==
    /\ \A s \in Submissions : GoodRoutes(envelope[s].routes)
    /\ serving # Idle /\ serving.call.op = "enqueue"
       => /\ GoodRoutes(serving.call.routes) /\ Addressed(serving.call.routes) # {}
          /\ serving.call.user = NoOne => serving.call.request = NoOne

(* Rows belong to committed jobs: nothing is known of a fresh submission. *)
RowsAreCommitted ==
    /\ \A j \in Jobs : queue[j] # "absent" => Committed(j)
    /\ \A j \in due : queue[j] = "pending"
    /\ \A j \in Jobs : Fresh(j[1]) => status[j] = "none" /\ j \notin transferred
    /\ \A u \in Mailboxes, s \in Submissions : Fresh(s) => inserted[<<u, s>>] = 0
    /\ \A m \in mail : m.box = "Inbox" => ~Fresh(m.sub)

(* A receipt of a job that is still queued stands for a stored copy. The
   receipts mailbox_delete leaves belong to jobs it removes.                *)
ReceiptsAreTrue ==
    /\ \A d \in subReceipts : inserted[d] = 1
    /\ \A r \in receipts :
        /\ Committed(r[2])
        /\ queue[r[2]] = "absent" \/ inserted[<<r[1], r[2][1]>>] = 1

(* What storage has recorded is so. *)
RecordsAreTrue ==
    /\ RowsAreCommitted /\ ReceiptsAreTrue
    /\ \A j \in Jobs : status[j] = "delivered" => Committed(j) /\ Arrived(j)
    /\ StatusMatchesQueue

JourneyInv == WorkIsJustified /\ RoutesAreGood /\ RecordsAreTrue

-----------------------------------------------------------------------------
(* What one owner of an address leaves to the next *)

(* mailbox_delete has been told that the account is gone. *)
Purging(u) ==
    /\ serving # Idle /\ serving.call.op = "mailboxDelete" /\ serving.call.owner = u
    /\ u \in serving.asked \ serving.alive

(* Nothing is stored for the present owner of the address. *)
NothingOf(u) ==
    /\ \A m \in mail : m.owner = u => m.incarnation < incarnation[u]
    /\ \A s \in Submissions : envelope[s].user = u => envelope[s].era < incarnation[u]

(* Nobody owns the address, and storage refuses to store anything for it. *)
Closed(u) == u \notin users /\ u \in tombstones /\ (serving # Idle => u \notin serving.alive)

(* Whoever registers while a purge is under way has nothing to lose to it. *)
PurgesSpareOwners ==
    /\ \A m \in mail : m.incarnation <= incarnation[m.owner]
    /\ \A s \in Submissions : envelope[s].user # NoOne => envelope[s].era <= incarnation[envelope[s].user]
    /\ \A u \in users : Purging(u) => NothingOf(u)

(* The request identifiers of the present owner are all remembered. *)
RequestsRemembered ==
    \A s \in Submissions :
        LET e == envelope[s] IN
        /\ e.user = NoOne => e.request = NoOne
        /\ e.request # NoOne /\ e.era = incarnation[e.user]
           => <<e.user, e.request>> \in requests \/ Closed(e.user)

(* A queued job was accepted for the present owner of its mailbox, and a job
   that has left the queue has left a receipt there.                         *)
OldRoutesAreClosed ==
    \A j \in Jobs :
        Committed(j) /\ IsLocal(j) /\ Unshared(Destination(j), j[1])
        => IF queue[j] = "absent" THEN AlreadyReceived(Destination(j), j)
           ELSE accepted[<<Destination(j), j[1]>>] = incarnation[Destination(j)]

(* What the address brings to its owners. *)
OwnMailInv == OldRoutesAreClosed /\ UnsharedMailStaysWithItsOwner

(* What a purge takes from them, and which requests it makes storage forget. *)
PurgeInv == PurgesSpareOwners /\ RequestsRemembered /\ RequestQueuedOnce
=============================================================================
