------------------------------ MODULE Listeners ------------------------------
(***************************************************************************)
(* How a service accepts and ends connections: one accepting thread for each *)
(* listener, a pool with a worker for each connection that may be open, the  *)
(* main thread that waits for a reason to stop, and the reactor thread that  *)
(* executes the network operations of all of them.                          *)
(***************************************************************************)
EXTENDS Naturals, FiniteSets, Sequences

CONSTANTS
    Ports,              \* the service's listeners
    Arrivals,           \* bound: connections that arrive, numbered as they do
    MaxConnections,     \* max_connections: open connections, and workers
    MaxListenFaults     \* bound: threads that do not start, accepts and posts that fail

ASSUME ListenersAssumption == {MaxConnections, Arrivals} \subseteq Nat \ {0} /\ MaxListenFaults \in Nat

VARIABLES
    lnMain,         \* the main thread
    lnReason,       \* why the service stops
    lnStopping,     \* the flag that the accepting threads read
    lnClosed,       \* the listening sockets are closed
    lnFailed,       \* listener_failed
    lnAcceptor,     \* each accepting thread, and the connection it holds
    lnRegistry,     \* connections: weak pointers
    lnQueue,        \* work posted to the pool and not begun
    lnConn,         \* the life of each connection
    lnIo,           \* the network operation of its session
    lnStop,         \* how far request_stop has come
    lnFaults

lnVars == <<lnMain, lnReason, lnStopping, lnClosed, lnFailed, lnAcceptor, lnRegistry, lnQueue, lnConn,
            lnIo, lnStop, lnFaults>>

Cancelling == {"signal", "listener failed"}
Clients == 1..Arrivals
NoClient == 0
Operations == {"line", "poll", "write"}

ListenersTypeOK ==
    /\ lnMain \in {"starting", "serving", "stopping", "notifying", "joining acceptors", "cancelling",
                   "joining workers", "returned", "threw"}
    /\ lnReason \in Cancelling \cup {"none", "requested", "no thread"}
    /\ lnStopping \in BOOLEAN /\ lnClosed \in BOOLEAN /\ lnFailed \in BOOLEAN
    /\ lnAcceptor \in [Ports -> [at : {"unstarted", "accepting", "asking", "asleep", "posting", "ended"},
                                 connection : Clients \cup {NoClient}]]
    /\ lnRegistry \in SUBSET Clients /\ lnQueue \in Seq(Clients)
    /\ lnConn \in [Clients -> {"none", "accepted", "queued", "checking", "open", "released", "over"}]
    /\ lnIo \in [Clients -> {"idle", "called", "waiting"} \X (Operations \cup {"none"})]
    /\ lnStop \in [Clients -> {"no", "flagged", "reached"}]
    /\ lnFaults \in 0..MaxListenFaults

NoOperation == <<"idle", "none">>

ListenersInit ==
    /\ lnMain = "starting" /\ lnReason = "none"
    /\ lnStopping = FALSE /\ lnClosed = FALSE /\ lnFailed = FALSE
    /\ lnAcceptor = [p \in Ports |-> [at |-> "unstarted", connection |-> NoClient]]
    /\ lnRegistry = {} /\ lnQueue = <<>>
    /\ lnConn = [c \in Clients |-> "none"]
    /\ lnIo = [c \in Clients |-> NoOperation]
    /\ lnStop = [c \in Clients |-> "no"]
    /\ lnFaults = 0

-----------------------------------------------------------------------------
(* A connection lives as long as a thread or the queue owns it. *)
Alive(c) == lnConn[c] \in {"accepted", "queued", "checking", "open"}
Busy == {c \in Clients : lnConn[c] \in {"checking", "open", "released"}}   \* one worker each

(* The registry forgets what has expired. *)
Listed == {c \in lnRegistry : Alive(c)}
HasCapacity == Cardinality(Listed) < MaxConnections

Accepting(p, at, c) == lnAcceptor' = [lnAcceptor EXCEPT ![p] = [at |-> at, connection |-> c]]
Becomes(c, life) == lnConn' = [lnConn EXCEPT ![c] = life]
Ended(p) == Accepting(p, "ended", NoClient)

(* Mutant: the end of a session is not announced to the waiting threads. *)
StillAsleep(acceptors) == acceptors

(* notify_all on the condition variable. *)
Awake(acceptors) == [p \in Ports |-> IF acceptors[p].at = "asleep" THEN [acceptors[p] EXCEPT !.at = "asking"]
                                     ELSE acceptors[p]]
Fault == lnFaults < MaxListenFaults /\ lnFaults' = lnFaults + 1

mainVars == <<lnMain, lnReason, lnStopping, lnClosed>>
poolVars == <<lnRegistry, lnQueue>>
ioVars == <<lnIo, lnStop>>

-----------------------------------------------------------------------------
(* The accepting threads *)

(* Also while the service stops, until the socket is closed. *)
Accept(p) ==
    /\ lnAcceptor[p].at = "accepting" /\ ~lnClosed
    /\ \E c \in Clients :
         /\ lnConn[c] = "none" /\ \A d \in 1..(c - 1) : lnConn[d] # "none"
         /\ Becomes(c, "accepted") /\ Accepting(p, "asking", c)
    /\ UNCHANGED <<mainVars, lnFailed, poolVars, ioVars, lnFaults>>

(* accept() fails: its listener was closed, or the system refused. *)
AcceptFails(p) ==
    /\ lnAcceptor[p].at = "accepting"
    /\ IF lnClosed THEN UNCHANGED lnFaults ELSE Fault
    /\ lnFailed' = (lnFailed \/ ~lnStopping)
    /\ Ended(p)
    /\ UNCHANGED <<mainVars, poolVars, lnConn, ioVars>>

(* The accept timed out and the loop's condition is read again. *)
SeesStop(p) ==
    /\ lnAcceptor[p].at = "accepting" /\ lnStopping
    /\ Ended(p)
    /\ UNCHANGED <<mainVars, lnFailed, poolVars, lnConn, ioVars, lnFaults>>

(* wait_for evaluates its predicate with the mutex held; outTime: for the last time. *)
AskCapacity(p, outTime) ==
    LET c == lnAcceptor[p].connection IN
    /\ lnAcceptor[p].at = (IF outTime THEN "asleep" ELSE "asking")
    /\ IF lnStopping
       THEN Becomes(c, "over") /\ Ended(p) /\ lnRegistry' = Listed
       ELSE IF HasCapacity
       THEN Accepting(p, "posting", c) /\ lnRegistry' = Listed \cup {c} /\ UNCHANGED lnConn
       ELSE IF outTime
       THEN Becomes(c, "over") /\ Accepting(p, "accepting", NoClient) /\ lnRegistry' = Listed
       ELSE Accepting(p, "asleep", c) /\ lnRegistry' = Listed /\ UNCHANGED lnConn
    /\ UNCHANGED <<mainVars, lnFailed, lnQueue, ioVars, lnFaults>>

Post(p) ==
    /\ lnAcceptor[p].at = "posting"
    /\ lnQueue' = Append(lnQueue, lnAcceptor[p].connection)
    /\ Becomes(lnAcceptor[p].connection, "queued") /\ Accepting(p, "accepting", NoClient)
    /\ UNCHANGED <<mainVars, lnFailed, lnRegistry, ioVars, lnFaults>>

(* No memory for the work: the thread ends, and its connection with it. *)
PostFails(p) ==
    /\ lnAcceptor[p].at = "posting" /\ Fault
    /\ Becomes(lnAcceptor[p].connection, "over") /\ Ended(p)
    /\ lnFailed' = TRUE
    /\ UNCHANGED <<mainVars, poolVars, ioVars>>

-----------------------------------------------------------------------------
(* The workers *)

TakeWork ==
    /\ lnQueue # <<>> /\ Cardinality(Busy) < MaxConnections
    /\ lnQueue' = Tail(lnQueue)
    /\ Becomes(Head(lnQueue), "checking")
    /\ UNCHANGED <<mainVars, lnFailed, lnAcceptor, lnRegistry, ioVars, lnFaults>>

(* auth allows the peer; a handshake of implicit TLS is the session's first operation. *)
PeerAllowed(c) ==
    /\ lnConn[c] = "checking"
    /\ Becomes(c, "open")
    /\ UNCHANGED <<mainVars, lnFailed, lnAcceptor, poolVars, ioVars, lnFaults>>

(* The session's end destroys the connection before the mutex is taken to notify. *)
ReleaseConnection(c) ==
    /\ Becomes(c, "released")
    /\ UNCHANGED lnAcceptor

(* The peer is banned, or cannot be checked in two seconds. *)
PeerRefused(c) ==
    /\ lnConn[c] = "checking"
    /\ ReleaseConnection(c)
    /\ UNCHANGED <<mainVars, lnFailed, poolVars, ioVars, lnFaults>>

(* The handler returns. *)
SessionEnds(c) ==
    /\ lnConn[c] = "open" /\ lnIo[c] = NoOperation
    /\ ReleaseConnection(c)
    /\ UNCHANGED <<mainVars, lnFailed, poolVars, ioVars, lnFaults>>

(* While request_stop is sent to the sessions, the mutex is held. *)
NotifyCapacity(c) ==
    /\ lnConn[c] = "released" /\ lnMain # "cancelling"
    /\ Becomes(c, "over")
    /\ lnAcceptor' = Awake(lnAcceptor)
    /\ UNCHANGED <<mainVars, lnFailed, poolVars, ioVars, lnFaults>>
-----------------------------------------------------------------------------
(* The network operations of the sessions: called by a worker, executed by the reactor *)

Performs(c, stage, op) == lnIo' = [lnIo EXCEPT ![c] = <<stage, op>>] /\ UNCHANGED <<lnConn, lnAcceptor>>
Returns(c) == Performs(c, "idle", "none")
(* The operation throws, and the session ends with it. *)
Raises(c) == lnIo' = [lnIo EXCEPT ![c] = NoOperation] /\ ReleaseConnection(c)
Stopped(c) == lnStop[c] # "no"
SameForSession == UNCHANGED <<mainVars, lnFailed, poolVars, lnStop, lnFaults>>

(* Reading looks at the flag before it asks the reactor. *)
Call(c, op) ==
    /\ lnConn[c] = "open" /\ lnIo[c] = NoOperation
    /\ IF Stopped(c) /\ op # "write" THEN Raises(c) ELSE Performs(c, "called", op)
    /\ SameForSession

(* Mutant: the wait begins without another look at the flag. *)
WaitAnyway(c) == lnIo[c][1] = "called" /\ Performs(c, "waiting", lnIo[c][2]) /\ SameForSession

(* A stop may have come before the reactor gets to the operation. *)
Execute(c) ==
    /\ lnIo[c][1] = "called"
    /\ IF Stopped(c) THEN Raises(c) ELSE Performs(c, "waiting", lnIo[c][2])
    /\ SameForSession

Complete(c) ==
    /\ lnIo[c][1] = "waiting"
    /\ IF Stopped(c) THEN Raises(c) ELSE Returns(c)
    /\ SameForSession

(* A poll that times out leaves the connection usable; every other operation ends it. *)
OperationTimesOut(c) ==
    /\ lnIo[c][1] = "waiting"
    /\ IF lnIo[c][2] = "poll" /\ ~Stopped(c) THEN Returns(c) ELSE Raises(c)
    /\ SameForSession

(* The peer closes, or breaks the protocol. *)
OperationFails(c) == lnIo[c][1] = "waiting" /\ Raises(c) /\ SameForSession

(* The reactor's part of request_stop cancels what is waiting. *)
CancelWait(c) ==
    /\ lnStop[c] = "flagged"
    /\ lnStop' = [lnStop EXCEPT ![c] = "reached"]
    /\ IF lnIo[c][1] = "waiting" THEN Raises(c) ELSE UNCHANGED <<lnIo, lnConn, lnAcceptor>>
    /\ UNCHANGED <<mainVars, lnFailed, poolVars, lnFaults>>

-----------------------------------------------------------------------------
(* The main thread *)

workVars == <<lnFailed, poolVars, lnConn, ioVars>>
ArrivesAt(at) == lnMain' = at

StartThread(p) ==
    /\ lnMain = "starting" /\ lnAcceptor[p].at = "unstarted"
    /\ Accepting(p, "accepting", NoClient)
    /\ ArrivesAt(IF \A q \in Ports \ {p} : lnAcceptor[q].at # "unstarted" THEN "serving" ELSE "starting")
    /\ UNCHANGED <<lnReason, lnStopping, lnClosed, workVars, lnFaults>>

(* JoinAcceptors stops the threads that were started. *)
ThreadFails ==
    /\ lnMain = "starting" /\ Fault
    /\ ArrivesAt("stopping") /\ lnReason' = "no thread"
    /\ UNCHANGED <<lnStopping, lnClosed, lnAcceptor, workVars>>

(* A signal, a listener that failed, or a request of the handlers (setup is complete). *)
FindReason ==
    /\ lnMain = "serving"
    /\ lnReason' \in {"signal", "requested"} \cup (IF lnFailed THEN {"listener failed"} ELSE {})
    /\ ArrivesAt("stopping")
    /\ UNCHANGED <<lnStopping, lnClosed, lnAcceptor, workVars, lnFaults>>

SetStopping ==
    /\ lnMain = "stopping"
    /\ ArrivesAt("notifying") /\ lnStopping' = TRUE
    /\ UNCHANGED <<lnReason, lnClosed, lnAcceptor, workVars, lnFaults>>

CloseListeners ==
    /\ lnMain = "notifying"
    /\ lnAcceptor' = Awake(lnAcceptor) /\ lnClosed' = TRUE
    /\ ArrivesAt("joining acceptors")
    /\ UNCHANGED <<lnReason, lnStopping, workVars, lnFaults>>

JoinAcceptors ==
    /\ lnMain = "joining acceptors"
    /\ \A p \in Ports : lnAcceptor[p].at \in {"unstarted", "ended"}
    /\ ArrivesAt(IF lnReason \in Cancelling THEN "cancelling" ELSE "joining workers")
    /\ UNCHANGED <<lnReason, lnStopping, lnClosed, lnAcceptor, workVars, lnFaults>>

(* One registered session after another; each call waits for the reactor. *)
RequestStop(c) ==
    /\ lnMain = "cancelling" /\ c \in Listed /\ ~Stopped(c)
    /\ \A d \in Clients : lnStop[d] # "flagged"
    /\ lnStop' = [lnStop EXCEPT ![c] = "flagged"]
    /\ UNCHANGED <<mainVars, lnFailed, lnAcceptor, poolVars, lnConn, lnIo, lnFaults>>

AllRequested ==
    /\ lnMain = "cancelling"
    /\ \A c \in Clients : lnStop[c] # "flagged"
    /\ \A c \in Listed : lnStop[c] = "reached"
    /\ ArrivesAt("joining workers")
    /\ UNCHANGED <<lnReason, lnStopping, lnClosed, lnAcceptor, workVars, lnFaults>>

(* The pool executes what was posted before its workers end. *)
JoinWorkers ==
    /\ lnMain = "joining workers" /\ lnQueue = <<>> /\ Busy = {}
    /\ ArrivesAt(IF lnFailed \/ lnReason = "no thread" THEN "threw" ELSE "returned")
    /\ UNCHANGED <<lnReason, lnStopping, lnClosed, lnAcceptor, workVars, lnFaults>>

-----------------------------------------------------------------------------
ListenersNext ==
    \/ \E p \in Ports : \/ Accept(p) \/ AcceptFails(p) \/ SeesStop(p) \/ Post(p) \/ PostFails(p)
                         \/ StartThread(p)
                         \/ \E outTime \in BOOLEAN : AskCapacity(p, outTime)
    \/ \E c \in Clients : \/ PeerAllowed(c) \/ PeerRefused(c) \/ SessionEnds(c) \/ NotifyCapacity(c)
                           \/ Execute(c) \/ Complete(c) \/ OperationTimesOut(c) \/ OperationFails(c)
                           \/ CancelWait(c) \/ RequestStop(c)
                           \/ \E op \in Operations : Call(c, op)
    \/ TakeWork \/ ThreadFails \/ FindReason \/ SetStopping \/ CloseListeners
    \/ JoinAcceptors \/ AllRequested \/ JoinWorkers

ListenersSpec == ListenersInit /\ [][ListenersNext]_lnVars

-----------------------------------------------------------------------------
(* No more connections than max_connections are registered and alive, so that every one in the     *)
(* queue gets a worker that no open session occupies.                                              *)
CapacityKept ==
    /\ Cardinality(Listed) <= MaxConnections
    /\ Len(lnQueue) + Cardinality({c \in Clients : lnConn[c] \in {"checking", "open"}}) <= MaxConnections

(* A thread sleeps only while nothing is free, or before a notification that is on its way.  The   *)
(* end of a thread that could not post its connection frees a place unannounced: it also ends the  *)
(* service, and the other thread looks again after 200 ms.                                         *)
NoLostWakeup ==
    \A p \in Ports : lnAcceptor[p].at = "asleep" =>
        \/ ~HasCapacity /\ ~lnStopping
        \/ lnMain = "notifying" \/ lnFailed
        \/ \E c \in Clients : lnConn[c] = "released"

(* Once the main thread waits for the workers of a cancelled service, every session has been told: *)
(* none is left in a network wait.  When it is through, no connection is left.                     *)
StopReachesAll ==
    /\ lnMain = "joining workers" /\ lnReason \in Cancelling =>
         \A c \in Clients : Alive(c) => lnStop[c] = "reached" /\ lnIo[c][1] # "waiting"
    /\ lnMain \in {"returned", "threw"} => \A c \in Clients : lnConn[c] \in {"none", "over"}

(* A service keeps account of its connections: the capacity is kept and given on, also when a      *)
(* session ends while another connection begins to wait for it, and a stop reaches each of them,   *)
(* whatever it is doing (serve_listeners, Connection::bounded and poll, request_stop).             *)
SessionsAreAccountedFor == CapacityKept /\ NoLostWakeup /\ StopReachesAll
=============================================================================
