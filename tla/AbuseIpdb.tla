------------------------------ MODULE AbuseIpdb ------------------------------
(***************************************************************************)
(* The AbuseIPDB client of the authentication service: failed logins queue   *)
(* checks and reports for one worker, which also refreshes a blacklist; an   *)
(* administrator sends requests and probes quotas beside it.  The day's      *)
(* usage and the blacklists are kept in a database of their own; the rest is *)
(* memory guarded by a mutex nobody holds during a request.  Times are       *)
(* flags that say whether a moment has come.                                 *)
(***************************************************************************)
EXTENDS Naturals, FiniteSets, Sequences

CONSTANTS
    Callers,        \* administrators' requests that run at once
    Keys,           \* API keys
    Budget,         \* automatic requests of a day to one endpoint
    MaxQueue,       \* tasks that wait (256)
    MaxDays, MaxRequests, MaxChanges    \* bounds: days, requests, restarts and changes of the settings

ASSUME AbuseAssumption ==
    {Budget, MaxQueue, MaxDays, MaxRequests, MaxChanges} \subseteq Nat /\ IsFiniteSet(Callers)

VARIABLES
    abUsed,         \* endpoint -> requests reserved today           (database)
    abSaved,        \* keys whose blacklist is saved                  (database)
    abTried,        \* keys whose next scheduled refresh is not due   (database)
    abKey,          \* the configured key, NoKey for none             (settings, database)
    abGen,          \* generation: counts changes of the settings
    abQuota,        \* endpoint -> what is known of its quota, and for which key
    abList,         \* the key whose blacklist is in use, NoKey for none
    abLoad,         \* the worker must load the blacklist
    abQueue,        \* tasks that wait
    abPending,      \* a check of the address is queued or under way
    abCache,        \* the generation of the cached reputation, 0 for none
    abCalls,        \* the worker and every caller -> its request
    abDay, abCount,
    abSent          \* day and endpoint -> automatic requests sent on its reservations

abTables == <<abUsed, abSaved, abTried>>
abMemory == <<abQuota, abList, abLoad, abQueue, abPending, abCache>>
abVars == <<abTables, abMemory, abKey, abGen, abCalls, abDay, abCount, abSent>>

NoKey == "none"
Worker == "worker"
Endpoints == {"check", "report", "blacklist"}
Kinds == {"load", "scheduled", "check", "report", "probe", "manual"}
Automatic(kind) == kind \in {"scheduled", "check", "report", "probe"}
UnknownQuota == [level |-> "open", key |-> NoKey]     \* nothing is known, or enough is left
Free == [at |-> "free", kind |-> "load", endpoint |-> "check", key |-> NoKey, gen |-> 0, day |-> 0]
InFlight == {c \in {Worker} \cup Callers : abCalls[c].at \in {"reserve", "recheck", "sent"}}
InFlightTo(endpoint) == {c \in InFlight : abCalls[c].endpoint = endpoint}

AbuseTypeOK ==
    /\ abUsed \in [Endpoints -> 0..MaxRequests] /\ abSaved \subseteq Keys /\ abTried \subseteq Keys
    /\ abKey \in Keys \cup {NoKey} /\ abGen \in 1..MaxChanges + 1
    /\ abQuota \in [Endpoints -> [level : {"open", "reserve", "blocked"}, key : Keys \cup {NoKey}]]
    /\ abList \in Keys \cup {NoKey} /\ {abLoad, abPending} \subseteq BOOLEAN
    /\ Len(abQueue) <= MaxQueue /\ \A i \in DOMAIN abQueue : abQueue[i] \in [kind : {"check", "report"}, gen : Nat]
    /\ abCache \in 0..MaxChanges + 1
    /\ abCalls \in [{Worker} \cup Callers ->
         [at : {"free", "begin", "reserve", "recheck", "sent", "save"}, kind : Kinds, endpoint : Endpoints,
          key : Keys \cup {NoKey}, gen : Nat, day : 0..MaxDays]]
    /\ abDay \in 0..MaxDays /\ abCount \in 0..MaxRequests
    /\ abSent \in [(0..MaxDays) \X Endpoints -> 0..MaxRequests]

AbuseInit ==
    /\ abUsed = [e \in Endpoints |-> 0] /\ abSaved = {} /\ abTried = {}
    /\ abKey \in Keys \cup {NoKey} /\ abGen = 1
    /\ abQuota = [e \in Endpoints |-> UnknownQuota]
    /\ abList = NoKey /\ abLoad = TRUE
    /\ abQueue = <<>> /\ abPending = FALSE /\ abCache = 0
    /\ abCalls = [c \in {Worker} \cup Callers |-> Free]
    /\ abDay = 0 /\ abCount = 0 /\ abSent = [x \in (0..MaxDays) \X Endpoints |-> 0]

-----------------------------------------------------------------------------
(* observe_failures: a check and, past the threshold and the cooldown, a report are queued. *)
ObserveFailures ==
    /\ abKey # NoKey
    /\ \E report \in BOOLEAN :
         LET check == abCache = 0 /\ ~abPending /\ Len(abQueue) < MaxQueue
             waiting == IF check THEN Append(abQueue, [kind |-> "check", gen |-> abGen]) ELSE abQueue
             reported == report /\ Len(waiting) < MaxQueue
         IN  /\ check \/ reported
             /\ abPending' = (abPending \/ check)
             /\ abQueue' = IF reported THEN Append(waiting, [kind |-> "report", gen |-> 0]) ELSE waiting
    /\ UNCHANGED <<abTables, abKey, abGen, abQuota, abList, abLoad, abCache, abCalls, abDay, abCount, abSent>>

Request(at, kind, endpoint, gen) ==
    [at |-> at, kind |-> kind, endpoint |-> endpoint, key |-> abKey, gen |-> gen, day |-> 0]
Takes(request) == abCalls' = [abCalls EXCEPT ![Worker] = request]

(* The worker's next task: loading first, then a refresh when it is time for one, then the queue. *)
NextTask ==
    /\ abCalls[Worker].at = "free"
    /\ \/ /\ abLoad
          /\ abLoad' = FALSE
          /\ Takes(Request("save", "load", "blacklist", abGen))
          /\ UNCHANGED abQueue
       \/ /\ ~abLoad /\ abKey # NoKey
          /\ Takes(Request("begin", "scheduled", "blacklist", abGen))
          /\ UNCHANGED <<abLoad, abQueue>>
       \/ /\ ~abLoad /\ abQueue # <<>>
          /\ LET task == Head(abQueue)
             IN  IF task.kind = "check" /\ task.gen # abGen
                   THEN UNCHANGED abCalls
                   ELSE Takes(Request("begin", task.kind, task.kind, task.gen))
          /\ abQueue' = Tail(abQueue)
          /\ UNCHANGED abLoad
    /\ UNCHANGED <<abTables, abKey, abGen, abQuota, abList, abPending, abCache, abDay, abCount, abSent>>

-----------------------------------------------------------------------------
(* Mutant: an answer is taken up whatever the settings are now. *)
AnySettings(c) == c \in DOMAIN abCalls

(* What a request leaves behind, by kind, when it ends with or without data. *)
Current(c) == abCalls[c].gen = abGen
Settle(c, ok) ==
    LET kind == abCalls[c].kind
    IN  /\ abCalls' = [abCalls EXCEPT ![c] = IF kind = "scheduled" /\ ok /\ Current(c) THEN [@ EXCEPT !.at = "save"] ELSE Free]
        /\ IF kind = "check" /\ Current(c)
             THEN abPending' = FALSE /\ abCache' = abCalls[c].gen
             ELSE UNCHANGED <<abPending, abCache>>

(* perform, under the mutex: refused without a key, with a changed one, while the quota *)
(* is blocked or, for automatic requests, down to its reserve, and while two run.       *)
Admitted(request) ==
    LET quota == abQuota[request.endpoint].level
    IN  /\ abKey # NoKey /\ request.key = abKey
        /\ quota # "blocked"
        /\ Automatic(request.kind) => quota # "reserve"
        /\ Cardinality(InFlight) < 2

(* An administrator's request, or one of the probes of refresh_quotas. *)
Ask(c) ==
    /\ abCalls[c].at = "free" /\ abCount < MaxRequests
    /\ \E kind \in {"manual", "probe"}, endpoint \in Endpoints :
         LET request == Request("reserve", kind, endpoint, abGen)
         IN  /\ kind = "probe" => endpoint # "report"
             /\ Admitted(request)
             /\ abCalls' = [abCalls EXCEPT ![c] = request]
    /\ abCount' = abCount + 1
    /\ UNCHANGED <<abTables, abMemory, abKey, abGen, abDay, abSent>>

(* The quota may have just the headroom that requests in flight will use. *)
Headroom == InFlightTo(abCalls[Worker].endpoint) # {}

Begin ==
    /\ abCalls[Worker].at = "begin"
    /\ \/ /\ Admitted(abCalls[Worker]) /\ abCount < MaxRequests
          /\ abCalls' = [abCalls EXCEPT ![Worker].at = "reserve"]
          /\ abCount' = abCount + 1
          /\ UNCHANGED <<abPending, abCache>>
       \/ /\ ~Admitted(abCalls[Worker]) \/ Headroom
          /\ Settle(Worker, FALSE)
          /\ UNCHANGED abCount
    /\ UNCHANGED <<abTables, abKey, abGen, abQuota, abList, abLoad, abQueue, abDay, abSent>>

(* reserve: one transaction counts the request before it is sent. *)
Reservable(c) ==
    LET call == abCalls[c]
    IN  /\ Automatic(call.kind) => abUsed[call.endpoint] < Budget
        /\ call.kind = "scheduled" => call.key \notin abTried

Reserve(c) ==
    /\ abCalls[c].at = "reserve"
    /\ IF Reservable(c)
         THEN /\ abUsed' = [abUsed EXCEPT ![abCalls[c].endpoint] = @ + 1]
              /\ abTried' = IF abCalls[c].kind = "scheduled" THEN abTried \cup {abCalls[c].key} ELSE abTried
              /\ abCalls' = [abCalls EXCEPT ![c].at = "recheck", ![c].day = abDay]
              /\ UNCHANGED <<abPending, abCache>>
         ELSE Settle(c, FALSE) /\ UNCHANGED <<abUsed, abTried>>
    /\ UNCHANGED <<abSaved, abKey, abGen, abQuota, abList, abLoad, abQueue, abDay, abCount, abSent>>

(* The database is locked or damaged. *)
StorageUnavailable(c) ==
    /\ abCalls[c].at = "reserve"
    /\ Settle(c, FALSE)
    /\ UNCHANGED <<abTables, abKey, abGen, abQuota, abList, abLoad, abQueue, abDay, abCount, abSent>>

(* The key is compared once more before the request leaves. *)
Send(c) ==
    /\ abCalls[c].at = "recheck"
    /\ IF abCalls[c].key = abKey
         THEN /\ abCalls' = [abCalls EXCEPT ![c].at = "sent"]
              /\ abSent' = IF Automatic(abCalls[c].kind)
                           THEN [abSent EXCEPT ![<<abCalls[c].day, abCalls[c].endpoint>>] = @ + 1] ELSE abSent
              /\ UNCHANGED <<abPending, abCache>>
         ELSE Settle(c, FALSE) /\ UNCHANGED abSent
    /\ UNCHANGED <<abTables, abKey, abGen, abQuota, abList, abLoad, abQueue, abDay, abCount>>

(* The answer: quotas merge into those known, an older answer never ends a backoff. *)
Merged(old, level, key) ==
    IF level = "open" \/ old.level = "blocked" THEN old ELSE [level |-> level, key |-> key]

Answer(c) ==
    /\ abCalls[c].at = "sent"
    /\ \E ok \in BOOLEAN, level \in {"open", "reserve", "blocked"} :
         LET mine == abCalls[c].key = abKey
         IN  /\ abQuota' = IF mine THEN [abQuota EXCEPT ![abCalls[c].endpoint] = Merged(@, level, abKey)] ELSE abQuota
             /\ Settle(c, ok /\ mine)
    /\ UNCHANGED <<abTables, abKey, abGen, abList, abLoad, abQueue, abDay, abCount, abSent>>

Unreachable(c) ==
    /\ abCalls[c].at = "sent"
    /\ Settle(c, FALSE)
    /\ UNCHANGED <<abTables, abKey, abGen, abQuota, abList, abLoad, abQueue, abDay, abCount, abSent>>

(* A fetched list is saved for the key that fetched it, then used if the settings still hold. *)
SaveList ==
    /\ abCalls[Worker].at = "save" /\ abCalls[Worker].kind = "scheduled"
    /\ \E saved \in BOOLEAN :
         /\ abSaved' = IF saved THEN abSaved \cup {abCalls[Worker].key} ELSE abSaved
         /\ abList' = IF saved /\ Current(Worker) THEN abCalls[Worker].key ELSE abList
    /\ Takes(Free)
    /\ UNCHANGED <<abUsed, abTried, abKey, abGen, abQuota, abLoad, abQueue, abPending, abCache, abDay, abCount, abSent>>

(* The saved list of the key, if it is not a day old. *)
LoadList ==
    /\ abCalls[Worker].at = "save" /\ abCalls[Worker].kind = "load"
    /\ abList' = IF ~Current(Worker) THEN abList
                 ELSE IF abCalls[Worker].key \in abSaved THEN abCalls[Worker].key ELSE NoKey
    /\ Takes(Free)
    /\ UNCHANGED <<abTables, abKey, abGen, abQuota, abLoad, abQueue, abPending, abCache, abDay, abCount, abSent>>

-----------------------------------------------------------------------------
(* configure: quotas are forgotten when the key changes, the rest always. *)
Configure(key) ==
    /\ abKey' = key
    /\ abList' = NoKey /\ abLoad' = TRUE
    /\ abQueue' = <<>> /\ abPending' = FALSE /\ abCache' = 0

ChangeSettings ==
    /\ abGen <= MaxChanges
    /\ abGen' = abGen + 1
    /\ \E key \in Keys \cup {NoKey} :
         /\ Configure(key)
         /\ abQuota' = IF key = abKey THEN abQuota ELSE [e \in Endpoints |-> UnknownQuota]
    /\ UNCHANGED <<abTables, abCalls, abDay, abCount, abSent>>

Restart ==
    /\ abGen <= MaxChanges
    /\ abGen' = abGen + 1
    /\ Configure(abKey)
    /\ abQuota' = [e \in Endpoints |-> UnknownQuota]
    /\ abCalls' = [c \in {Worker} \cup Callers |-> Free]
    /\ UNCHANGED <<abTables, abDay, abCount, abSent>>

(* Time: a UTC day begins, a backoff or a cache entry ends, a refresh is due, a list is too old. *)
NextDay ==
    /\ abDay < MaxDays
    /\ abDay' = abDay + 1
    /\ abUsed' = [e \in Endpoints |-> 0]
    /\ UNCHANGED <<abSaved, abTried, abMemory, abKey, abGen, abCalls, abCount, abSent>>

Elapse ==
    /\ \E quota \in {abQuota, [e \in Endpoints |-> UnknownQuota]}, tried \in {abTried, {}},
          cache \in {abCache, 0} :
         /\ abQuota' = quota /\ abTried' = tried /\ abCache' = cache
    /\ UNCHANGED <<abUsed, abSaved, abKey, abGen, abList, abLoad, abQueue, abPending, abCalls, abDay, abCount, abSent>>

ListExpires ==
    /\ abList # NoKey
    /\ abList' = NoKey /\ abSaved' = abSaved \ {abList}
    /\ UNCHANGED <<abUsed, abTried, abKey, abGen, abQuota, abLoad, abQueue, abPending, abCache, abCalls, abDay, abCount, abSent>>

AbuseNext ==
    \/ ObserveFailures \/ NextTask \/ SaveList \/ LoadList
    \/ \E c \in Callers : Ask(c)
    \/ Begin
    \/ \E c \in {Worker} \cup Callers : Reserve(c) \/ StorageUnavailable(c) \/ Send(c) \/ Answer(c) \/ Unreachable(c)
    \/ ChangeSettings \/ Restart \/ NextDay \/ Elapse \/ ListExpires

AbuseSpec == AbuseInit /\ [][AbuseNext]_abVars

-----------------------------------------------------------------------------
(* No more automatic requests go to an endpoint on a day's reservations than *)
(* the day's budget, however requests of two callers interleave, and across  *)
(* restarts and changes of the key (AutomationStore::reserve).               *)
BudgetKept == \A x \in DOMAIN abSent : abSent[x] <= Budget

(* The blacklist, the reputations and the quotas in use were obtained with   *)
(* the present key and settings: an answer that arrives after a change of    *)
(* the settings, or a list read before it, is not taken up.                  *)
AnswersAreOfThisKey ==
    /\ abList \in {NoKey, abKey}
    /\ abCache \in {0, abGen}
    /\ \A e \in Endpoints : abQuota[e].key \in {NoKey, abKey}

(* Whatever two callers, restarts and changes of the key do in between, the  *)
(* day's budget of each endpoint is kept, and only answers to the present      *)
(* key are in use.                                                          *)
ClientKeepsToItsKey == BudgetKept /\ AnswersAreOfThisKey
=============================================================================
