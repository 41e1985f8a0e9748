---------------------------- MODULE LoginSecurity ----------------------------
(***************************************************************************)
(* Login protection of the authentication service: failure counters and    *)
(* bans of IP addresses in SQLite, reservations of running verifications   *)
(* in memory.                                                              *)
(*                                                                         *)
(* verify holds the mutex twice and hashes between: it reserves before the *)
(* hash (begin_auth) and settles after it (finish_auth).  API keys and     *)
(* malformed requests do both under one mutex.  Windows and bans end at    *)
(* any time.                                                               *)
(***************************************************************************)
EXTENDS Integers, FiniteSets

CONSTANTS
    Ips,            \* addresses of peers; a call without one is not protected
    Calls,          \* verifications that may run at once
    Policies,       \* login security policies an administrator may save
    MaxIps,         \* max_security_ips
    ExpiryBatch,    \* bans that expire_security removes at most
    MaxRevision,    \* bound: policy changes
    MaxFaults       \* bound: transactions that cannot begin

(* exempt: addresses on the allowlist, or all when the policy is disabled.   *)
Policy == [exempt : SUBSET Ips, failures : Nat \ {0}, unknown : Nat \ {0}]

ASSUME SecurityAssumption ==
    /\ IsFiniteSet(Calls)
    /\ Policies \subseteq Policy /\ Policies # {}
    /\ MaxIps \in Nat \ {0} /\ ExpiryBatch \in Nat \ {0}
    /\ MaxRevision \in Nat /\ MaxFaults \in Nat

VARIABLES
    attempts,   \* security_attempts, by address
    bans,       \* security_bans, by address
    policy,     \* security_policy
    revision,   \* its revision
    pending,    \* pending_auth_
    calls,      \* verifications between begin_auth and finish_auth
    answered,   \* history: wrong guesses answered in this window under this policy
    leaked,     \* history: reservations whose call ended without releasing them
    faults      \* transactions that could not begin, so far

vars == <<attempts, bans, policy, revision, pending, calls, answered, leaked, faults>>

Count == [total : Nat, unknown : Nat]
Zero == [total |-> 0, unknown |-> 0]
One(unknown) == [total |-> 1, unknown |-> IF unknown THEN 1 ELSE 0]
Plus(n, m) == [total |-> n.total + m.total, unknown |-> n.unknown + m.unknown]
Minus(n, m) == [total |-> n.total - m.total, unknown |-> n.unknown - m.unknown]

(* fresh: window_start + window_seconds lies ahead. *)
Row == [failures : Count, fresh : BOOLEAN]

Call == [ip : Ips, unknown : BOOLEAN, reserved : BOOLEAN, revision : Nat]
Idle == [ip |-> "none"]

Put(f, i, value) == [x \in DOMAIN f \cup {i} |-> IF x = i THEN value ELSE f[x]]
Without(f, gone) == [x \in DOMAIN f \ gone |-> f[x]]
IsTable(t, values) == DOMAIN t \subseteq Ips /\ t \in [DOMAIN t -> values]

SecurityTypeOK ==
    /\ IsTable(attempts, Row)
    /\ IsTable(bans, {"temporary", "lapsed", "permanent"})
    /\ policy \in Policies /\ revision \in 0..MaxRevision
    /\ pending \in [Ips -> Count]
    /\ calls \in [Calls -> Call \cup {Idle}]
    /\ answered \in [Ips -> Count] /\ leaked \in [Ips -> Count]
    /\ faults \in 0..MaxFaults

Init ==
    /\ attempts = Without([i \in Ips |-> 0], Ips) /\ bans = Without([i \in Ips |-> 0], Ips)
    /\ policy \in Policies /\ revision = 0
    /\ pending = [i \in Ips |-> Zero]
    /\ calls = [c \in Calls |-> Idle]
    /\ answered = [i \in Ips |-> Zero] /\ leaked = [i \in Ips |-> Zero]
    /\ faults = 0

-----------------------------------------------------------------------------
(* The two tables *)

(* active_ban: a ban that lapsed no longer counts, removed or not. *)
Banned(b, ip) == ip \in DOMAIN b /\ b[ip] \in {"temporary", "permanent"}
Full(rows) == Cardinality(DOMAIN rows) >= MaxIps

(* expire_security *)
Pruned(a) == Without(a, {i \in DOMAIN a : ~a[i].fresh})
Lapsed(b) == {i \in DOMAIN b : b[i] = "lapsed"}
Expired(b) ==
    {Without(b, gone) : gone \in {g \in SUBSET Lapsed(b) : g = Lapsed(b) \/ Cardinality(g) = ExpiryBatch}}

Failures(a, ip) == IF ip \in DOMAIN a /\ a[ip].fresh THEN a[ip].failures ELSE Zero

(* Mutant: only failures that are already recorded count. *)
BusyWhenRecorded(a, ip, unknown) ==
    \/ Failures(a, ip).total >= policy.failures
    \/ unknown /\ Failures(a, ip).unknown >= policy.unknown

(* Failures and checks in flight leave no room for another check. *)
Busy(a, ip, unknown) ==
    \/ Failures(a, ip).total + pending[ip].total >= policy.failures
    \/ unknown /\ Failures(a, ip).unknown + pending[ip].unknown >= policy.unknown

-----------------------------------------------------------------------------
(* begin_auth: every outcome it may have.  A bad reputation, as AbuseIPDB's
   worker cached it, bans the address at once.                               *)

Outcome(admitted, reserved, a, b) == [admitted |-> admitted, reserved |-> reserved, attempts |-> a, bans |-> b]

NoRoom(a, ip) ==
    /\ ip \notin DOMAIN a
    /\ Full(a) \/ Cardinality({i \in Ips : pending[i].total > 0}) >= MaxIps

Seen(a, ip) == IF ip \in DOMAIN a THEN a ELSE Put(a, ip, [failures |-> Zero, fresh |-> TRUE])

AdmittedTo(a, b, ip, unknown) ==
    IF Banned(b, ip) THEN {Outcome(FALSE, FALSE, a, b)}
    ELSE IF ip \in policy.exempt THEN {Outcome(TRUE, FALSE, a, b)}
    ELSE {Outcome(FALSE, FALSE, a, Put(b, ip, "temporary")) : full \in {Full(b)} \ {TRUE}}
         \cup {IF NoRoom(a, ip) THEN Outcome(FALSE, FALSE, a, b)
               ELSE IF Busy(a, ip, unknown) THEN Outcome(FALSE, FALSE, Seen(a, ip), b)
               ELSE Outcome(TRUE, TRUE, Seen(a, ip), b)}

Begun(ip, unknown) == UNION {AdmittedTo(Pruned(attempts), b, ip, unknown) : b \in Expired(bans)}

-----------------------------------------------------------------------------
(* finish_auth, on the tables and with what is pending after the release. *)

Settled(counted, a, b) == [counted |-> counted, attempts |-> a, bans |-> b]

Counted(a, ip, unknown) == [failures |-> Plus(Failures(a, ip), One(unknown)), fresh |-> TRUE]

(* Mutant: a ban placed while the password was hashed is not looked at. *)
FailedAnyway(a, b, ip, unknown) ==
    LET row == Counted(a, ip, unknown) IN
    IF row.failures.total < policy.failures THEN Settled(TRUE, Put(a, ip, row), b)
    ELSE Settled(TRUE, Without(a, {ip}), Put(b, ip, "temporary"))

Failed(a, b, ip, unknown) ==
    LET row == Counted(a, ip, unknown)
        below == row.failures.total < policy.failures /\ row.failures.unknown < policy.unknown
    IN
    IF Banned(b, ip) \/ ip \in policy.exempt \/ (ip \notin DOMAIN a /\ Full(a)) THEN Settled(FALSE, a, b)
    ELSE IF below \/ Full(b) THEN Settled(TRUE, Put(a, ip, row), b)
    ELSE Settled(TRUE, Without(a, {ip}), Put(b, ip, "temporary"))

Succeeded(a, b, p, ip) ==
    IF ip \in DOMAIN a /\ ~Banned(b, ip) /\ p[ip].total = 0 /\ a[ip].failures.total = 0
    THEN Settled(FALSE, Without(a, {ip}), b)
    ELSE Settled(FALSE, a, b)

Settle(ok, a, b, p, ip, unknown) == IF ok THEN Succeeded(a, b, p, ip) ELSE Failed(a, b, ip, unknown)

(* A ban that failures earned opens a new account of them. *)
Answered(s, ip, unknown, current) ==
    [answered EXCEPT ![ip] =
        IF ~s.counted THEN @
        ELSE IF ip \notin DOMAIN s.attempts THEN Zero
        ELSE IF current THEN Plus(@, One(unknown)) ELSE @]

-----------------------------------------------------------------------------
(* verify *)

Verify(c, ip, unknown) ==
    /\ calls[c] = Idle
    /\ ~Banned(bans, ip)
    /\ \E o \in Begun(ip, unknown) :
        /\ attempts' = o.attempts /\ bans' = o.bans
        /\ pending' = [pending EXCEPT ![ip] = IF o.reserved THEN Plus(@, One(unknown)) ELSE @]
        /\ calls' = [calls EXCEPT ![c] =
                IF o.admitted THEN [ip |-> ip, unknown |-> unknown, reserved |-> o.reserved, revision |-> revision]
                ELSE Idle]
    /\ UNCHANGED <<policy, revision, answered, leaked, faults>>

(* release_auth *)
Released(k) == [pending EXCEPT ![k.ip] = IF k.reserved THEN Minus(@, One(k.unknown)) ELSE @]

(* The hash, or the limit on hashes, has decided; unknown accounts fail. *)
Finish(c, ok) ==
    LET k == calls[c]
        s == Settle(ok, attempts, bans, Released(k), k.ip, k.unknown)
    IN
    /\ k # Idle /\ ~(ok /\ k.unknown)
    /\ pending' = Released(k)
    /\ attempts' = s.attempts /\ bans' = s.bans
    /\ answered' = Answered(s, k.ip, k.unknown, k.revision = revision)
    /\ calls' = [calls EXCEPT ![c] = Idle]
    /\ UNCHANGED <<policy, revision, leaked, faults>>

(* password_hash throws, or the transaction that settles cannot commit. *)
HashFails(c) ==
    /\ calls[c] # Idle
    /\ pending' = Released(calls[c])
    /\ calls' = [calls EXCEPT ![c] = Idle]
    /\ UNCHANGED <<attempts, bans, policy, revision, answered, leaked, faults>>

(* The transaction of finish_auth cannot begin, as a backup or AbuseIPDB's
   worker holds the database for longer than busy_timeout: verify throws
   before it has released its reservation.                                   *)
BeginFails(c) ==
    LET k == calls[c] IN
    /\ k # Idle /\ faults < MaxFaults
    /\ faults' = faults + 1
    /\ leaked' = [leaked EXCEPT ![k.ip] = IF k.reserved THEN Plus(@, One(k.unknown)) ELSE @]
    /\ calls' = [calls EXCEPT ![c] = Idle]
    /\ UNCHANGED <<attempts, bans, policy, revision, pending, answered>>

(* api_key_verify and security_failure: begin and finish under one mutex. *)
AtOnce(ip, unknown, ok) ==
    /\ ~(ok /\ unknown)
    /\ \E o \in Begun(ip, unknown) :
        LET s == IF o.admitted THEN Settle(ok, o.attempts, o.bans, pending, ip, unknown)
                 ELSE Settled(FALSE, o.attempts, o.bans)
        IN  /\ attempts' = s.attempts /\ bans' = s.bans
            /\ answered' = Answered(s, ip, unknown, TRUE)
    /\ UNCHANGED <<policy, revision, pending, calls, leaked, faults>>

(* security_check at each new connection: a cached reputation may ban. *)
SecurityCheck(ip) ==
    /\ ~Banned(bans, ip) /\ ip \notin policy.exempt /\ ~Full(bans)
    /\ bans' = Put(bans, ip, "temporary")
    /\ UNCHANGED <<attempts, policy, revision, pending, calls, answered, leaked, faults>>

-----------------------------------------------------------------------------
(* Administration; each reply shows the rows after expire_security. *)

AdminOnly == UNCHANGED <<pending, calls, leaked, faults>>

(* security_get, and saves that are refused or change nothing *)
SecurityView ==
    /\ attempts' = Pruned(attempts) /\ bans' \in Expired(bans)
    /\ UNCHANGED <<policy, revision, answered>> /\ AdminOnly

(* A new policy may differ from the old in its periods alone. *)
SetPolicy(p) ==
    /\ revision < MaxRevision
    /\ policy' = p /\ revision' = revision + 1
    /\ attempts' = Without(attempts, Ips) /\ bans' \in Expired(bans)
    /\ answered' = [i \in Ips |-> Zero]
    /\ AdminOnly

Unban(ip) ==
    /\ attempts' = Without(Pruned(attempts), {ip})
    /\ bans' \in Expired(Without(bans, {ip}))
    /\ answered' = [answered EXCEPT ![ip] = Zero]
    /\ UNCHANGED <<policy, revision>> /\ AdminOnly

Ban(ip, kind) ==
    /\ attempts' = Pruned(attempts)
    /\ \E b \in Expired(bans) :
        /\ Cardinality(DOMAIN b \ {ip}) < MaxIps
        /\ bans' \in Expired(Put(b, ip, kind))
    /\ UNCHANGED <<policy, revision, answered>> /\ AdminOnly

-----------------------------------------------------------------------------
(* Time, and restarts, which keep the tables. *)

WindowEnds(ip) ==
    /\ ip \in DOMAIN attempts /\ attempts[ip].fresh
    /\ attempts' = [attempts EXCEPT ![ip].fresh = FALSE]
    /\ answered' = [answered EXCEPT ![ip] = Zero]
    /\ UNCHANGED <<bans, policy, revision, pending, calls, leaked, faults>>

BanLapses(ip) ==
    /\ ip \in DOMAIN bans /\ bans[ip] = "temporary"
    /\ bans' = [bans EXCEPT ![ip] = "lapsed"]
    /\ UNCHANGED <<attempts, policy, revision, pending, calls, answered, leaked, faults>>

Restart ==
    /\ pending' = [i \in Ips |-> Zero] /\ leaked' = [i \in Ips |-> Zero]
    /\ calls' = [c \in Calls |-> Idle]
    /\ UNCHANGED <<attempts, bans, policy, revision, answered, faults>>

Administrator(ip) == Unban(ip) \/ \E kind \in {"temporary", "permanent"} : Ban(ip, kind)

Next ==
    \/ \E c \in Calls :
        \/ \E ip \in Ips, unknown \in BOOLEAN : Verify(c, ip, unknown)
        \/ \E ok \in BOOLEAN : Finish(c, ok)
        \/ HashFails(c) \/ BeginFails(c)
    \/ \E ip \in Ips, unknown, ok \in BOOLEAN : AtOnce(ip, unknown, ok)
    \/ \E ip \in Ips : SecurityCheck(ip) \/ Administrator(ip) \/ WindowEnds(ip) \/ BanLapses(ip)
    \/ SecurityView
    \/ \E p \in Policies : SetPolicy(p)
    \/ Restart

Spec == Init /\ [][Next]_vars

-----------------------------------------------------------------------------
(* Properties *)

Running(ip) == {c \in Calls : calls[c] # Idle /\ calls[c].ip = ip /\ calls[c].reserved}
OfUnknown(running) == {c \in running : calls[c].unknown}

(* pending_auth_ counts the checks that are running, and those that were lost
   when their transaction could not begin, until the next restart.           *)
ReservationsAreOwned ==
    \A ip \in Ips : pending[ip] = Plus(leaked[ip],
        [total |-> Cardinality(Running(ip)), unknown |-> Cardinality(OfUnknown(Running(ip)))])

(* Checks admitted under the policy in force. *)
Current(ip) == {c \in Running(ip) : calls[c].revision = revision}

(* However many checks run at once, and through windows, bans, successes and
   restarts: an address gets no more answers to wrong guesses in one window
   than the policy allows, those still in flight included.                   *)
GuessesWithinThreshold ==
    \A ip \in Ips :
        /\ answered[ip].total + Cardinality(Current(ip)) <= policy.failures
        /\ answered[ip].unknown + Cardinality(OfUnknown(Current(ip))) <= policy.unknown

(* A permanent ban stays until an administrator acts on that address; checks
   that were running when it was placed do not replace it by a timed one.    *)
PermanentBansStay ==
    [][\A ip \in Ips : (ip \in DOMAIN bans /\ bans[ip] = "permanent") =>
            (ip \in DOMAIN bans' /\ bans'[ip] = "permanent") \/ Administrator(ip)]_vars
=============================================================================
