------------------------ MODULE LoginSecurityProofs ------------------------
(* Theorems about LoginSecurity.  The counts of a row and of the pending    *)
(* reservations bound the guesses an address can have answered; the steps   *)
(* of begin_auth and finish_auth are described once, by BegunFacts and      *)
(* SettleFacts.                                                             *)
EXTENDS LoginSecurity, FiniteSetTheorems, TLAPS

-----------------------------------------------------------------------------
(* The inductive invariant *)

RowsAreSane(a) == \A ip \in DOMAIN a : a[ip].failures.unknown <= a[ip].failures.total

(* A check that reserved nothing was exempt under the policy it began with. *)
CallsRemember ==
    \A c \in Calls : calls[c] # Idle =>
        /\ calls[c].revision <= revision
        /\ calls[c].revision = revision /\ ~calls[c].reserved => calls[c].ip \in policy.exempt

(* The row of an address counts what was answered in its window. *)
CountersRemember ==
    \A ip \in Ips :
        /\ answered[ip].total <= Failures(attempts, ip).total
        /\ answered[ip].unknown <= Failures(attempts, ip).unknown

SecurityInv ==
    /\ SecurityTypeOK /\ RowsAreSane(attempts) /\ CallsRemember /\ CountersRemember
    /\ ReservationsAreOwned /\ GuessesWithinThreshold

-----------------------------------------------------------------------------
(* Counts and tables *)

LEMMA CountFacts ==
    /\ Zero \in Count /\ \A u \in BOOLEAN : One(u) \in Count
    /\ \A n, k \in Count :
        /\ Plus(n, k) \in Count
        /\ Plus(n, k).total = n.total + k.total /\ Plus(n, k).unknown = n.unknown + k.unknown
    /\ \A n \in Count : n.total = 0 /\ n.unknown = 0 => n = Zero
    /\ Zero.total = 0 /\ Zero.unknown = 0
    /\ \A u \in BOOLEAN : One(u).total = 1 /\ One(u).unknown = IF u THEN 1 ELSE 0
BY DEF Count, Zero, One, Plus

LEMMA PutFacts ==
    ASSUME NEW V, NEW t, IsTable(t, V), NEW i \in Ips, NEW v \in V
    PROVE  /\ IsTable(Put(t, i, v), V)
           /\ DOMAIN Put(t, i, v) = DOMAIN t \cup {i}
           /\ Put(t, i, v)[i] = v
           /\ \A j \in DOMAIN t : j # i => Put(t, i, v)[j] = t[j]
BY DEF IsTable, Put

LEMMA WithoutFacts ==
    ASSUME NEW V, NEW t, IsTable(t, V), NEW gone
    PROVE  /\ IsTable(Without(t, gone), V)
           /\ DOMAIN Without(t, gone) = DOMAIN t \ gone
           /\ \A j \in DOMAIN t \ gone : Without(t, gone)[j] = t[j]
BY DEF IsTable, Without

BanKinds == {"temporary", "lapsed", "permanent"}
AttemptsOK(a) == IsTable(a, Row) /\ RowsAreSane(a)
Keeps(b, d) == \A j \in DOMAIN b : b[j] = "permanent" => j \in DOMAIN d /\ d[j] = "permanent"

LEMMA FailuresFacts ==
    ASSUME NEW a, AttemptsOK(a), NEW ip
    PROVE  /\ Failures(a, ip) \in Count
           /\ Failures(a, ip).unknown <= Failures(a, ip).total
BY CountFacts DEF AttemptsOK, IsTable, Row, RowsAreSane, Failures, Count

LEMMA PrunedFacts ==
    ASSUME NEW a, AttemptsOK(a)
    PROVE  AttemptsOK(Pruned(a)) /\ \A j \in Ips : Failures(Pruned(a), j) = Failures(a, j)
<1> DEFINE stale == {i \in DOMAIN a : ~a[i].fresh}
<1>1. IsTable(a, Row) /\ Pruned(a) = Without(a, stale)
    BY DEF AttemptsOK, Pruned
<1> HIDE DEF stale
<1>t. IsTable(Pruned(a), Row) /\ DOMAIN Pruned(a) = DOMAIN a \ stale
    BY <1>1, WithoutFacts
<1>v. \A j \in DOMAIN a \ stale : Pruned(a)[j] = a[j]
    BY <1>1 DEF Without
<1>2. /\ IsTable(Pruned(a), Row)
      /\ DOMAIN Pruned(a) = DOMAIN a \ stale
      /\ \A j \in DOMAIN a \ stale : Pruned(a)[j] = a[j]
    BY <1>t, <1>v
<1>3. RowsAreSane(Pruned(a))
    <2>1. ASSUME NEW i \in DOMAIN Pruned(a)
          PROVE  Pruned(a)[i].failures.unknown <= Pruned(a)[i].failures.total
        <3>1. i \in DOMAIN a /\ Pruned(a)[i] = a[i]
            BY <1>2, <2>1
        <3> QED BY <3>1 DEF AttemptsOK, RowsAreSane
    <2> QED BY <2>1 DEF RowsAreSane
<1>4. ASSUME NEW j \in Ips PROVE Failures(Pruned(a), j) = Failures(a, j)
    <2>1. j \in DOMAIN Pruned(a) <=> j \in DOMAIN a /\ a[j].fresh
        BY <1>2 DEF stale
    <2>2. j \in DOMAIN Pruned(a) => Pruned(a)[j] = a[j]
        BY <1>2
    <2> QED BY <2>1, <2>2 DEF Failures
<1> QED BY <1>2, <1>3, <1>4 DEF AttemptsOK

LEMMA SeenFacts ==
    ASSUME NEW a, AttemptsOK(a), NEW ip \in Ips
    PROVE  AttemptsOK(Seen(a, ip)) /\ \A j \in Ips : Failures(Seen(a, ip), j) = Failures(a, j)
<1> DEFINE empty == [failures |-> Zero, fresh |-> TRUE]
<1>1. CASE ip \in DOMAIN a
    BY <1>1 DEF Seen
<1>2. CASE ip \notin DOMAIN a
    <2>1. IsTable(a, Row) /\ empty \in Row /\ Seen(a, ip) = Put(a, ip, empty)
        BY <1>2, CountFacts DEF AttemptsOK, Row, Seen
    <2>e. empty.failures = Zero
        OBVIOUS
    <2> HIDE DEF empty
    <2>t. IsTable(Seen(a, ip), Row) /\ DOMAIN Seen(a, ip) = DOMAIN a \cup {ip}
        BY <2>1 DEF Put, IsTable
    <2>v. Seen(a, ip)[ip] = empty /\ \A j \in DOMAIN a : j # ip => Seen(a, ip)[j] = a[j]
        BY <2>1 DEF Put
    <2>2. /\ IsTable(Seen(a, ip), Row)
          /\ DOMAIN Seen(a, ip) = DOMAIN a \cup {ip}
          /\ Seen(a, ip)[ip] = empty
          /\ \A j \in DOMAIN a : j # ip => Seen(a, ip)[j] = a[j]
        BY <2>t, <2>v
    <2>3. RowsAreSane(Seen(a, ip))
        <3>1. ASSUME NEW i \in DOMAIN a
              PROVE  Seen(a, ip)[i].failures.unknown <= Seen(a, ip)[i].failures.total
            <4>1. Seen(a, ip)[i] = a[i]
                BY <1>2, <2>2
            <4> QED BY <4>1 DEF AttemptsOK, RowsAreSane
        <3>2. Seen(a, ip)[ip].failures.unknown <= Seen(a, ip)[ip].failures.total
            BY <2>2, <2>e, CountFacts
        <3> QED BY <2>2, <3>1, <3>2 DEF RowsAreSane
    <2>4. ASSUME NEW j \in Ips PROVE Failures(Seen(a, ip), j) = Failures(a, j)
        BY <2>2, <2>e, <1>2 DEF Failures
    <2> QED BY <2>2, <2>3, <2>4 DEF AttemptsOK
<1> QED BY <1>1, <1>2

LEMMA ExpiredFacts ==
    ASSUME NEW b, IsTable(b, BanKinds), NEW d \in Expired(b)
    PROVE  IsTable(d, BanKinds) /\ Keeps(b, d) /\ DOMAIN d \subseteq DOMAIN b
                /\ \A j \in DOMAIN d : d[j] = b[j]
<1>1. PICK g \in SUBSET Lapsed(b) : d = Without(b, g)
    BY DEF Expired
<1>2. IsTable(d, BanKinds) /\ DOMAIN d = DOMAIN b \ g /\ \A j \in DOMAIN b \ g : d[j] = b[j]
    BY <1>1, WithoutFacts, Zenon
<1> QED BY <1>1, <1>2 DEF Keeps, Lapsed

LEMMA BannedFacts ==
    ASSUME NEW b, IsTable(b, BanKinds), NEW ip \in Ips, ~Banned(b, ip), NEW k \in BanKinds
    PROVE  IsTable(Put(b, ip, k), BanKinds) /\ Keeps(b, Put(b, ip, k))
<1>1. ~(ip \in DOMAIN b /\ b[ip] = "permanent")
    BY DEF Banned
<1>2. /\ IsTable(Put(b, ip, k), BanKinds)
      /\ DOMAIN Put(b, ip, k) = DOMAIN b \cup {ip}
      /\ \A j \in DOMAIN b : j # ip => Put(b, ip, k)[j] = b[j]
    BY PutFacts
<1> QED BY <1>1, <1>2 DEF Keeps
-----------------------------------------------------------------------------
(* What begin_auth and finish_auth may do *)

LEMMA OutcomeFacts ==
    \A a, b :
        /\ Outcome(FALSE, FALSE, a, b).admitted = FALSE /\ Outcome(FALSE, FALSE, a, b).reserved = FALSE
        /\ Outcome(TRUE, FALSE, a, b).admitted = TRUE /\ Outcome(TRUE, FALSE, a, b).reserved = FALSE
        /\ Outcome(TRUE, TRUE, a, b).admitted = TRUE /\ Outcome(TRUE, TRUE, a, b).reserved = TRUE
BY DEF Outcome

LEMMA BegunFacts ==
    ASSUME SecurityInv, NEW ip \in Ips, NEW unknown \in BOOLEAN, NEW o \in Begun(ip, unknown)
    PROVE  /\ AttemptsOK(o.attempts)
           /\ \A j \in Ips : Failures(o.attempts, j) = Failures(attempts, j)
           /\ IsTable(o.bans, BanKinds) /\ Keeps(bans, o.bans)
           /\ o.admitted \in BOOLEAN /\ o.reserved \in BOOLEAN
           /\ o.reserved => o.admitted /\ ~Busy(attempts, ip, unknown)
           /\ o.admitted /\ ~o.reserved => ip \in policy.exempt
<1> DEFINE a == Pruned(attempts)
<1>1. AttemptsOK(attempts) /\ IsTable(bans, BanKinds)
    BY DEF SecurityInv, SecurityTypeOK, AttemptsOK, BanKinds
<1>2. PICK b \in Expired(bans) : o \in AdmittedTo(a, b, ip, unknown)
    BY DEF Begun
<1>3. AttemptsOK(a) /\ \A j \in Ips : Failures(a, j) = Failures(attempts, j)
    BY <1>1, PrunedFacts
<1>4. IsTable(b, BanKinds) /\ Keeps(bans, b)
    BY <1>1, ExpiredFacts
<1>5. Busy(a, ip, unknown) <=> Busy(attempts, ip, unknown)
    BY <1>3 DEF Busy
<1>6. AttemptsOK(Seen(a, ip)) /\ \A j \in Ips : Failures(Seen(a, ip), j) = Failures(attempts, j)
    BY <1>3, SeenFacts
<1> HIDE DEF a
<1>7. CASE Banned(b, ip) \/ ip \in policy.exempt
    <2>1. \/ o = Outcome(FALSE, FALSE, a, b)
          \/ ip \in policy.exempt /\ o = Outcome(TRUE, FALSE, a, b)
        BY <1>2, <1>7 DEF AdmittedTo
    <2>2. o.attempts = a /\ o.bans = b
        BY <2>1 DEF Outcome
    <2>4. o.reserved = FALSE /\ o.admitted \in BOOLEAN
        BY <2>1, OutcomeFacts, Zenon
    <2>3. o.admitted => ip \in policy.exempt
        BY <2>1 DEF Outcome
    <2> QED BY <2>2, <2>3, <2>4, <1>3, <1>4
<1>8. CASE ~Banned(b, ip) /\ ip \notin policy.exempt
    <2> DEFINE d == Put(b, ip, "temporary")
    <2>1. IsTable(d, BanKinds) /\ Keeps(b, d)
        BY <1>8, <1>4, BannedFacts DEF BanKinds
    <2>2. Keeps(bans, d)
        BY <2>1, <1>4 DEF Keeps
    <2> HIDE DEF d
    <2>3. \/ o = Outcome(FALSE, FALSE, a, d)
          \/ o = Outcome(FALSE, FALSE, a, b)
          \/ o = Outcome(FALSE, FALSE, Seen(a, ip), b)
          \/ ~Busy(a, ip, unknown) /\ o = Outcome(TRUE, TRUE, Seen(a, ip), b)
        BY <1>2, <1>8 DEF AdmittedTo, d
    <2>4. o.attempts \in {a, Seen(a, ip)} /\ o.bans \in {b, d}
        BY <2>3 DEF Outcome
    <2>5. o.admitted \in BOOLEAN /\ o.reserved = o.admitted
        BY <2>3, OutcomeFacts, Zenon
    <2>6. o.admitted => ~Busy(a, ip, unknown)
        BY <2>3 DEF Outcome
    <2> QED BY <2>1, <2>2, <2>4, <2>5, <2>6, <1>3, <1>4, <1>5, <1>6
<1> QED BY <1>7, <1>8

LEMMA SettleFacts ==
    ASSUME SecurityInv, NEW a, AttemptsOK(a), NEW b, IsTable(b, BanKinds), NEW p,
           NEW ip \in Ips, NEW unknown \in BOOLEAN, NEW ok \in BOOLEAN,
           NEW s, s = Settle(ok, a, b, p, ip, unknown)
    PROVE  /\ AttemptsOK(s.attempts)
           /\ IsTable(s.bans, BanKinds) /\ Keeps(b, s.bans)
           /\ s.counted \in BOOLEAN
           /\ s.counted => ip \notin policy.exempt
           /\ \A j \in Ips : j # ip \/ ~s.counted => Failures(s.attempts, j) = Failures(a, j)
           /\ s.counted /\ ip \in DOMAIN s.attempts =>
                 Failures(s.attempts, ip) = Plus(Failures(a, ip), One(unknown))
<1>1. IsTable(a, Row) /\ RowsAreSane(a)
    BY DEF AttemptsOK
<1>2. AttemptsOK(Without(a, {ip})) /\ DOMAIN Without(a, {ip}) = DOMAIN a \ {ip}
    /\ \A j \in DOMAIN a \ {ip} : Without(a, {ip})[j] = a[j]
    BY <1>1 DEF Without, IsTable, AttemptsOK, RowsAreSane
<1>3. \A j \in Ips : j # ip => Failures(Without(a, {ip}), j) = Failures(a, j)
    BY <1>2 DEF Failures
<1>4. CASE ok
    <2>1. CASE s = Settled(FALSE, a, b)
        BY <2>1 DEF Settled, Keeps
    <2>2. CASE s # Settled(FALSE, a, b)
        <3>1. /\ s = Settled(FALSE, Without(a, {ip}), b)
              /\ ip \in DOMAIN a /\ a[ip].failures.total = 0
            BY <1>4, <2>2 DEF Settle, Succeeded
        <3>2. a[ip].failures \in Count /\ a[ip].failures.unknown <= a[ip].failures.total
            BY <1>1, <3>1 DEF IsTable, Row, RowsAreSane
        <3>3. a[ip].failures = Zero
            BY <3>1, <3>2, CountFacts DEF Count
        <3>4. Failures(a, ip) = Zero /\ Failures(Without(a, {ip}), ip) = Zero
            BY <3>3, <1>2 DEF Failures
        <3> QED BY <3>1, <3>4, <1>2, <1>3 DEF Settled, Keeps
    <2> QED BY <2>1, <2>2
<1>5. CASE ~ok
    <2> DEFINE row == Counted(a, ip, unknown)
               kept == Put(a, ip, row)
               banned == Put(b, ip, "temporary")
    <2>1. Failures(a, ip) \in Count /\ Failures(a, ip).unknown <= Failures(a, ip).total
        BY FailuresFacts
    <2>2. row.failures = Plus(Failures(a, ip), One(unknown)) /\ row.fresh = TRUE
        BY DEF Counted
    <2>3. row.failures \in Count /\ row.failures.unknown <= row.failures.total
        BY <2>1, <2>2, CountFacts DEF Count
    <2>4. row \in Row
        BY <2>3 DEF Counted, Row
    <2>5. /\ IsTable(kept, Row) /\ DOMAIN kept = DOMAIN a \cup {ip} /\ kept[ip] = row
          /\ \A j \in DOMAIN a : j # ip => kept[j] = a[j]
        <3> HIDE DEF row
        <3> QED BY <1>1, <2>4 DEF Put, IsTable
    <2>6. AttemptsOK(kept)
        <3> HIDE DEF row, kept
        <3>1. ASSUME NEW j \in DOMAIN kept
              PROVE  kept[j].failures.unknown <= kept[j].failures.total
            BY <2>3, <2>5, <1>1 DEF RowsAreSane
        <3> QED BY <2>5, <3>1 DEF AttemptsOK, RowsAreSane
    <2>7. /\ \A j \in Ips : j # ip => Failures(kept, j) = Failures(a, j)
          /\ Failures(kept, ip) = Plus(Failures(a, ip), One(unknown))
        <3> HIDE DEF row, kept
        <3> QED BY <2>2, <2>5 DEF Failures
    <2> HIDE DEF kept
    <2>8. CASE s = Settled(FALSE, a, b)
        BY <2>8 DEF Settled, Keeps
    <2>9. CASE s # Settled(FALSE, a, b)
        <3>1. /\ ~Banned(b, ip) /\ ip \notin policy.exempt
              /\ \/ s = Settled(TRUE, kept, b)
                 \/ s = Settled(TRUE, Without(a, {ip}), banned)
            BY <1>5, <2>9 DEF Settle, Failed, kept
        <3>2. IsTable(banned, BanKinds) /\ Keeps(b, banned)
            BY <3>1, BannedFacts DEF BanKinds
        <3> HIDE DEF banned
        <3>3. CASE s = Settled(TRUE, kept, b)
            BY <3>1, <3>3, <2>6, <2>7 DEF Settled, Keeps
        <3>4. CASE s = Settled(TRUE, Without(a, {ip}), banned)
            BY <3>1, <3>2, <3>4, <1>2, <1>3 DEF Settled
        <3> QED BY <3>1, <3>3, <3>4
    <2> QED BY <2>8, <2>9
<1> QED BY <1>4, <1>5

-----------------------------------------------------------------------------
(* The sets of running checks *)

LEMMA Sizes ==
    /\ \A S \in SUBSET Calls : Cardinality(S) \in Nat
    /\ \A S, T \in SUBSET Calls : S \subseteq T => Cardinality(S) <= Cardinality(T)
    /\ \A S \in SUBSET Calls, c \in Calls : c \notin S => Cardinality(S \cup {c}) = Cardinality(S) + 1
    /\ \A S \in SUBSET Calls, c \in Calls : c \in S => Cardinality(S \ {c}) = Cardinality(S) - 1
<1>1. ASSUME NEW S \in SUBSET Calls PROVE IsFiniteSet(S) /\ Cardinality(S) \in Nat
    BY FS_Subset, FS_CardinalityType, SecurityAssumption DEF SecurityAssumption
<1>2. ASSUME NEW S \in SUBSET Calls, NEW T \in SUBSET Calls, S \subseteq T
      PROVE  Cardinality(S) <= Cardinality(T)
    BY <1>1, <1>2, FS_Subset
<1>3. ASSUME NEW S \in SUBSET Calls, NEW c \in Calls
      PROVE  /\ c \notin S => Cardinality(S \cup {c}) = Cardinality(S) + 1
             /\ c \in S => Cardinality(S \ {c}) = Cardinality(S) - 1
    BY <1>1, FS_AddElement, FS_RemoveElement
<1> QED BY <1>1, <1>2, <1>3

LEMMA IdleIsNoCall == Idle \notin Call
<1>1. DOMAIN Idle = {"ip"}
    BY DEF Idle
<1>2. \A k \in Call : "reserved" \in DOMAIN k
    BY DEF Call
<1> QED BY <1>1, <1>2

LEMMA RunningFacts ==
    /\ \A j : Running(j) \in SUBSET Calls /\ Current(j) \subseteq Running(j)
    /\ \A S : OfUnknown(S) \subseteq S
    /\ \A S, T : S \subseteq T => OfUnknown(S) \subseteq OfUnknown(T)
BY DEF Running, Current, OfUnknown

(* A call begins. *)
LEMMA JoinFacts ==
    ASSUME SecurityInv, NEW c \in Calls, calls[c] = Idle, NEW k \in Call,
           calls' = [calls EXCEPT ![c] = k], revision' = revision, k.revision = revision
    PROVE  \A j \in Ips :
        LET here == k.reserved /\ j = k.ip
            there == here /\ k.unknown
        IN
        /\ Running(j)' = IF here THEN Running(j) \cup {c} ELSE Running(j)
        /\ Current(j)' = IF here THEN Current(j) \cup {c} ELSE Current(j)
        /\ OfUnknown(Running(j))' = IF there THEN OfUnknown(Running(j)) \cup {c} ELSE OfUnknown(Running(j))
        /\ OfUnknown(Current(j))' = IF there THEN OfUnknown(Current(j)) \cup {c} ELSE OfUnknown(Current(j))
        /\ c \notin Running(j)
<1>1. k # Idle
    BY IdleIsNoCall
<1>2. calls'[c] = k /\ \A d \in Calls : d # c => calls'[d] = calls[d]
    BY DEF SecurityInv, SecurityTypeOK
<1> QED BY <1>1, <1>2 DEF Running, Current, OfUnknown

(* A call ends. *)
LEMMA LeaveFacts ==
    ASSUME SecurityInv, NEW c \in Calls, calls' = [calls EXCEPT ![c] = Idle], revision' = revision
    PROVE  \A j \in Ips :
        /\ Running(j)' = Running(j) \ {c} /\ Current(j)' = Current(j) \ {c}
        /\ OfUnknown(Running(j))' = OfUnknown(Running(j)) \ {c}
        /\ OfUnknown(Current(j))' = OfUnknown(Current(j)) \ {c}
<1>1. calls'[c] = Idle /\ \A d \in Calls : d # c => calls'[d] = calls[d]
    BY DEF SecurityInv, SecurityTypeOK
<1> QED BY <1>1 DEF Running, Current, OfUnknown

(* ReservationsAreOwned and GuessesWithinThreshold, field by field. *)
Owned(j) ==
    /\ pending[j].total = leaked[j].total + Cardinality(Running(j))
    /\ pending[j].unknown = leaked[j].unknown + Cardinality(OfUnknown(Running(j)))

Within(j) ==
    /\ answered[j].total + Cardinality(Current(j)) <= policy.failures
    /\ answered[j].unknown + Cardinality(OfUnknown(Current(j))) <= policy.unknown

LEMMA OwnedMeans ==
    ASSUME pending \in [Ips -> Count], leaked \in [Ips -> Count]
    PROVE  ReservationsAreOwned <=> \A j \in Ips : Owned(j)
<1>1. ASSUME NEW j \in Ips, NEW n \in Nat, NEW k \in Nat
      PROVE  pending[j] = Plus(leaked[j], [total |-> n, unknown |-> k])
                <=> pending[j].total = leaked[j].total + n /\ pending[j].unknown = leaked[j].unknown + k
    BY DEF Plus, Count
<1>2. ASSUME NEW j \in Ips
      PROVE  Cardinality(Running(j)) \in Nat /\ Cardinality(OfUnknown(Running(j))) \in Nat
    BY Sizes, RunningFacts
<1> QED BY <1>1, <1>2 DEF ReservationsAreOwned, Owned

LEMMA StateFacts ==
    ASSUME SecurityInv
    PROVE  /\ AttemptsOK(attempts) /\ IsTable(bans, BanKinds)
           /\ policy \in Policy /\ policy.failures \in Nat \ {0} /\ policy.unknown \in Nat \ {0}
           /\ revision \in 0..MaxRevision /\ revision \in Nat
           /\ pending \in [Ips -> Count] /\ leaked \in [Ips -> Count] /\ answered \in [Ips -> Count]
           /\ calls \in [Calls -> Call \cup {Idle}]
           /\ \A j \in Ips : Owned(j) /\ Within(j)
<1>1. /\ AttemptsOK(attempts) /\ IsTable(bans, BanKinds)
      /\ pending \in [Ips -> Count] /\ leaked \in [Ips -> Count] /\ answered \in [Ips -> Count]
      /\ calls \in [Calls -> Call \cup {Idle}] /\ revision \in 0..MaxRevision
    BY DEF SecurityInv, SecurityTypeOK, AttemptsOK, BanKinds
<1>2. policy \in Policy
    BY SecurityAssumption DEF SecurityAssumption, SecurityInv, SecurityTypeOK
<1>3. policy.failures \in Nat \ {0} /\ policy.unknown \in Nat \ {0}
    BY <1>2 DEF Policy
<1>4. \A j \in Ips : Owned(j)
    BY <1>1, OwnedMeans DEF SecurityInv
<1>5. \A j \in Ips : Within(j)
    BY DEF SecurityInv, GuessesWithinThreshold, Within
<1>6. revision \in Nat
    BY <1>1, SecurityAssumption DEF SecurityAssumption
<1> QED BY <1>1, <1>2, <1>3, <1>4, <1>5, <1>6

(* What is left to show of a step, in these terms. *)
LEMMA Assembled ==
    ASSUME SecurityTypeOK', RowsAreSane(attempts'), CallsRemember', CountersRemember',
           \A j \in Ips : Owned(j)' /\ Within(j)'
    PROVE  SecurityInv'
<1>1. pending' \in [Ips -> Count] /\ leaked' \in [Ips -> Count]
    BY DEF SecurityTypeOK
<1>2. ASSUME NEW j \in Ips, NEW n \in Nat, NEW k \in Nat
      PROVE  pending'[j].total = leaked'[j].total + n /\ pending'[j].unknown = leaked'[j].unknown + k
                => pending'[j] = Plus(leaked'[j], [total |-> n, unknown |-> k])
    BY <1>1 DEF Plus, Count
<1>3. ASSUME NEW j \in Ips
      PROVE  Cardinality(Running(j)') \in Nat /\ Cardinality(OfUnknown(Running(j))') \in Nat
    <2>1. Running(j)' \in SUBSET Calls /\ OfUnknown(Running(j))' \in SUBSET Calls
        BY DEF Running, OfUnknown
    <2> QED BY <2>1, Sizes
<1>4. ReservationsAreOwned'
    BY <1>2, <1>3 DEF ReservationsAreOwned, Owned
<1>5. GuessesWithinThreshold'
    BY DEF GuessesWithinThreshold, Within
<1> QED BY <1>4, <1>5 DEF SecurityInv

-----------------------------------------------------------------------------
(* Steps *)

(* Failures and reservations that leave room for one more guess. *)
LEMMA RoomFacts ==
    ASSUME SecurityInv, NEW ip \in Ips, NEW unknown \in BOOLEAN, ~Busy(attempts, ip, unknown)
    PROVE  /\ answered[ip].total + Cardinality(Current(ip)) + 1 <= policy.failures
           /\ unknown => answered[ip].unknown + Cardinality(OfUnknown(Current(ip))) + 1 <= policy.unknown
<1> DEFINE f == Failures(attempts, ip)
<1>1. /\ f \in Count /\ pending[ip] \in Count /\ leaked[ip] \in Count /\ answered[ip] \in Count
      /\ policy.failures \in Nat /\ policy.unknown \in Nat
    BY StateFacts, FailuresFacts
<1>2. /\ f.total + pending[ip].total < policy.failures
      /\ unknown => f.unknown + pending[ip].unknown < policy.unknown
    BY <1>1, StateFacts DEF Busy, Count
<1>3. answered[ip].total <= f.total /\ answered[ip].unknown <= f.unknown
    BY DEF SecurityInv, CountersRemember
<1>4. /\ Cardinality(Current(ip)) <= Cardinality(Running(ip))
      /\ Cardinality(OfUnknown(Current(ip))) <= Cardinality(OfUnknown(Running(ip)))
      /\ Cardinality(Current(ip)) \in Nat /\ Cardinality(Running(ip)) \in Nat
      /\ Cardinality(OfUnknown(Current(ip))) \in Nat /\ Cardinality(OfUnknown(Running(ip))) \in Nat
    <2>1. /\ Running(ip) \in SUBSET Calls /\ Current(ip) \in SUBSET Calls
          /\ OfUnknown(Running(ip)) \in SUBSET Calls /\ OfUnknown(Current(ip)) \in SUBSET Calls
          /\ Current(ip) \subseteq Running(ip) /\ OfUnknown(Current(ip)) \subseteq OfUnknown(Running(ip))
        BY RunningFacts
    <2> QED BY <2>1, Sizes
<1>5. /\ pending[ip].total = leaked[ip].total + Cardinality(Running(ip))
      /\ pending[ip].unknown = leaked[ip].unknown + Cardinality(OfUnknown(Running(ip)))
    BY StateFacts DEF Owned
<1> HIDE DEF f
<1> QED BY <1>1, <1>2, <1>3, <1>4, <1>5 DEF Count

LEMMA VerifyKeeps ==
    ASSUME SecurityInv, NEW c \in Calls, NEW ip \in Ips, NEW unknown \in BOOLEAN, Verify(c, ip, unknown)
    PROVE  SecurityInv'
<1>1. PICK o \in Begun(ip, unknown) :
        /\ attempts' = o.attempts /\ bans' = o.bans
        /\ pending' = [pending EXCEPT ![ip] = IF o.reserved THEN Plus(@, One(unknown)) ELSE @]
        /\ calls' = [calls EXCEPT ![c] =
                IF o.admitted THEN [ip |-> ip, unknown |-> unknown, reserved |-> o.reserved, revision |-> revision]
                ELSE Idle]
    BY DEF Verify
<1>2. /\ calls[c] = Idle
      /\ policy' = policy /\ revision' = revision /\ answered' = answered
      /\ leaked' = leaked /\ faults' = faults
    BY DEF Verify
<1>3. /\ AttemptsOK(attempts')
      /\ \A j \in Ips : Failures(attempts', j) = Failures(attempts, j)
      /\ IsTable(bans', BanKinds)
      /\ o.admitted \in BOOLEAN /\ o.reserved \in BOOLEAN
      /\ o.reserved => o.admitted /\ ~Busy(attempts, ip, unknown)
      /\ o.admitted /\ ~o.reserved => ip \in policy.exempt
    BY <1>1, BegunFacts
<1> DEFINE k == [ip |-> ip, unknown |-> unknown, reserved |-> o.reserved, revision |-> revision]
<1>4. k \in Call /\ k.ip = ip /\ k.unknown = unknown /\ k.reserved = o.reserved /\ k.revision = revision
    BY <1>3, StateFacts DEF Call
<1> HIDE DEF k
<1>5. \A j \in Ips :
        LET here == o.reserved /\ j = ip
            there == here /\ unknown
        IN
        /\ Running(j)' = IF here THEN Running(j) \cup {c} ELSE Running(j)
        /\ Current(j)' = IF here THEN Current(j) \cup {c} ELSE Current(j)
        /\ OfUnknown(Running(j))' = IF there THEN OfUnknown(Running(j)) \cup {c} ELSE OfUnknown(Running(j))
        /\ OfUnknown(Current(j))' = IF there THEN OfUnknown(Current(j)) \cup {c} ELSE OfUnknown(Current(j))
        /\ c \notin Running(j)
    <2>1. CASE o.admitted
        <3>1. calls' = [calls EXCEPT ![c] = k]
            BY <1>1, <2>1 DEF k
        <3>2. \A j \in Ips :
                LET here == k.reserved /\ j = k.ip
                    there == here /\ k.unknown
                IN
                /\ Running(j)' = IF here THEN Running(j) \cup {c} ELSE Running(j)
                /\ Current(j)' = IF here THEN Current(j) \cup {c} ELSE Current(j)
                /\ OfUnknown(Running(j))' = IF there THEN OfUnknown(Running(j)) \cup {c} ELSE OfUnknown(Running(j))
                /\ OfUnknown(Current(j))' = IF there THEN OfUnknown(Current(j)) \cup {c} ELSE OfUnknown(Current(j))
                /\ c \notin Running(j)
            BY <3>1, <1>2, <1>4, JoinFacts
        <3>3. k.ip = ip /\ k.unknown = unknown /\ k.reserved = o.reserved
            BY <1>4
        <3> QED BY <3>2, <3>3, Zenon
    <2>2. CASE ~o.admitted
        <3>1. ~o.reserved
            BY <1>3, <2>2
        <3>2. calls' = calls
            BY <1>1, <1>2, <2>2, StateFacts
        <3> QED BY <1>2, <3>1, <3>2 DEF Running, Current, OfUnknown
    <2> QED BY <1>3, <2>1, <2>2
<1>6. SecurityTypeOK'
    <2>1. IsTable(attempts', Row) /\ IsTable(bans', {"temporary", "lapsed", "permanent"})
        BY <1>3 DEF AttemptsOK, BanKinds
    <2>2. pending' \in [Ips -> Count]
        BY <1>1, <1>3, StateFacts, CountFacts
    <2>3. calls' \in [Calls -> Call \cup {Idle}]
        BY <1>1, <1>4, StateFacts DEF k
    <2> QED BY <1>2, <2>1, <2>2, <2>3 DEF SecurityInv, SecurityTypeOK
<1>7. CallsRemember'
    <2>1. ASSUME NEW d \in Calls, calls'[d] # Idle
          PROVE  /\ calls'[d].revision <= revision
                 /\ calls'[d].revision = revision /\ ~calls'[d].reserved => calls'[d].ip \in policy.exempt
        <3>1. CASE d = c
            <4>1. o.admitted /\ calls'[d] = k
                BY <1>1, <3>1, <2>1, StateFacts DEF k
            <4> QED BY <4>1, <1>3, <1>4, StateFacts
        <3>2. CASE d # c
            BY <1>1, <3>2, <2>1, StateFacts DEF SecurityInv, CallsRemember
        <3> QED BY <3>1, <3>2
    <2> QED BY <1>2, <2>1 DEF CallsRemember
<1>8. CountersRemember'
    BY <1>2, <1>3 DEF SecurityInv, CountersRemember, Failures
<1>9. ASSUME NEW j \in Ips PROVE Owned(j)'
    <2>1. /\ Running(j) \in SUBSET Calls /\ OfUnknown(Running(j)) \in SUBSET Calls
          /\ OfUnknown(Running(j)) \subseteq Running(j)
        BY RunningFacts
    <2>2. pending[j] \in Count /\ leaked[j] \in Count
        BY StateFacts
    <2>3. /\ Cardinality(Running(j)') = Cardinality(Running(j)) + (IF o.reserved /\ j = ip THEN 1 ELSE 0)
          /\ Cardinality(OfUnknown(Running(j))')
                = Cardinality(OfUnknown(Running(j))) + (IF o.reserved /\ j = ip /\ unknown THEN 1 ELSE 0)
        BY <1>5, <2>1, Sizes
    <2>4. /\ pending'[j].total = pending[j].total + (IF o.reserved /\ j = ip THEN 1 ELSE 0)
          /\ pending'[j].unknown = pending[j].unknown + (IF o.reserved /\ j = ip /\ unknown THEN 1 ELSE 0)
        BY <1>1, <1>3, <2>2, StateFacts, CountFacts DEF Count
    <2>5. Owned(j)
        BY StateFacts
    <2>6. Cardinality(Running(j)) \in Nat /\ Cardinality(OfUnknown(Running(j))) \in Nat
        BY <2>1, Sizes
    <2> QED BY <1>2, <2>2, <2>3, <2>4, <2>5, <2>6 DEF Owned, Count
<1>10. ASSUME NEW j \in Ips PROVE Within(j)'
    <2>1. /\ Current(j) \in SUBSET Calls /\ OfUnknown(Current(j)) \in SUBSET Calls
          /\ c \notin Current(j) /\ c \notin OfUnknown(Current(j))
        BY <1>5, RunningFacts
    <2>2. /\ Cardinality(Current(j)') = Cardinality(Current(j)) + (IF o.reserved /\ j = ip THEN 1 ELSE 0)
          /\ Cardinality(OfUnknown(Current(j))')
                = Cardinality(OfUnknown(Current(j))) + (IF o.reserved /\ j = ip /\ unknown THEN 1 ELSE 0)
        BY <1>5, <2>1, Sizes
    <2>3. Within(j) /\ answered[j] \in Count /\ policy.failures \in Nat /\ policy.unknown \in Nat
        BY StateFacts
    <2>4. Cardinality(Current(j)) \in Nat /\ Cardinality(OfUnknown(Current(j))) \in Nat
        BY <2>1, Sizes
    <2>5. CASE o.reserved /\ j = ip
        <3>1. /\ answered[j].total + Cardinality(Current(j)) + 1 <= policy.failures
              /\ unknown => answered[j].unknown + Cardinality(OfUnknown(Current(j))) + 1 <= policy.unknown
            BY <1>3, <2>5, RoomFacts
        <3> QED BY <1>2, <2>2, <2>3, <2>4, <2>5, <3>1 DEF Within, Count
    <2>6. CASE ~(o.reserved /\ j = ip)
        BY <1>2, <2>2, <2>3, <2>4, <2>6 DEF Within, Count
    <2> QED BY <2>5, <2>6
<1> QED BY <1>3, <1>6, <1>7, <1>8, <1>9, <1>10, Assembled DEF AttemptsOK

(* A call ends and releases what it reserved. *)
LEMMA ReleasedFacts ==
    ASSUME SecurityInv, NEW c \in Calls, calls[c] # Idle, calls' = [calls EXCEPT ![c] = Idle],
           pending' = Released(calls[c]), leaked' = leaked, revision' = revision
    PROVE  pending' \in [Ips -> Count] /\ \A j \in Ips : Owned(j)'
<1> DEFINE k == calls[c]
<1>1. k \in Call /\ k.ip \in Ips /\ k.unknown \in BOOLEAN /\ k.reserved \in BOOLEAN
    BY StateFacts DEF Call
<1>2. pending' = [pending EXCEPT ![k.ip] = IF k.reserved THEN Minus(@, One(k.unknown)) ELSE @]
    BY DEF Released
<1>3. ASSUME NEW j \in Ips
      PROVE  /\ c \in Running(j) <=> k.reserved /\ j = k.ip
             /\ c \in OfUnknown(Running(j)) <=> k.reserved /\ j = k.ip /\ k.unknown
    BY DEF Running, OfUnknown
<1> HIDE DEF k
<1>4. ASSUME NEW j \in Ips PROVE pending'[j] \in Count /\ Owned(j)'
    <2>1. Running(j) \in SUBSET Calls /\ OfUnknown(Running(j)) \in SUBSET Calls
        BY RunningFacts
    <2>2. Running(j)' = Running(j) \ {c} /\ OfUnknown(Running(j))' = OfUnknown(Running(j)) \ {c}
        BY LeaveFacts
    <2>3. /\ Cardinality(Running(j)') = Cardinality(Running(j)) - (IF k.reserved /\ j = k.ip THEN 1 ELSE 0)
          /\ Cardinality(OfUnknown(Running(j))')
                = Cardinality(OfUnknown(Running(j))) - (IF k.reserved /\ j = k.ip /\ k.unknown THEN 1 ELSE 0)
        <3>1. c \notin Running(j) => Running(j)' = Running(j)
            BY <2>2
        <3>2. c \notin OfUnknown(Running(j)) => OfUnknown(Running(j))' = OfUnknown(Running(j))
            BY <2>2
        <3>3. Cardinality(Running(j)) \in Nat /\ Cardinality(OfUnknown(Running(j))) \in Nat
            BY <2>1, Sizes
        <3>4. c \in Running(j) => Cardinality(Running(j)') = Cardinality(Running(j)) - 1
            BY <2>1, <2>2, Sizes
        <3>5. c \in OfUnknown(Running(j)) =>
                Cardinality(OfUnknown(Running(j))') = Cardinality(OfUnknown(Running(j))) - 1
            BY <2>1, <2>2, Sizes
        <3> QED BY <1>3, <3>1, <3>2, <3>3, <3>4, <3>5
    <2>4. /\ Cardinality(Running(j)') \in Nat /\ Cardinality(OfUnknown(Running(j))') \in Nat
          /\ Cardinality(Running(j)) \in Nat /\ Cardinality(OfUnknown(Running(j))) \in Nat
        BY <2>1, <2>2, Sizes
    <2>5. pending[j] \in Count /\ leaked[j] \in Count /\ Owned(j) /\ pending \in [Ips -> Count]
        BY StateFacts
    <2>6. /\ pending'[j].total = pending[j].total - (IF k.reserved /\ j = k.ip THEN 1 ELSE 0)
          /\ pending'[j].unknown = pending[j].unknown - (IF k.reserved /\ j = k.ip /\ k.unknown THEN 1 ELSE 0)
        BY <1>1, <1>2, <2>5 DEF Count, Minus, One
    <2>7. Owned(j)'
        BY <2>3, <2>4, <2>5, <2>6 DEF Owned, Count
    <2>8. pending'[j].total \in Nat /\ pending'[j].unknown \in Nat
        BY <2>4, <2>5, <2>7 DEF Owned, Count
    <2>9. pending'[j] \in Count
        <3>1. CASE j = k.ip /\ k.reserved
            <4>1. pending'[j] = Minus(pending[j], One(k.unknown))
                BY <1>2, <2>5, <3>1
            <4> QED BY <4>1, <2>8 DEF Minus, Count
        <3>2. CASE ~(j = k.ip /\ k.reserved)
            BY <1>2, <2>5, <3>2
        <3> QED BY <3>1, <3>2
    <2> QED BY <2>7, <2>9
<1>5. pending' = [j \in Ips |-> pending'[j]]
    BY <1>2, StateFacts
<1> QED BY <1>4, <1>5

(* What a settlement answers stays below what the rows count. *)
LEMMA AnsweredFacts ==
    ASSUME SecurityInv, NEW a, AttemptsOK(a), \A j \in Ips : Failures(a, j) = Failures(attempts, j),
           NEW b, IsTable(b, BanKinds), NEW p,
           NEW ip \in Ips, NEW unknown \in BOOLEAN, NEW ok \in BOOLEAN, NEW current \in BOOLEAN,
           NEW s, s = Settle(ok, a, b, p, ip, unknown),
           attempts' = s.attempts, answered' = Answered(s, ip, unknown, current)
    PROVE  /\ answered' \in [Ips -> Count]
           /\ CountersRemember'
           /\ \A j \in Ips :
                LET more == s.counted /\ current /\ j = ip IN
                /\ answered'[j].total <= answered[j].total + (IF more THEN 1 ELSE 0)
                /\ answered'[j].unknown <= answered[j].unknown + (IF more /\ unknown THEN 1 ELSE 0)
<1>1. /\ AttemptsOK(s.attempts) /\ s.counted \in BOOLEAN
      /\ \A j \in Ips : j # ip \/ ~s.counted => Failures(s.attempts, j) = Failures(a, j)
      /\ s.counted /\ ip \in DOMAIN s.attempts =>
            Failures(s.attempts, ip) = Plus(Failures(a, ip), One(unknown))
    BY SettleFacts
<1>2. answered \in [Ips -> Count] /\ Zero \in Count /\ One(unknown) \in Count
    BY StateFacts, CountFacts
<1>3. /\ answered' \in [Ips -> Count]
      /\ \A j \in Ips : j # ip \/ ~s.counted => answered'[j] = answered[j]
      /\ s.counted /\ ip \notin DOMAIN s.attempts => answered'[ip] = Zero
      /\ s.counted /\ ip \in DOMAIN s.attempts /\ current => answered'[ip] = Plus(answered[ip], One(unknown))
      /\ s.counted /\ ip \in DOMAIN s.attempts /\ ~current => answered'[ip] = answered[ip]
    BY <1>1, <1>2, CountFacts DEF Answered
<1>4. ASSUME NEW j \in Ips
      PROVE  /\ answered'[j].total <= Failures(attempts', j).total
             /\ answered'[j].unknown <= Failures(attempts', j).unknown
    <2>1. answered[j].total <= Failures(a, j).total /\ answered[j].unknown <= Failures(a, j).unknown
        BY DEF SecurityInv, CountersRemember
    <2>2. Failures(s.attempts, j) \in Count /\ Failures(a, j) \in Count
        BY <1>1, FailuresFacts
    <2>3. answered[j] \in Count
        BY <1>2
    <2>4. CASE j # ip \/ ~s.counted
        BY <1>1, <1>3, <2>1, <2>4
    <2>5. CASE j = ip /\ s.counted /\ ip \notin DOMAIN s.attempts
        BY <1>3, <2>2, <2>5, CountFacts DEF Count
    <2>6. CASE j = ip /\ s.counted /\ ip \in DOMAIN s.attempts
        <3>1. /\ Failures(s.attempts, j).total = Failures(a, j).total + One(unknown).total
              /\ Failures(s.attempts, j).unknown = Failures(a, j).unknown + One(unknown).unknown
            BY <1>1, <1>2, <2>2, <2>6, CountFacts
        <3>2. \/ answered'[j] = answered[j]
              \/ /\ answered'[j].total = answered[j].total + One(unknown).total
                 /\ answered'[j].unknown = answered[j].unknown + One(unknown).unknown
            BY <1>2, <1>3, <2>3, <2>6, CountFacts
        <3> QED BY <1>2, <2>1, <2>2, <2>3, <3>1, <3>2 DEF Count
    <2> QED BY <2>4, <2>5, <2>6
<1>5. CountersRemember'
    BY <1>4 DEF CountersRemember, Failures
<1>6. ASSUME NEW j \in Ips
      PROVE  LET more == s.counted /\ current /\ j = ip IN
             /\ answered'[j].total <= answered[j].total + (IF more THEN 1 ELSE 0)
             /\ answered'[j].unknown <= answered[j].unknown + (IF more /\ unknown THEN 1 ELSE 0)
    <2>1. answered[j] \in Count
        BY <1>2
    <2>2. /\ One(unknown).total = 1 /\ One(unknown).unknown = IF unknown THEN 1 ELSE 0
          /\ Zero.total = 0 /\ Zero.unknown = 0
          /\ Plus(answered[j], One(unknown)).total = answered[j].total + One(unknown).total
          /\ Plus(answered[j], One(unknown)).unknown = answered[j].unknown + One(unknown).unknown
        BY <1>2, <2>1, CountFacts
    <2> QED BY <1>1, <1>3, <2>1, <2>2 DEF Count
<1> QED BY <1>3, <1>5, <1>6

(* The calls after one of them has ended. *)
LEMMA GoneFacts ==
    ASSUME SecurityInv, NEW c \in Calls, calls[c] # Idle, calls' = [calls EXCEPT ![c] = Idle],
           UNCHANGED <<policy, revision>>
    PROVE  /\ calls' \in [Calls -> Call \cup {Idle}]
           /\ CallsRemember'
           /\ \A j \in Ips :
                LET k == calls[c]
                    here == k.reserved /\ k.revision = revision /\ j = k.ip
                IN
                /\ Cardinality(Current(j)') = Cardinality(Current(j)) - (IF here THEN 1 ELSE 0)
                /\ Cardinality(OfUnknown(Current(j))')
                        = Cardinality(OfUnknown(Current(j))) - (IF here /\ k.unknown THEN 1 ELSE 0)
                /\ Cardinality(Current(j)) \in Nat /\ Cardinality(OfUnknown(Current(j))) \in Nat
<1>1. calls' \in [Calls -> Call \cup {Idle}]
    BY StateFacts
<1>2. CallsRemember'
    <2>1. \A d \in Calls : calls'[d] # Idle => calls'[d] = calls[d]
        BY StateFacts
    <2> QED BY <2>1 DEF SecurityInv, CallsRemember
<1>3. ASSUME NEW j \in Ips
      PROVE  LET k == calls[c]
                 here == k.reserved /\ k.revision = revision /\ j = k.ip
             IN
             /\ Cardinality(Current(j)') = Cardinality(Current(j)) - (IF here THEN 1 ELSE 0)
             /\ Cardinality(OfUnknown(Current(j))')
                     = Cardinality(OfUnknown(Current(j))) - (IF here /\ k.unknown THEN 1 ELSE 0)
             /\ Cardinality(Current(j)) \in Nat /\ Cardinality(OfUnknown(Current(j))) \in Nat
    <2>1. Current(j) \in SUBSET Calls /\ OfUnknown(Current(j)) \in SUBSET Calls
        BY RunningFacts
    <2>2. Current(j)' = Current(j) \ {c} /\ OfUnknown(Current(j))' = OfUnknown(Current(j)) \ {c}
        BY LeaveFacts
    <2>3. /\ c \in Current(j) <=> calls[c].reserved /\ calls[c].revision = revision /\ j = calls[c].ip
          /\ c \in OfUnknown(Current(j)) <=> c \in Current(j) /\ calls[c].unknown
        BY DEF Running, Current, OfUnknown
    <2>4. c \notin Current(j) => Current(j)' = Current(j)
        BY <2>2
    <2>5. c \notin OfUnknown(Current(j)) => OfUnknown(Current(j))' = OfUnknown(Current(j))
        BY <2>2
    <2>6. Cardinality(Current(j)) \in Nat /\ Cardinality(OfUnknown(Current(j))) \in Nat
        BY <2>1, Sizes
    <2>7. c \in Current(j) => Cardinality(Current(j)') = Cardinality(Current(j)) - 1
        BY <2>1, <2>2, Sizes
    <2>8. c \in OfUnknown(Current(j)) => Cardinality(OfUnknown(Current(j))') = Cardinality(OfUnknown(Current(j))) - 1
        BY <2>1, <2>2, Sizes
    <2> QED BY <2>3, <2>4, <2>5, <2>6, <2>7, <2>8
<1> QED BY <1>1, <1>2, <1>3

LEMMA FinishKeeps ==
    ASSUME SecurityInv, NEW c \in Calls, NEW ok \in BOOLEAN, Finish(c, ok)
    PROVE  SecurityInv' /\ Keeps(bans, bans')
<1> DEFINE k == calls[c]
           current == k.revision = revision
           s == Settle(ok, attempts, bans, Released(k), k.ip, k.unknown)
<1>1. /\ k # Idle /\ pending' = Released(k) /\ attempts' = s.attempts /\ bans' = s.bans
      /\ answered' = Answered(s, k.ip, k.unknown, current)
      /\ calls' = [calls EXCEPT ![c] = Idle]
      /\ policy' = policy /\ revision' = revision /\ leaked' = leaked /\ faults' = faults
    BY DEF Finish
<1>2. k \in Call /\ k.ip \in Ips /\ k.unknown \in BOOLEAN /\ k.reserved \in BOOLEAN /\ current \in BOOLEAN
    BY <1>1, StateFacts DEF Call
<1>3. /\ AttemptsOK(attempts') /\ IsTable(bans', BanKinds) /\ Keeps(bans, bans')
      /\ s.counted \in BOOLEAN /\ s.counted => k.ip \notin policy.exempt
    <2> DEFINE p == Released(k)
    <2>1. s = Settle(ok, attempts, bans, p, k.ip, k.unknown)
        OBVIOUS
    <2> HIDE DEF p, s
    <2> QED BY <1>1, <1>2, <2>1, StateFacts, SettleFacts
<1>4. /\ answered' \in [Ips -> Count]
      /\ CountersRemember'
      /\ \A j \in Ips :
            LET more == s.counted /\ current /\ j = k.ip IN
            /\ answered'[j].total <= answered[j].total + (IF more THEN 1 ELSE 0)
            /\ answered'[j].unknown <= answered[j].unknown + (IF more /\ k.unknown THEN 1 ELSE 0)
    <2> DEFINE p == Released(k)
    <2>1. s = Settle(ok, attempts, bans, p, k.ip, k.unknown)
        OBVIOUS
    <2>2. AttemptsOK(attempts) /\ IsTable(bans, BanKinds)
        BY StateFacts
    <2> HIDE DEF p, s, current, k
    <2> QED BY <1>1, <1>2, <2>1, <2>2, AnsweredFacts
<1>5. s.counted /\ current => k.reserved
    BY <1>1, <1>2, <1>3 DEF SecurityInv, CallsRemember
<1>6. pending' \in [Ips -> Count] /\ \A j \in Ips : Owned(j)'
    BY <1>1, ReleasedFacts
<1>7. /\ calls' \in [Calls -> Call \cup {Idle}]
      /\ CallsRemember'
      /\ \A j \in Ips :
            LET here == k.reserved /\ k.revision = revision /\ j = k.ip IN
            /\ Cardinality(Current(j)') = Cardinality(Current(j)) - (IF here THEN 1 ELSE 0)
            /\ Cardinality(OfUnknown(Current(j))')
                    = Cardinality(OfUnknown(Current(j))) - (IF here /\ k.unknown THEN 1 ELSE 0)
            /\ Cardinality(Current(j)) \in Nat /\ Cardinality(OfUnknown(Current(j))) \in Nat
    BY <1>1, GoneFacts
<1> HIDE DEF s
<1>8. ASSUME NEW j \in Ips PROVE Within(j)'
    <2>1. Within(j) /\ answered[j] \in Count /\ answered'[j] \in Count
          /\ policy.failures \in Nat /\ policy.unknown \in Nat
        BY <1>4, StateFacts
    <2> HIDE DEF k
    <2> QED BY <1>1, <1>2, <1>3, <1>4, <1>5, <1>7, <2>1 DEF Within, Count
<1>9. SecurityTypeOK'
    BY <1>1, <1>3, <1>4, <1>6, <1>7 DEF SecurityInv, SecurityTypeOK, AttemptsOK, BanKinds
<1> QED BY <1>3, <1>4, <1>6, <1>7, <1>8, <1>9, Assembled DEF AttemptsOK

LEMMA FewerFacts ==
    ASSUME SecurityInv, NEW c \in Calls, calls[c] # Idle, calls' = [calls EXCEPT ![c] = Idle],
           UNCHANGED <<policy, revision>>
    PROVE  /\ calls' \in [Calls -> Call \cup {Idle}] /\ CallsRemember'
           /\ \A j \in Ips :
                /\ Cardinality(Current(j)') <= Cardinality(Current(j)) /\ Cardinality(Current(j)') \in Int
                /\ Cardinality(OfUnknown(Current(j))') <= Cardinality(OfUnknown(Current(j)))
                /\ Cardinality(OfUnknown(Current(j))') \in Int
                /\ Cardinality(Current(j)) \in Nat /\ Cardinality(OfUnknown(Current(j))) \in Nat
<1>1. calls' \in [Calls -> Call \cup {Idle}] /\ CallsRemember'
    BY GoneFacts
<1>2. ASSUME NEW j \in Ips
      PROVE  /\ Cardinality(Current(j)') <= Cardinality(Current(j)) /\ Cardinality(Current(j)') \in Int
             /\ Cardinality(OfUnknown(Current(j))') <= Cardinality(OfUnknown(Current(j)))
             /\ Cardinality(OfUnknown(Current(j))') \in Int
             /\ Cardinality(Current(j)) \in Nat /\ Cardinality(OfUnknown(Current(j))) \in Nat
    <2>1. Current(j) \in SUBSET Calls /\ OfUnknown(Current(j)) \in SUBSET Calls
        BY RunningFacts
    <2>2. Current(j)' = Current(j) \ {c} /\ OfUnknown(Current(j))' = OfUnknown(Current(j)) \ {c}
        BY LeaveFacts
    <2>3. /\ Current(j)' \in SUBSET Calls /\ OfUnknown(Current(j))' \in SUBSET Calls
          /\ Current(j)' \subseteq Current(j) /\ OfUnknown(Current(j))' \subseteq OfUnknown(Current(j))
        BY <2>1, <2>2
    <2> QED BY <2>1, <2>3, Sizes
<1> QED BY <1>1, <1>2

LEMMA HashFailsKeeps ==
    ASSUME SecurityInv, NEW c \in Calls, HashFails(c)
    PROVE  SecurityInv'
<1>1. /\ calls[c] # Idle /\ pending' = Released(calls[c]) /\ calls' = [calls EXCEPT ![c] = Idle]
      /\ attempts' = attempts /\ bans' = bans /\ policy' = policy /\ revision' = revision
      /\ answered' = answered /\ leaked' = leaked /\ faults' = faults
    BY DEF HashFails
<1>2. pending' \in [Ips -> Count] /\ \A j \in Ips : Owned(j)'
    BY <1>1, ReleasedFacts
<1>3. /\ calls' \in [Calls -> Call \cup {Idle}] /\ CallsRemember'
      /\ \A j \in Ips :
            /\ Cardinality(Current(j)') <= Cardinality(Current(j)) /\ Cardinality(Current(j)') \in Int
            /\ Cardinality(OfUnknown(Current(j))') <= Cardinality(OfUnknown(Current(j)))
            /\ Cardinality(OfUnknown(Current(j))') \in Int
            /\ Cardinality(Current(j)) \in Nat /\ Cardinality(OfUnknown(Current(j))) \in Nat
    BY <1>1, FewerFacts
<1>4. ASSUME NEW j \in Ips PROVE Within(j)'
    <2>1. Within(j) /\ answered[j] \in Count /\ policy.failures \in Nat /\ policy.unknown \in Nat
        BY StateFacts
    <2> QED BY <1>1, <1>3, <2>1 DEF Within, Count
<1>5. SecurityTypeOK'
    BY <1>1, <1>2, <1>3 DEF SecurityInv, SecurityTypeOK
<1>6. RowsAreSane(attempts') /\ CountersRemember'
    BY <1>1 DEF SecurityInv, CountersRemember, Failures
<1> QED BY <1>2, <1>3, <1>4, <1>5, <1>6, Assembled

LEMMA BeginFailsKeeps ==
    ASSUME SecurityInv, NEW c \in Calls, BeginFails(c)
    PROVE  SecurityInv'
<1> DEFINE k == calls[c]
<1>1. /\ k # Idle /\ calls' = [calls EXCEPT ![c] = Idle]
      /\ faults < MaxFaults /\ faults' = faults + 1
      /\ leaked' = [leaked EXCEPT ![k.ip] = IF k.reserved THEN Plus(@, One(k.unknown)) ELSE @]
      /\ attempts' = attempts /\ bans' = bans /\ policy' = policy /\ revision' = revision
      /\ pending' = pending /\ answered' = answered
    BY DEF BeginFails
<1>2. k \in Call /\ k.ip \in Ips /\ k.unknown \in BOOLEAN /\ k.reserved \in BOOLEAN
    BY <1>1, StateFacts DEF Call
<1>3. ASSUME NEW j \in Ips
      PROVE  /\ c \in Running(j) <=> k.reserved /\ j = k.ip
             /\ c \in OfUnknown(Running(j)) <=> k.reserved /\ j = k.ip /\ k.unknown
    BY <1>1 DEF Running, OfUnknown
<1>4. /\ calls' \in [Calls -> Call \cup {Idle}] /\ CallsRemember'
      /\ \A j \in Ips :
            /\ Cardinality(Current(j)') <= Cardinality(Current(j)) /\ Cardinality(Current(j)') \in Int
            /\ Cardinality(OfUnknown(Current(j))') <= Cardinality(OfUnknown(Current(j)))
            /\ Cardinality(OfUnknown(Current(j))') \in Int
            /\ Cardinality(Current(j)) \in Nat /\ Cardinality(OfUnknown(Current(j))) \in Nat
    BY <1>1, FewerFacts
<1>5. leaked' \in [Ips -> Count]
    BY <1>1, <1>2, StateFacts, CountFacts
<1>6. ASSUME NEW j \in Ips PROVE Within(j)'
    <2>1. Within(j) /\ answered[j] \in Count /\ policy.failures \in Nat /\ policy.unknown \in Nat
        BY StateFacts
    <2> QED BY <1>1, <1>4, <2>1 DEF Within, Count
<1>7. ASSUME NEW j \in Ips PROVE Owned(j)'
    <2>1. Running(j) \in SUBSET Calls /\ OfUnknown(Running(j)) \in SUBSET Calls
        BY RunningFacts
    <2>2. Running(j)' = Running(j) \ {c} /\ OfUnknown(Running(j))' = OfUnknown(Running(j)) \ {c}
        BY <1>1, LeaveFacts
    <2>3. /\ c \notin Running(j) => Running(j)' = Running(j)
          /\ c \notin OfUnknown(Running(j)) => OfUnknown(Running(j))' = OfUnknown(Running(j))
        BY <2>2
    <2>4. Cardinality(Running(j)) \in Nat /\ Cardinality(OfUnknown(Running(j))) \in Nat
        BY <2>1, Sizes
    <2>5. c \in Running(j) => Cardinality(Running(j)') = Cardinality(Running(j)) - 1
        BY <2>1, <2>2, Sizes
    <2>6. c \in OfUnknown(Running(j)) =>
            Cardinality(OfUnknown(Running(j))') = Cardinality(OfUnknown(Running(j))) - 1
        BY <2>1, <2>2, Sizes
    <2>7. pending[j] \in Count /\ leaked[j] \in Count /\ Owned(j) /\ leaked \in [Ips -> Count]
        BY StateFacts
    <2>8. /\ leaked'[j].total = leaked[j].total + (IF k.reserved /\ j = k.ip THEN 1 ELSE 0)
          /\ leaked'[j].unknown = leaked[j].unknown + (IF k.reserved /\ j = k.ip /\ k.unknown THEN 1 ELSE 0)
        <3> HIDE DEF k
        <3> QED BY <1>1, <1>2, <2>7 DEF Count, Plus, One
    <2> HIDE DEF k
    <2> QED BY <1>1, <1>2, <1>3, <2>3, <2>4, <2>5, <2>6, <2>7, <2>8 DEF Owned, Count
<1>8. faults' \in 0..MaxFaults
    BY <1>1, SecurityAssumption DEF SecurityAssumption, SecurityInv, SecurityTypeOK
<1>9. SecurityTypeOK'
    BY <1>1, <1>4, <1>5, <1>8 DEF SecurityInv, SecurityTypeOK
<1>10. RowsAreSane(attempts') /\ CountersRemember'
    BY <1>1 DEF SecurityInv, CountersRemember, Failures
<1> QED BY <1>4, <1>6, <1>7, <1>9, <1>10, Assembled

(* Steps that leave the checks alone and answer nothing new. *)
LEMMA QuietKeeps ==
    ASSUME SecurityInv, UNCHANGED <<policy, revision, pending, calls, leaked, faults>>,
           AttemptsOK(attempts'), IsTable(bans', BanKinds), answered' \in [Ips -> Count], CountersRemember',
           \A j \in Ips : answered'[j].total <= answered[j].total /\ answered'[j].unknown <= answered[j].unknown
    PROVE  SecurityInv'
<1>1. SecurityTypeOK'
    BY DEF SecurityInv, SecurityTypeOK, AttemptsOK, BanKinds
<1>2. CallsRemember'
    BY DEF SecurityInv, CallsRemember
<1>3. ASSUME NEW j \in Ips PROVE Owned(j)'
    BY StateFacts DEF Owned, Running, OfUnknown
<1>4. ASSUME NEW j \in Ips PROVE Within(j)'
    <2>1. Current(j)' = Current(j) /\ OfUnknown(Current(j))' = OfUnknown(Current(j))
        BY DEF Current, Running, OfUnknown
    <2>2. Cardinality(Current(j)) \in Nat /\ Cardinality(OfUnknown(Current(j))) \in Nat
        BY RunningFacts, Sizes
    <2>3. /\ Within(j) /\ answered[j] \in Count /\ answered'[j] \in Count
          /\ policy.failures \in Nat /\ policy.unknown \in Nat
        BY StateFacts
    <2> QED BY <2>1, <2>2, <2>3 DEF Within, Count
<1> QED BY <1>1, <1>2, <1>3, <1>4, Assembled DEF AttemptsOK

LEMMA AtOnceKeeps ==
    ASSUME SecurityInv, NEW ip \in Ips, NEW unknown \in BOOLEAN, NEW ok \in BOOLEAN, AtOnce(ip, unknown, ok)
    PROVE  SecurityInv' /\ Keeps(bans, bans')
<1>1. PICK o \in Begun(ip, unknown) :
        LET s == IF o.admitted THEN Settle(ok, o.attempts, o.bans, pending, ip, unknown)
                 ELSE Settled(FALSE, o.attempts, o.bans)
        IN  attempts' = s.attempts /\ bans' = s.bans /\ answered' = Answered(s, ip, unknown, TRUE)
    BY DEF AtOnce
<1>2. /\ policy' = policy /\ revision' = revision /\ pending' = pending /\ calls' = calls
      /\ leaked' = leaked /\ faults' = faults
    BY DEF AtOnce
<1>3. /\ AttemptsOK(o.attempts) /\ \A j \in Ips : Failures(o.attempts, j) = Failures(attempts, j)
      /\ IsTable(o.bans, BanKinds) /\ Keeps(bans, o.bans)
      /\ o.admitted \in BOOLEAN /\ o.reserved \in BOOLEAN
      /\ o.reserved => o.admitted /\ ~Busy(attempts, ip, unknown)
      /\ o.admitted /\ ~o.reserved => ip \in policy.exempt
    BY BegunFacts
<1>4. CASE o.admitted
    <2> DEFINE s == Settle(ok, o.attempts, o.bans, pending, ip, unknown)
               current == TRUE
    <2>1. attempts' = s.attempts /\ bans' = s.bans /\ answered' = Answered(s, ip, unknown, current)
        BY <1>1, <1>4
    <2>e. s = Settle(ok, o.attempts, o.bans, pending, ip, unknown) /\ current \in BOOLEAN
        OBVIOUS
    <2> HIDE DEF s, current
    <2>2. /\ AttemptsOK(attempts') /\ IsTable(bans', BanKinds) /\ Keeps(o.bans, bans')
          /\ s.counted \in BOOLEAN /\ s.counted => ip \notin policy.exempt
        BY <1>3, <2>1, <2>e, SettleFacts
    <2>3. Keeps(bans, bans')
        BY <1>3, <2>2 DEF Keeps
    <2>4. /\ answered' \in [Ips -> Count] /\ CountersRemember'
          /\ \A j \in Ips :
                LET more == s.counted /\ current /\ j = ip IN
                /\ answered'[j].total <= answered[j].total + (IF more THEN 1 ELSE 0)
                /\ answered'[j].unknown <= answered[j].unknown + (IF more /\ unknown THEN 1 ELSE 0)
        <3> DEFINE a == o.attempts
                   b == o.bans
        <3>1. /\ AttemptsOK(a) /\ \A j \in Ips : Failures(a, j) = Failures(attempts, j)
              /\ IsTable(b, BanKinds) /\ s = Settle(ok, a, b, pending, ip, unknown)
            BY <1>3, <2>e
        <3> HIDE DEF a, b
        <3> QED BY <2>1, <2>e, <3>1, AnsweredFacts
    <2>5. SecurityTypeOK'
        BY <1>2, <2>2, <2>4 DEF SecurityInv, SecurityTypeOK, AttemptsOK, BanKinds
    <2>6. CallsRemember'
        BY <1>2 DEF SecurityInv, CallsRemember
    <2>7. ASSUME NEW j \in Ips PROVE Owned(j)'
        BY <1>2, StateFacts DEF Owned, Running, OfUnknown
    <2>8. ASSUME NEW j \in Ips PROVE Within(j)'
        <3>1. Current(j)' = Current(j) /\ OfUnknown(Current(j))' = OfUnknown(Current(j))
            BY <1>2 DEF Current, Running, OfUnknown
        <3>2. Cardinality(Current(j)) \in Nat /\ Cardinality(OfUnknown(Current(j))) \in Nat
            BY RunningFacts, Sizes
        <3>3. /\ Within(j) /\ answered[j] \in Count /\ answered'[j] \in Count
              /\ policy.failures \in Nat /\ policy.unknown \in Nat
            BY <2>4, StateFacts
        <3>4. CASE s.counted /\ j = ip
            <4>1. ~Busy(attempts, ip, unknown)
                BY <1>3, <1>4, <2>2, <3>4
            <4>2. /\ answered[ip].total + Cardinality(Current(ip)) + 1 <= policy.failures
                  /\ unknown => answered[ip].unknown + Cardinality(OfUnknown(Current(ip))) + 1 <= policy.unknown
                BY <4>1, RoomFacts
            <4> QED BY <1>2, <2>4, <3>1, <3>2, <3>3, <3>4, <4>2 DEF Within, Count
        <3>5. CASE ~(s.counted /\ j = ip)
            BY <1>2, <2>4, <3>1, <3>2, <3>3, <3>5 DEF Within, Count
        <3> QED BY <3>4, <3>5
    <2> QED BY <2>2, <2>3, <2>4, <2>5, <2>6, <2>7, <2>8, Assembled DEF AttemptsOK
<1>5. CASE ~o.admitted
    <2>1. attempts' = o.attempts /\ bans' = o.bans /\ answered' = answered
        <3> DEFINE s == Settled(FALSE, o.attempts, o.bans)
        <3>1. attempts' = s.attempts /\ bans' = s.bans /\ answered' = Answered(s, ip, unknown, TRUE)
            BY <1>1, <1>5
        <3>2. s.attempts = o.attempts /\ s.bans = o.bans /\ s.counted = FALSE
            BY DEF Settled
        <3> HIDE DEF s
        <3>3. Answered(s, ip, unknown, TRUE) = answered
            BY <3>2, StateFacts DEF Answered
        <3> QED BY <3>1, <3>2, <3>3
    <2>2. CountersRemember'
        BY <1>3, <2>1 DEF SecurityInv, CountersRemember, Failures
    <2>3. \A j \in Ips : answered'[j].total <= answered[j].total /\ answered'[j].unknown <= answered[j].unknown
        BY <2>1, StateFacts DEF Count
    <2>4. AttemptsOK(attempts') /\ IsTable(bans', BanKinds) /\ answered' \in [Ips -> Count]
        BY <1>3, <2>1, StateFacts
    <2> QED BY <1>2, <1>3, <2>1, <2>2, <2>3, <2>4, QuietKeeps
<1> QED BY <1>3, <1>4, <1>5

LEMMA BanStepsKeep ==
    ASSUME SecurityInv, UNCHANGED <<policy, revision, pending, calls, leaked, faults, answered>>,
           attempts' = attempts \/ attempts' = Pruned(attempts), IsTable(bans', BanKinds)
    PROVE  SecurityInv'
<1>1. AttemptsOK(attempts) /\ answered \in [Ips -> Count]
    BY StateFacts
<1>2. AttemptsOK(attempts') /\ \A j \in Ips : Failures(attempts', j) = Failures(attempts, j)
    BY <1>1, PrunedFacts
<1>3. CountersRemember'
    BY <1>2 DEF SecurityInv, CountersRemember, Failures
<1>4. \A j \in Ips : answered'[j].total <= answered[j].total /\ answered'[j].unknown <= answered[j].unknown
    BY <1>1 DEF Count
<1> QED BY <1>1, <1>2, <1>3, <1>4, QuietKeeps

LEMMA SecurityCheckKeeps ==
    ASSUME SecurityInv, NEW ip \in Ips, SecurityCheck(ip)
    PROVE  SecurityInv' /\ Keeps(bans, bans')
<1>1. /\ ~Banned(bans, ip) /\ bans' = Put(bans, ip, "temporary")
      /\ UNCHANGED <<attempts, policy, revision, pending, calls, answered, leaked, faults>>
    BY DEF SecurityCheck
<1>2. IsTable(bans', BanKinds) /\ Keeps(bans, bans')
    BY <1>1, StateFacts, BannedFacts DEF BanKinds
<1> QED BY <1>1, <1>2, BanStepsKeep

LEMMA SecurityViewKeeps ==
    ASSUME SecurityInv, SecurityView
    PROVE  SecurityInv' /\ Keeps(bans, bans')
<1>1. IsTable(bans', BanKinds) /\ Keeps(bans, bans')
    BY StateFacts, ExpiredFacts DEF SecurityView
<1> QED BY <1>1, BanStepsKeep DEF SecurityView, AdminOnly

LEMMA BanKeeps ==
    ASSUME SecurityInv, NEW ip \in Ips, NEW kind \in {"temporary", "permanent"}, Ban(ip, kind)
    PROVE  SecurityInv' /\ \A j \in Ips : j # ip /\ j \in DOMAIN bans /\ bans[j] = "permanent" =>
                                j \in DOMAIN bans' /\ bans'[j] = "permanent"
<1>1. PICK b \in Expired(bans) : bans' \in Expired(Put(b, ip, kind))
    BY DEF Ban
<1>2. IsTable(b, BanKinds) /\ Keeps(bans, b)
    BY StateFacts, ExpiredFacts
<1> DEFINE d == Put(b, ip, kind)
<1>3. /\ IsTable(d, BanKinds)
      /\ \A j \in DOMAIN b : j # ip => j \in DOMAIN d /\ d[j] = b[j]
    BY <1>2 DEF Put, IsTable, BanKinds
<1> HIDE DEF d
<1>4. bans' \in Expired(d)
    BY <1>1 DEF d
<1>5. IsTable(bans', BanKinds) /\ Keeps(d, bans')
    BY <1>3, <1>4, ExpiredFacts
<1>6. SecurityInv'
    BY <1>5, BanStepsKeep DEF Ban, AdminOnly
<1> QED BY <1>2, <1>3, <1>5, <1>6 DEF Keeps

LEMMA BanLapsesKeeps ==
    ASSUME SecurityInv, NEW ip \in Ips, BanLapses(ip)
    PROVE  SecurityInv' /\ Keeps(bans, bans')
<1>1. ip \in DOMAIN bans /\ bans[ip] = "temporary" /\ bans' = [bans EXCEPT ![ip] = "lapsed"]
    BY DEF BanLapses
<1>2. IsTable(bans, BanKinds)
    BY StateFacts
<1>3. IsTable(bans', BanKinds) /\ Keeps(bans, bans')
    BY <1>1, <1>2 DEF IsTable, Keeps, BanKinds
<1> QED BY <1>3, BanStepsKeep DEF BanLapses

(* The window of an address ends or its row goes: its account is empty. *)
LEMMA ForgottenKeeps ==
    ASSUME SecurityInv, NEW ip \in Ips, UNCHANGED <<policy, revision, pending, calls, leaked, faults>>,
           AttemptsOK(attempts'), IsTable(bans', BanKinds),
           \A j \in Ips : j # ip => Failures(attempts', j) = Failures(attempts, j),
           answered' = [answered EXCEPT ![ip] = Zero]
    PROVE  SecurityInv'
<1>1. /\ answered' \in [Ips -> Count] /\ answered'[ip] = Zero
      /\ \A j \in Ips : j # ip => answered'[j] = answered[j]
    BY StateFacts, CountFacts
<1>2. CountersRemember'
    <2>1. ASSUME NEW j \in Ips
          PROVE  /\ answered'[j].total <= Failures(attempts', j).total
                 /\ answered'[j].unknown <= Failures(attempts', j).unknown
        <3>1. CASE j = ip
            <4>1. Failures(attempts', j) \in Count
                BY FailuresFacts
            <4> QED BY <1>1, <3>1, <4>1, CountFacts DEF Count
        <3>2. CASE j # ip
            BY <1>1, <3>2 DEF SecurityInv, CountersRemember
        <3> QED BY <3>1, <3>2
    <2> QED BY <2>1 DEF CountersRemember, Failures
<1>3. ASSUME NEW j \in Ips
      PROVE  answered'[j].total <= answered[j].total /\ answered'[j].unknown <= answered[j].unknown
    <2>1. answered[j] \in Count
        BY StateFacts
    <2> QED BY <1>1, <2>1, CountFacts DEF Count
<1> QED BY <1>1, <1>2, <1>3, QuietKeeps

LEMMA UnbanKeeps ==
    ASSUME SecurityInv, NEW ip \in Ips, Unban(ip)
    PROVE  SecurityInv' /\ \A j \in Ips : j # ip /\ j \in DOMAIN bans /\ bans[j] = "permanent" =>
                                j \in DOMAIN bans' /\ bans'[j] = "permanent"
<1> DEFINE a == Pruned(attempts)
           b == Without(bans, {ip})
<1>1. /\ attempts' = Without(a, {ip}) /\ bans' \in Expired(b)
      /\ answered' = [answered EXCEPT ![ip] = Zero]
      /\ UNCHANGED <<policy, revision, pending, calls, leaked, faults>>
    BY DEF Unban, AdminOnly
<1>2. AttemptsOK(a) /\ \A j \in Ips : Failures(a, j) = Failures(attempts, j)
    BY StateFacts, PrunedFacts
<1> HIDE DEF a
<1>3. /\ IsTable(a, Row) /\ RowsAreSane(a)
      /\ DOMAIN attempts' = DOMAIN a \ {ip} /\ \A j \in DOMAIN a \ {ip} : attempts'[j] = a[j]
      /\ IsTable(attempts', Row)
    BY <1>1, <1>2 DEF AttemptsOK, Without, IsTable
<1>4. AttemptsOK(attempts')
    BY <1>3 DEF AttemptsOK, RowsAreSane
<1>5. ASSUME NEW j \in Ips, j # ip PROVE Failures(attempts', j) = Failures(attempts, j)
    <2>1. Failures(attempts', j) = Failures(a, j)
        BY <1>3, <1>5 DEF Failures
    <2> QED BY <1>2, <2>1
<1>6. IsTable(b, BanKinds) /\ \A j \in DOMAIN bans : j # ip => j \in DOMAIN b /\ b[j] = bans[j]
    BY StateFacts DEF Without, IsTable
<1> HIDE DEF b
<1>7. IsTable(bans', BanKinds) /\ Keeps(b, bans')
    BY <1>1, <1>6, ExpiredFacts
<1>8. SecurityInv'
    BY <1>1, <1>4, <1>5, <1>7, ForgottenKeeps
<1> QED BY <1>6, <1>7, <1>8 DEF Keeps

LEMMA WindowEndsKeeps ==
    ASSUME SecurityInv, NEW ip \in Ips, WindowEnds(ip)
    PROVE  SecurityInv' /\ Keeps(bans, bans')
<1>1. /\ ip \in DOMAIN attempts /\ attempts' = [attempts EXCEPT ![ip].fresh = FALSE]
      /\ answered' = [answered EXCEPT ![ip] = Zero]
      /\ UNCHANGED <<bans, policy, revision, pending, calls, leaked, faults>>
    BY DEF WindowEnds
<1>2. IsTable(attempts, Row) /\ RowsAreSane(attempts) /\ IsTable(bans, BanKinds)
    BY StateFacts DEF AttemptsOK
<1>3. /\ DOMAIN attempts' = DOMAIN attempts /\ IsTable(attempts', Row)
      /\ \A j \in DOMAIN attempts : attempts'[j].failures = attempts[j].failures
      /\ \A j \in DOMAIN attempts : j # ip => attempts'[j] = attempts[j]
    BY <1>1, <1>2 DEF IsTable, Row
<1>4. AttemptsOK(attempts')
    BY <1>2, <1>3 DEF AttemptsOK, RowsAreSane
<1>5. ASSUME NEW j \in Ips, j # ip PROVE Failures(attempts', j) = Failures(attempts, j)
    BY <1>3, <1>5 DEF Failures
<1> QED BY <1>1, <1>2, <1>4, <1>5, ForgottenKeeps DEF Keeps

LEMMA SetPolicyKeeps ==
    ASSUME SecurityInv, NEW p \in Policies, SetPolicy(p)
    PROVE  SecurityInv' /\ Keeps(bans, bans')
<1>1. /\ revision < MaxRevision /\ policy' = p /\ revision' = revision + 1
      /\ attempts' = Without(attempts, Ips) /\ bans' \in Expired(bans)
      /\ answered' = [i \in Ips |-> Zero]
      /\ UNCHANGED <<pending, calls, leaked, faults>>
    BY DEF SetPolicy, AdminOnly
<1>2. IsTable(bans', BanKinds) /\ Keeps(bans, bans')
    BY <1>1, StateFacts, ExpiredFacts
<1>3. IsTable(attempts', Row) /\ DOMAIN attempts' = {}
    BY <1>1, StateFacts DEF AttemptsOK, IsTable, Without
<1>4. /\ revision \in Nat /\ revision' \in 0..MaxRevision /\ MaxRevision \in Nat
      /\ p.failures \in Nat \ {0} /\ p.unknown \in Nat \ {0}
    BY <1>1, StateFacts, SecurityAssumption DEF SecurityAssumption, Policy
<1>5. /\ answered' \in [Ips -> Count] /\ \A j \in Ips : answered'[j] = Zero
    BY <1>1, CountFacts
<1>6. ASSUME NEW d \in Calls, calls[d] # Idle PROVE calls[d].revision \in Nat /\ calls[d].revision < revision'
    <2>1. calls[d].revision \in Nat /\ calls[d].revision <= revision
        BY <1>6, StateFacts DEF Call, SecurityInv, CallsRemember
    <2> QED BY <1>1, <1>4, <2>1
<1>7. CallsRemember'
    BY <1>1, <1>4, <1>6 DEF CallsRemember
<1>8. RowsAreSane(attempts')
    BY <1>3 DEF RowsAreSane
<1>9. CountersRemember'
    <2>1. \A j \in Ips : Failures(attempts', j) = Zero
        BY <1>3 DEF Failures
    <2> QED BY <1>5, <2>1, CountFacts DEF CountersRemember, Failures
<1>10. ASSUME NEW j \in Ips PROVE Owned(j)' /\ Within(j)'
    <2>1. Owned(j)'
        BY <1>1, StateFacts DEF Owned, Running, OfUnknown
    <2>2. Current(j)' = {} /\ OfUnknown(Current(j))' = {}
        BY <1>1, <1>4, <1>6 DEF Current, Running, OfUnknown
    <2>3. Cardinality({}) = 0
        BY FS_EmptySet
    <2>4. Within(j)'
        <3>1. answered'[j].total = 0 /\ answered'[j].unknown = 0
            BY <1>5, CountFacts
        <3>2. Cardinality(Current(j)') = 0 /\ Cardinality(OfUnknown(Current(j))') = 0
            BY <2>2, <2>3
        <3>3. policy'.failures \in Nat /\ policy'.unknown \in Nat
            BY <1>1, <1>4
        <3> QED BY <3>1, <3>2, <3>3 DEF Within
    <2> QED BY <2>1, <2>4
<1>11. SecurityTypeOK'
    BY <1>1, <1>2, <1>3, <1>4, <1>5 DEF SecurityInv, SecurityTypeOK, BanKinds
<1> QED BY <1>2, <1>7, <1>8, <1>9, <1>10, <1>11, Assembled

LEMMA RestartKeeps ==
    ASSUME SecurityInv, Restart
    PROVE  SecurityInv' /\ Keeps(bans, bans')
<1>1. /\ pending' = [i \in Ips |-> Zero] /\ leaked' = [i \in Ips |-> Zero]
      /\ calls' = [d \in Calls |-> Idle]
      /\ UNCHANGED <<attempts, bans, policy, revision, answered, faults>>
    BY DEF Restart
<1>2. pending' \in [Ips -> Count] /\ leaked' \in [Ips -> Count] /\ calls' \in [Calls -> Call \cup {Idle}]
    BY <1>1, CountFacts
<1>3. SecurityTypeOK'
    BY <1>1, <1>2 DEF SecurityInv, SecurityTypeOK
<1>4. CallsRemember' /\ RowsAreSane(attempts')
    BY <1>1 DEF SecurityInv, CallsRemember
<1>5. CountersRemember'
    BY <1>1 DEF SecurityInv, CountersRemember, Failures
<1>6. ASSUME NEW j \in Ips PROVE Owned(j)' /\ Within(j)'
    <2>1. /\ Running(j)' = {} /\ OfUnknown(Running(j))' = {}
          /\ Current(j)' = {} /\ OfUnknown(Current(j))' = {}
        BY <1>1 DEF Current, Running, OfUnknown
    <2>2. Cardinality({}) = 0
        BY FS_EmptySet
    <2>3. Owned(j)'
        BY <1>1, <2>1, <2>2, CountFacts DEF Owned
    <2>4. /\ answered[j] \in Count /\ policy.failures \in Nat /\ policy.unknown \in Nat
          /\ answered[j].total + Cardinality(Current(j)) <= policy.failures
          /\ answered[j].unknown + Cardinality(OfUnknown(Current(j))) <= policy.unknown
          /\ Cardinality(Current(j)) \in Nat /\ Cardinality(OfUnknown(Current(j))) \in Nat
        BY StateFacts, RunningFacts, Sizes DEF Within
    <2>5. Within(j)'
        <3>1. Cardinality(Current(j)') = 0 /\ Cardinality(OfUnknown(Current(j))') = 0
            BY <2>1, <2>2
        <3>2. answered' = answered /\ policy' = policy
            BY <1>1
        <3>3. answered[j].total + 0 <= policy.failures /\ answered[j].unknown + 0 <= policy.unknown
            BY <2>4 DEF Count
        <3> QED BY <3>1, <3>2, <3>3 DEF Within
    <2> QED BY <2>3, <2>5
<1>7. Keeps(bans, bans')
    BY <1>1 DEF Keeps
<1> QED BY <1>3, <1>4, <1>5, <1>6, <1>7, Assembled

LEMMA InitHolds == Init => SecurityInv
<1> SUFFICES ASSUME Init PROVE SecurityInv
    OBVIOUS
<1>1. /\ attempts = Without([i \in Ips |-> 0], Ips) /\ bans = Without([i \in Ips |-> 0], Ips)
      /\ policy \in Policies /\ revision = 0 /\ faults = 0
      /\ pending = [i \in Ips |-> Zero] /\ leaked = [i \in Ips |-> Zero] /\ answered = [i \in Ips |-> Zero]
      /\ calls = [d \in Calls |-> Idle]
    BY DEF Init
<1>2. /\ DOMAIN attempts = {} /\ DOMAIN bans = {}
      /\ IsTable(attempts, Row) /\ IsTable(bans, {"temporary", "lapsed", "permanent"})
    BY <1>1 DEF IsTable, Without
<1>3. /\ pending \in [Ips -> Count] /\ leaked \in [Ips -> Count] /\ answered \in [Ips -> Count]
      /\ calls \in [Calls -> Call \cup {Idle}] /\ revision \in 0..MaxRevision /\ faults \in 0..MaxFaults
    BY <1>1, CountFacts, SecurityAssumption DEF SecurityAssumption
<1>4. SecurityTypeOK
    BY <1>1, <1>2, <1>3 DEF SecurityTypeOK
<1>5. RowsAreSane(attempts) /\ CallsRemember /\ CountersRemember
    BY <1>1, <1>2, CountFacts DEF RowsAreSane, CallsRemember, CountersRemember, Failures
<1>6. ASSUME NEW j \in Ips PROVE Owned(j) /\ Within(j)
    <2>1. Running(j) = {} /\ OfUnknown(Running(j)) = {} /\ Current(j) = {} /\ OfUnknown(Current(j)) = {}
        BY <1>1 DEF Current, Running, OfUnknown
    <2>2. Cardinality({}) = 0
        BY FS_EmptySet
    <2>3. policy.failures \in Nat \ {0} /\ policy.unknown \in Nat \ {0}
        BY <1>1, SecurityAssumption DEF SecurityAssumption, Policy
    <2> QED BY <1>1, <2>1, <2>2, <2>3, CountFacts DEF Owned, Within
<1>7. ReservationsAreOwned /\ GuessesWithinThreshold
    BY <1>3, <1>6, OwnedMeans DEF GuessesWithinThreshold, Within
<1> QED BY <1>4, <1>5, <1>7 DEF SecurityInv

-----------------------------------------------------------------------------
(* Theorems *)

LEMMA StepKeeps ==
    ASSUME SecurityInv, Next
    PROVE  /\ SecurityInv'
           /\ \A j \in Ips : j \in DOMAIN bans /\ bans[j] = "permanent" =>
                (j \in DOMAIN bans' /\ bans'[j] = "permanent") \/ Administrator(j)
<1> DEFINE Good == /\ SecurityInv'
                   /\ \A j \in Ips : j \in DOMAIN bans /\ bans[j] = "permanent" =>
                        (j \in DOMAIN bans' /\ bans'[j] = "permanent") \/ Administrator(j)
<1>k. ASSUME SecurityInv', Keeps(bans, bans') PROVE Good
    BY <1>k DEF Keeps
<1>1. ASSUME NEW c \in Calls, NEW ip \in Ips, NEW unknown \in BOOLEAN, Verify(c, ip, unknown) PROVE Good
    <2>1. Keeps(bans, bans')
        BY <1>1, BegunFacts DEF Verify
    <2> QED BY <1>1, <1>k, <2>1, VerifyKeeps
<1>2. ASSUME NEW c \in Calls, NEW ok \in BOOLEAN, Finish(c, ok) PROVE Good
    BY <1>2, <1>k, FinishKeeps
<1>3. ASSUME NEW c \in Calls, HashFails(c) \/ BeginFails(c) PROVE Good
    <2>1. Keeps(bans, bans')
        BY <1>3 DEF HashFails, BeginFails, Keeps
    <2> QED BY <1>3, <1>k, <2>1, HashFailsKeeps, BeginFailsKeeps
<1>4. ASSUME NEW ip \in Ips, NEW unknown \in BOOLEAN, NEW ok \in BOOLEAN, AtOnce(ip, unknown, ok) PROVE Good
    BY <1>4, <1>k, AtOnceKeeps
<1>5. ASSUME NEW ip \in Ips, SecurityCheck(ip) \/ WindowEnds(ip) \/ BanLapses(ip) PROVE Good
    BY <1>5, <1>k, SecurityCheckKeeps, WindowEndsKeeps, BanLapsesKeeps
<1>6. ASSUME NEW ip \in Ips, Administrator(ip) PROVE Good
    <2>1. CASE Unban(ip)
        BY <1>6, <2>1, UnbanKeeps
    <2>2. ASSUME NEW kind \in {"temporary", "permanent"}, Ban(ip, kind) PROVE Good
        BY <1>6, <2>2, BanKeeps
    <2> QED BY <1>6, <2>1, <2>2 DEF Administrator
<1>7. CASE SecurityView
    BY <1>7, <1>k, SecurityViewKeeps
<1>8. ASSUME NEW p \in Policies, SetPolicy(p) PROVE Good
    BY <1>8, <1>k, SetPolicyKeeps
<1>9. CASE Restart
    BY <1>9, <1>k, RestartKeeps
<1> QED BY <1>1, <1>2, <1>3, <1>4, <1>5, <1>6, <1>7, <1>8, <1>9 DEF Next

LEMMA StutterKeeps ==
    ASSUME SecurityInv, UNCHANGED vars
    PROVE  SecurityInv'
<1>1. AttemptsOK(attempts') /\ IsTable(bans', BanKinds) /\ answered' \in [Ips -> Count]
    BY StateFacts DEF vars
<1>2. CountersRemember'
    BY DEF vars, SecurityInv, CountersRemember, Failures
<1>3. \A j \in Ips : answered'[j].total <= answered[j].total /\ answered'[j].unknown <= answered[j].unknown
    BY StateFacts DEF vars, Count
<1> QED BY <1>1, <1>2, <1>3, QuietKeeps DEF vars

LEMMA SecurityInvariant == Spec => []SecurityInv
<1>1. SecurityInv /\ [Next]_vars => SecurityInv'
    BY StepKeeps, StutterKeeps
<1> QED BY <1>1, InitHolds, PTL DEF Spec

(* The tables, reservations and calls of login protection keep their types,
   under any number of verifications that hash at once.                      *)
THEOREM SecurityTypes == Spec => []SecurityTypeOK
BY SecurityInvariant, PTL DEF SecurityInv

(* begin_auth and release_auth match: what is reserved belongs to a running
   verification, or to one whose last transaction could not begin.           *)
THEOREM ReservationsMatch == Spec => []ReservationsAreOwned
BY SecurityInvariant, PTL DEF SecurityInv

(* No address gets more wrong guesses answered in one window than the policy
   allows, whatever the number of verifications that run at once.            *)
THEOREM GuessesAreBounded == Spec => []GuessesWithinThreshold
BY SecurityInvariant, PTL DEF SecurityInv

(* Only an administrator lifts or replaces a permanent ban. *)
THEOREM PermanentBansHold == Spec => PermanentBansStay
<1>1. SecurityInv /\ [Next]_vars =>
        [\A ip \in Ips : (ip \in DOMAIN bans /\ bans[ip] = "permanent") =>
            (ip \in DOMAIN bans' /\ bans'[ip] = "permanent") \/ Administrator(ip)]_vars
    BY StepKeeps
<1> QED BY <1>1, SecurityInvariant, PTL DEF Spec, PermanentBansStay
=============================================================================
