-------------------------- MODULE CredentialProofs --------------------------
(***************************************************************************)
(* What hashing outside the mutex cannot break, for any number of accounts *)
(* and concurrent calls.  A salt is never drawn twice: who holds the salt  *)
(* of a row holds its password and its registration.                       *)
(***************************************************************************)
EXTENDS Credentials, FiniteSetTheorems, TLAPS

-----------------------------------------------------------------------------
(* Tables *)

LEMMA PutTable ==
    ASSUME NEW ids, NEW rows, NEW f, IsTable(f, ids, rows), NEW i \in ids, NEW row \in rows
    PROVE  IsTable(Put(f, i, row), ids, rows)
BY DEF IsTable, Put

LEMMA WithoutTable ==
    ASSUME NEW ids, NEW rows, NEW f, IsTable(f, ids, rows), NEW gone
    PROVE  IsTable(Without(f, gone), ids, rows)
BY DEF IsTable, Without

LEMMA UpdateTable ==
    ASSUME NEW ids, NEW rows, NEW f, IsTable(f, ids, rows), NEW i \in DOMAIN f, NEW row \in rows
    PROVE  IsTable([f EXCEPT ![i] = row], ids, rows)
BY DEF IsTable

(* Pruning leaves some of the rows as they are. *)
LEMMA PruningsKeep ==
    ASSUME NEW rows, NEW active, NEW left \in Prunings(rows, active)
    PROVE  \E gone : left = Without(rows, gone)
BY DEF Prunings

LEMMA DrawnIsCounted ==
    ASSUME CredentialsTypeOK, Drawable
    PROVE  salts + 1 \in Salt
<1>1. IsFiniteSet(Keys \cup Invitations) BY CredentialAssumption, FS_Union
<1>2. IsFiniteSet(drawn) BY <1>1, FS_Subset DEF CredentialsTypeOK
<1>3. Cardinality(drawn) \in Nat BY <1>2, FS_CardinalityType
<1> QED BY <1>3, CredentialAssumption DEF CredentialsTypeOK, Drawable, Salt

(* The kinds of task are told apart by their step. *)
LEMMA VerificationByStep ==
    ASSUME CredentialsTypeOK, NEW t \in Tasks, tasks[t].step \in {"verify", "rehash", "answered"}
    PROVE  tasks[t] \in Verification
BY DEF CredentialsTypeOK, Idle, Verification, Write, Redemption

LEMMA WriteByStep ==
    ASSUME CredentialsTypeOK, NEW t \in Tasks, tasks[t].step \in {"create", "change"}
    PROVE  tasks[t] \in Write
BY DEF CredentialsTypeOK, Idle, Verification, Write, Redemption

LEMMA RedemptionByStep ==
    ASSUME CredentialsTypeOK, NEW t \in Tasks, tasks[t].step = "redeem"
    PROVE  tasks[t] \in Redemption
BY DEF CredentialsTypeOK, Idle, Verification, Write, Redemption

LEMMA RowIsUser ==
    ASSUME CredentialsTypeOK, Drawable, NEW p \in Passwords, NEW admin \in BOOLEAN
    PROVE  Row(p, admin) \in User
<1>1. salts + 1 \in Salt BY DrawnIsCounted
<1> QED BY <1>1 DEF Row, User

-----------------------------------------------------------------------------
(* Types *)

TypedTask(task) == task \in {Idle} \cup Verification \cup Write \cup Redemption

LEMMA TaskTyped ==
    ASSUME CredentialsTypeOK, NEW t \in Tasks, NEW task, TypedTask(task), tasks' = [tasks EXCEPT ![t] = task]
    PROVE  tasks' \in [Tasks -> {Idle} \cup Verification \cup Write \cup Redemption]
BY DEF CredentialsTypeOK, TypedTask

LEMMA EndsTyped ==
    ASSUME CredentialsTypeOK, NEW t \in Tasks, Ends(t)
    PROVE  tasks' \in [Tasks -> {Idle} \cup Verification \cup Write \cup Redemption]
<1>1. TypedTask(Idle) BY DEF TypedTask
<1> QED BY <1>1, TaskTyped DEF Ends

LEMMA VerificationsTyped ==
    ASSUME CredentialsTypeOK, NEW t \in Tasks
    PROVE  /\ (\E a \in Accounts : BeginVerify(t, a)) => CredentialsTypeOK'
           /\ Verified(t) => CredentialsTypeOK'
           /\ TaskEnds(t) => CredentialsTypeOK'
           /\ (\E s \in Sessions : SignIn(t, s)) => CredentialsTypeOK'
<1>1. ASSUME NEW a \in Accounts, BeginVerify(t, a) PROVE CredentialsTypeOK'
    <2> DEFINE proof == [account |-> a, salt |-> users[a].salt, admin |-> users[a].admin,
                         password |-> users[a].password, by |-> registered[a]]
               task == [step |-> "verify", weak |-> users[a].weak, proof |-> proof]
    <2>1. users[a] \in User BY <1>1 DEF CredentialsTypeOK, IsTable, BeginVerify, Exists
    <2>2. proof \in Proof BY <2>1 DEF CredentialsTypeOK, User, Proof
    <2>3. task \in Verification BY <2>1, <2>2 DEF User, Verification
    <2>4. tasks' = [tasks EXCEPT ![t] = task] BY <1>1 DEF BeginVerify
    <2> HIDE DEF task
    <2>5. tasks' \in [Tasks -> {Idle} \cup Verification \cup Write \cup Redemption]
        BY <2>3, <2>4, TaskTyped DEF TypedTask
    <2> QED BY <1>1, <2>5 DEF BeginVerify, CredentialsTypeOK, tables
<1>2. ASSUME Verified(t) PROVE CredentialsTypeOK'
    <2> DEFINE task == [tasks[t] EXCEPT !.step = IF tasks[t].weak THEN "rehash" ELSE "answered"]
    <2>1. tasks[t] \in Verification BY <1>2, VerificationByStep DEF Verified
    <2>2. task \in Verification BY <2>1 DEF Verification
    <2>3. tasks' = [tasks EXCEPT ![t] = task] BY <1>2 DEF Verified
    <2> HIDE DEF task
    <2>4. tasks' \in [Tasks -> {Idle} \cup Verification \cup Write \cup Redemption]
        BY <2>2, <2>3, TaskTyped DEF TypedTask
    <2> QED BY <1>2, <2>4 DEF Verified, CredentialsTypeOK, tables
<1>3. ASSUME TaskEnds(t) PROVE CredentialsTypeOK'
    <2>1. tasks' \in [Tasks -> {Idle} \cup Verification \cup Write \cup Redemption]
        BY <1>3, EndsTyped DEF TaskEnds
    <2> QED BY <1>3, <2>1 DEF TaskEnds, CredentialsTypeOK, tables
<1>4. ASSUME NEW s \in Sessions, SignIn(t, s) PROVE CredentialsTypeOK'
    <2>1. tasks' \in [Tasks -> {Idle} \cup Verification \cup Write \cup Redemption]
        BY <1>4, EndsTyped DEF SignIn
    <2>2. tasks[t].proof \in Session BY <1>4, VerificationByStep DEF SignIn, Verification, Session
    <2>3. sessions' \in [Sessions -> Session \cup {SignedOut}]
        BY <1>4, <2>2 DEF SignIn, CredentialsTypeOK
    <2> QED BY <1>4, <2>1, <2>3 DEF SignIn, CredentialsTypeOK, tables
<1> QED BY <1>1, <1>2, <1>3, <1>4

LEMMA RehashTyped ==
    ASSUME CredentialsTypeOK, NEW t \in Tasks, Rehash(t)
    PROVE  CredentialsTypeOK'
<1> DEFINE proof == tasks[t].proof
           row == [users[proof.account] EXCEPT !.salt = salts + 1, !.password = proof.password, !.weak = FALSE]
           task == [tasks[t] EXCEPT !.step = "answered", !.proof = Answer(proof)]
<1>1. tasks[t] \in Verification BY VerificationByStep DEF Rehash
<1>2. proof \in Proof BY <1>1 DEF Verification
<1>3. salts + 1 \in Salt BY DrawnIsCounted DEF Rehash
<1>4. Answer(proof) \in Proof BY <1>2, <1>3 DEF Answer, Proof
<1>5. task \in Verification BY <1>1, <1>4 DEF Verification
<1>6. tasks' = [tasks EXCEPT ![t] = task] BY DEF Rehash
<1>7. IsTable(users', Accounts, User)
    <2>1. CASE Unchanged(proof)
        <3>1. proof.account \in DOMAIN users BY <2>1 DEF Unchanged, Exists
        <3>2. users[proof.account] \in User BY <3>1 DEF CredentialsTypeOK, IsTable
        <3>3. row \in User BY <1>2, <1>3, <3>2 DEF User, Proof
        <3>4. users' = [users EXCEPT ![proof.account] = row] BY <2>1, <3>1 DEF Rehash
        <3> HIDE DEF row, proof
        <3> QED BY <3>1, <3>3, <3>4, UpdateTable DEF CredentialsTypeOK
    <2>2. CASE ~Unchanged(proof) BY <2>2 DEF Rehash, CredentialsTypeOK
    <2> QED BY <2>1, <2>2
<1> HIDE DEF task
<1>8. tasks' \in [Tasks -> {Idle} \cup Verification \cup Write \cup Redemption]
    BY <1>5, <1>6, TaskTyped DEF TypedTask
<1>9. salts' \in 0..MaxDraws BY <1>3 DEF Rehash, Salt
<1> QED BY <1>7, <1>8, <1>9 DEF Rehash, Grants, CredentialsTypeOK

LEMMA SessionsTyped ==
    ASSUME CredentialsTypeOK, NEW s \in Sessions, SignOut(s)
    PROVE  CredentialsTypeOK'
BY DEF SignOut, CredentialsTypeOK, tables

LEMMA RegisterTyped ==
    ASSUME CredentialsTypeOK, NEW a \in Accounts, NEW p \in Passwords, NEW admin \in BOOLEAN,
           Register(a, p, admin)
    PROVE  /\ IsTable(users', Accounts, User)
           /\ salts' \in 0..MaxDraws
           /\ registered' \in [Accounts -> Nat]
           /\ lastSet' \in [Accounts -> Passwords \cup {"none"}]
<1>1. Row(p, admin) \in User BY RowIsUser DEF Register
<1>2. IsTable(users', Accounts, User) BY <1>1, PutTable DEF Register, CredentialsTypeOK
<1>3. salts' \in 0..MaxDraws BY DrawnIsCounted DEF Register, Salt
<1> QED BY <1>2, <1>3 DEF Register, CredentialsTypeOK

LEMMA WritesTyped ==
    ASSUME CredentialsTypeOK, NEW t \in Tasks
    PROVE  /\ (\E step \in {"create", "change"}, a \in Accounts, p \in Passwords, admin \in BOOLEAN :
                    BeginWrite(t, step, a, p, admin)) => CredentialsTypeOK'
           /\ Create(t) => CredentialsTypeOK'
           /\ ChangePassword(t) => CredentialsTypeOK'
<1>1. ASSUME NEW step \in {"create", "change"}, NEW a \in Accounts, NEW p \in Passwords, NEW admin \in BOOLEAN,
             BeginWrite(t, step, a, p, admin)
      PROVE  CredentialsTypeOK'
    <2> DEFINE task == [step |-> step, account |-> a, password |-> p, admin |-> admin]
    <2>1. task \in Write BY DEF Write
    <2>2. tasks' = [tasks EXCEPT ![t] = task] BY <1>1 DEF BeginWrite
    <2> HIDE DEF task
    <2>3. tasks' \in [Tasks -> {Idle} \cup Verification \cup Write \cup Redemption]
        BY <2>1, <2>2, TaskTyped DEF TypedTask
    <2> QED BY <1>1, <2>3 DEF BeginWrite, CredentialsTypeOK, tables
<1>2. ASSUME Create(t) PROVE CredentialsTypeOK'
    <2>1. tasks[t] \in Write BY <1>2, WriteByStep DEF Create
    <2>2. /\ tasks[t].account \in Accounts /\ tasks[t].password \in Passwords /\ tasks[t].admin \in BOOLEAN
        BY <2>1 DEF Write
    <2>3. tasks' \in [Tasks -> {Idle} \cup Verification \cup Write \cup Redemption]
        BY <1>2, EndsTyped DEF Create
    <2>4. Register(tasks[t].account, tasks[t].password, tasks[t].admin) BY <1>2 DEF Create
    <2>5. /\ IsTable(users', Accounts, User) /\ salts' \in 0..MaxDraws
          /\ registered' \in [Accounts -> Nat] /\ lastSet' \in [Accounts -> Passwords \cup {"none"}]
        BY <2>2, <2>4, RegisterTyped
    <2> QED BY <1>2, <2>3, <2>5 DEF Create, Grants, CredentialsTypeOK
<1>3. ASSUME ChangePassword(t) PROVE CredentialsTypeOK'
    <2> DEFINE a == tasks[t].account
               p == tasks[t].password
               row == Row(p, users[a].admin)
    <2>1. tasks[t] \in Write BY <1>3, WriteByStep DEF ChangePassword
    <2>2. a \in Accounts /\ p \in Passwords BY <2>1 DEF Write
    <2>3. a \in DOMAIN users BY <1>3 DEF ChangePassword, Exists
    <2>4. users[a] \in User BY <2>3 DEF CredentialsTypeOK, IsTable
    <2>5. users[a].admin \in BOOLEAN BY <2>4 DEF User
    <2>6. row \in User BY <1>3, <2>2, <2>5, RowIsUser DEF ChangePassword
    <2>7. users' = [users EXCEPT ![a] = row] BY <1>3 DEF ChangePassword
    <2>8. tasks' \in [Tasks -> {Idle} \cup Verification \cup Write \cup Redemption]
        BY <1>3, EndsTyped DEF ChangePassword
    <2>9. salts' \in 0..MaxDraws BY <1>3, DrawnIsCounted DEF ChangePassword, Salt
    <2>10. lastSet' \in [Accounts -> Passwords \cup {"none"}]
        BY <1>3, <2>2 DEF ChangePassword, CredentialsTypeOK
    <2> HIDE DEF row, a, p
    <2>11. IsTable(users', Accounts, User) BY <2>3, <2>6, <2>7, UpdateTable DEF CredentialsTypeOK
    <2> QED BY <1>3, <2>8, <2>9, <2>10, <2>11 DEF ChangePassword, Grants, CredentialsTypeOK
<1> QED BY <1>1, <1>2, <1>3

LEMMA AdministrationTyped ==
    ASSUME CredentialsTypeOK
    PROVE  /\ (\E p \in Policies : SetPolicy(p)) => CredentialsTypeOK'
           /\ RaiseIterations => CredentialsTypeOK'
           /\ (\E actor, a \in Accounts : DeleteUser(actor, a)) => CredentialsTypeOK'
           /\ (\E actor, a \in Accounts : FinishDeletion(actor, a)) => CredentialsTypeOK'
<1>1. ASSUME NEW p \in Policies, SetPolicy(p) PROVE CredentialsTypeOK'
    BY <1>1 DEF SetPolicy, CredentialsTypeOK
<1>2. ASSUME RaiseIterations PROVE CredentialsTypeOK'
    <2>1. IsTable(users', Accounts, User)
        <3>1. \A a \in DOMAIN users : users[a] \in User BY DEF CredentialsTypeOK, IsTable
        <3>2. \A a \in DOMAIN users : [users[a] EXCEPT !.weak = TRUE] \in User BY <3>1 DEF User
        <3> QED BY <1>2, <3>2 DEF RaiseIterations, CredentialsTypeOK, IsTable
    <2>2. tasks' \in [Tasks -> {Idle} \cup Verification \cup Write \cup Redemption]
        BY <1>2 DEF RaiseIterations, CredentialsTypeOK
    <2> QED BY <1>2, <2>1, <2>2 DEF RaiseIterations, CredentialsTypeOK
<1>3. ASSUME NEW actor \in Accounts, NEW a \in Accounts, DeleteUser(actor, a) PROVE CredentialsTypeOK'
    <2>1. IsTable(users', Accounts, User) BY <1>3, WithoutTable DEF DeleteUser, CredentialsTypeOK
    <2>2. IsTable(keys', Keys, Key) /\ IsTable(invitations', Invitations, Invitation)
        BY <1>3, WithoutTable DEF DeleteUser, Disowned, CredentialsTypeOK
    <2> QED BY <1>3, <2>1, <2>2 DEF DeleteUser, CredentialsTypeOK
<1>4. ASSUME NEW actor \in Accounts, NEW a \in Accounts, FinishDeletion(actor, a) PROVE CredentialsTypeOK'
    BY <1>4 DEF FinishDeletion, CredentialsTypeOK
<1> QED BY <1>1, <1>2, <1>3, <1>4

LEMMA KeysTyped ==
    ASSUME CredentialsTypeOK, NEW k \in Keys
    PROVE  /\ (\E a \in Accounts, audience \in {"admin", "mailbox"} : CreateKey(k, a, audience)) => CredentialsTypeOK'
           /\ EndKey(k) => CredentialsTypeOK'
<1>1. ASSUME NEW a \in Accounts, NEW audience \in {"admin", "mailbox"}, CreateKey(k, a, audience)
      PROVE  CredentialsTypeOK'
    <2> DEFINE row == [owner |-> a, audience |-> audience, live |-> TRUE, by |-> registered[a]]
    <2>1. row \in Key BY DEF CredentialsTypeOK, Key
    <2>2. PICK left \in Prunings(keys, ActiveKeys) : keys' = Put(left, k, row) BY <1>1 DEF CreateKey
    <2>3. PICK gone : left = Without(keys, gone) BY PruningsKeep
    <2> HIDE DEF row
    <2>4. IsTable(left, Keys, Key) BY <2>3, WithoutTable DEF CredentialsTypeOK
    <2>5. IsTable(keys', Keys, Key) BY <2>1, <2>2, <2>4, PutTable
    <2> QED BY <1>1, <2>5 DEF CreateKey, CredentialsTypeOK
<1>2. ASSUME EndKey(k) PROVE CredentialsTypeOK'
    <2> DEFINE row == [keys[k] EXCEPT !.live = FALSE]
    <2>1. keys[k] \in Key BY <1>2 DEF EndKey, CredentialsTypeOK, IsTable
    <2>2. row \in Key BY <2>1 DEF Key
    <2>3. keys' = [keys EXCEPT ![k] = row] BY <1>2 DEF EndKey
    <2>4. k \in DOMAIN keys /\ IsTable(keys, Keys, Key) BY <1>2 DEF EndKey, CredentialsTypeOK
    <2> HIDE DEF row
    <2>5. IsTable([keys EXCEPT ![k] = row], Keys, Key) BY <2>2, <2>4, UpdateTable
    <2>6. IsTable(keys', Keys, Key) BY <2>3, <2>5
    <2> QED BY <1>2, <2>6 DEF EndKey, CredentialsTypeOK
<1> QED BY <1>1, <1>2

LEMMA InvitationsTyped ==
    ASSUME CredentialsTypeOK, NEW i \in Invitations
    PROVE  /\ (\E owner \in Accounts, fixed \in Accounts \cup {"none"}, max \in Uses : Invite(i, owner, fixed, max))
                => CredentialsTypeOK'
           /\ EndInvitation(i) => CredentialsTypeOK'
           /\ (\E t \in Tasks, a \in Accounts, p \in Passwords : BeginRedeem(t, i, a, p)) => CredentialsTypeOK'
<1>1. ASSUME NEW owner \in Accounts, NEW fixed \in Accounts \cup {"none"}, NEW max \in Uses,
             Invite(i, owner, fixed, max)
      PROVE  CredentialsTypeOK'
    <2> DEFINE row == [owner |-> owner, fixed |-> fixed, max |-> max, uses |-> 0,
                       live |-> TRUE, by |-> registered[owner]]
    <2>1. row \in Invitation BY DEF CredentialsTypeOK, Invitation
    <2>2. PICK left \in Prunings(invitations, ActiveInvitations) : invitations' = Put(left, i, row)
        BY <1>1 DEF Invite
    <2>3. PICK gone : left = Without(invitations, gone) BY PruningsKeep
    <2> HIDE DEF row
    <2>4. IsTable(left, Invitations, Invitation) BY <2>3, WithoutTable DEF CredentialsTypeOK
    <2>5. IsTable(invitations', Invitations, Invitation) BY <2>1, <2>2, <2>4, PutTable
    <2> QED BY <1>1, <2>5 DEF Invite, CredentialsTypeOK
<1>2. ASSUME EndInvitation(i) PROVE CredentialsTypeOK'
    <2> DEFINE row == [invitations[i] EXCEPT !.live = FALSE]
    <2>1. invitations[i] \in Invitation BY <1>2 DEF EndInvitation, CredentialsTypeOK, IsTable
    <2>2. row \in Invitation BY <2>1 DEF Invitation
    <2>3. invitations' = [invitations EXCEPT ![i] = row] BY <1>2 DEF EndInvitation
    <2>4. i \in DOMAIN invitations /\ IsTable(invitations, Invitations, Invitation)
        BY <1>2 DEF EndInvitation, CredentialsTypeOK
    <2> HIDE DEF row
    <2>5. IsTable([invitations EXCEPT ![i] = row], Invitations, Invitation) BY <2>2, <2>4, UpdateTable
    <2>6. IsTable(invitations', Invitations, Invitation) BY <2>3, <2>5
    <2> QED BY <1>2, <2>6 DEF EndInvitation, CredentialsTypeOK
<1>3. ASSUME NEW t \in Tasks, NEW a \in Accounts, NEW p \in Passwords, BeginRedeem(t, i, a, p)
      PROVE  CredentialsTypeOK'
    <2> DEFINE task == [step |-> "redeem", account |-> a, password |-> p, invitation |-> i]
    <2>1. task \in Redemption BY DEF Redemption
    <2>2. tasks' = [tasks EXCEPT ![t] = task] BY <1>3 DEF BeginRedeem
    <2> HIDE DEF task
    <2>3. tasks' \in [Tasks -> {Idle} \cup Verification \cup Write \cup Redemption]
        BY <2>1, <2>2, TaskTyped DEF TypedTask
    <2> QED BY <1>3, <2>3 DEF BeginRedeem, CredentialsTypeOK, tables
<1> QED BY <1>1, <1>2, <1>3

LEMMA RedeemTyped ==
    ASSUME CredentialsTypeOK, NEW t \in Tasks, Redeem(t)
    PROVE  CredentialsTypeOK'
<1> DEFINE i == tasks[t].invitation
           a == tasks[t].account
           p == tasks[t].password
           row == [invitations[i] EXCEPT !.uses = @ + 1]
<1>1. tasks[t] \in Redemption BY RedemptionByStep DEF Redeem
<1>2. i \in Invitations /\ a \in Accounts /\ p \in Passwords BY <1>1 DEF Redemption
<1>3. i \in DOMAIN invitations BY DEF Redeem, StillActive, Active
<1>4. row \in Invitation BY <1>3 DEF CredentialsTypeOK, IsTable, Invitation
<1>5. invitations' = [invitations EXCEPT ![i] = row] BY DEF Redeem, Consumed
<1>6. Register(a, p, FALSE) BY DEF Redeem
<1>7. tasks' \in [Tasks -> {Idle} \cup Verification \cup Write \cup Redemption] BY EndsTyped DEF Redeem
<1>8. joined' \in [Invitations -> Nat] BY <1>2 DEF Redeem, CredentialsTypeOK
<1> HIDE DEF row, i, a, p
<1>9. IsTable(invitations', Invitations, Invitation) BY <1>3, <1>4, <1>5, UpdateTable DEF CredentialsTypeOK
<1>10. /\ IsTable(users', Accounts, User) /\ salts' \in 0..MaxDraws
       /\ registered' \in [Accounts -> Nat] /\ lastSet' \in [Accounts -> Passwords \cup {"none"}]
    BY <1>2, <1>6, RegisterTyped
<1> QED BY <1>7, <1>8, <1>9, <1>10 DEF Redeem, CredentialsTypeOK

LEMMA TypesHold == ASSUME CredentialsTypeOK, [Next]_vars PROVE CredentialsTypeOK'
<1>1. CASE UNCHANGED vars BY <1>1 DEF vars, tables, CredentialsTypeOK
<1>2. CASE Next
    BY <1>2, VerificationsTyped, RehashTyped, SessionsTyped, WritesTyped, AdministrationTyped, KeysTyped,
       InvitationsTyped, RedeemTyped, Zenon DEF Next
<1> QED BY <1>1, <1>2

LEMMA TypesInit == Init => CredentialsTypeOK
<1> SUFFICES ASSUME Init PROVE CredentialsTypeOK OBVIOUS
<1>1. \A ids, rows : IsTable(Empty(ids), ids, rows) BY DEF Empty, Without, IsTable
<1>2. /\ IsTable(users, Accounts, User) /\ IsTable(keys, Keys, Key)
      /\ IsTable(invitations, Invitations, Invitation)
    BY <1>1 DEF Init
<1> QED BY <1>2, CredentialAssumption DEF Init, CredentialsTypeOK

(* Tables, calls and sessions keep their types, and no more is drawn than the
   bound allows, whatever the accounts and calls (auth.cpp).                 *)
THEOREM CredentialTypes == Spec => []CredentialsTypeOK
BY TypesInit, TypesHold, PTL DEF Spec

-----------------------------------------------------------------------------
(* Passwords and sessions *)

(* What was verified is current if its salt is still the row's. *)
Agrees(p) ==
    /\ p.salt <= salts
    /\ Exists(p.account) /\ users[p.account].salt = p.salt =>
        p.password = lastSet[p.account] /\ p.by = registered[p.account]

Held(p) ==
    \/ \E t \in Tasks : tasks[t].step \in {"verify", "rehash", "answered"} /\ tasks[t].proof = p
    \/ \E s \in Sessions : sessions[s] # SignedOut /\ sessions[s] = p

RowsAreCurrent == \A a \in DOMAIN users : users[a].salt <= salts /\ users[a].password = lastSet[a]
ProofsAgree == \A p \in Proof : Held(p) => Agrees(p)
CurrentInv == RowsAreCurrent /\ ProofsAgree

(* A step keeps the invariant if rows stay current, agreement is not lost and
   what is newly held agrees.                                                *)
KeepsAgreement == \A p \in Proof : Agrees(p) => Agrees(p)'
HoldsNoMore == \A p \in Proof : Held(p)' => Held(p)

LEMMA Combine ==
    ASSUME CurrentInv, RowsAreCurrent', KeepsAgreement, \A p \in Proof : Held(p)' => Held(p) \/ Agrees(p)'
    PROVE  CurrentInv'
BY DEF CurrentInv, ProofsAgree, KeepsAgreement

LEMMA HeldInit == Init => CurrentInv
BY DEF Init, CurrentInv, RowsAreCurrent, ProofsAgree, Held, Idle, Empty, Without

(* Accounts are left alone. *)
LEMMA NothingWritten ==
    ASSUME CurrentInv, UNCHANGED <<users, salts, lastSet, registered>>
    PROVE  RowsAreCurrent' /\ KeepsAgreement
BY DEF CurrentInv, RowsAreCurrent, KeepsAgreement, Agrees, Exists

(* A row is written with a salt nobody holds. *)
LEMMA RowWritten ==
    ASSUME CredentialsTypeOK, CurrentInv, NEW a \in Accounts, NEW row \in User,
           row.salt = salts + 1, salts' = salts + 1, users' = Put(users, a, row), row.password = lastSet'[a],
           \A b \in Accounts \ {a} : lastSet'[b] = lastSet[b] /\ registered'[b] = registered[b]
    PROVE  RowsAreCurrent' /\ KeepsAgreement
<1>1. salts \in Nat BY CredentialAssumption DEF CredentialsTypeOK
<1>2. \A b \in DOMAIN users : b \in Accounts /\ users[b].salt \in Nat
    <2>1. \A b \in DOMAIN users : b \in Accounts /\ users[b] \in User BY DEF CredentialsTypeOK, IsTable
    <2> QED BY <2>1 DEF User, Salt
<1>3. DOMAIN users' = DOMAIN users \cup {a} /\ \A b \in DOMAIN users' : users'[b] = IF b = a THEN row ELSE users[b]
    BY DEF Put
<1>4. RowsAreCurrent' BY <1>1, <1>2, <1>3 DEF CurrentInv, RowsAreCurrent
<1>5. ASSUME NEW p \in Proof, Agrees(p) PROVE Agrees(p)'
    <2>1. p.account \in Accounts /\ p.salt \in Nat BY DEF Proof, Salt
    <2>2. p.salt <= salts BY <1>5 DEF Agrees
    <2>3. CASE p.account = a BY <1>1, <1>3, <2>1, <2>2, <2>3 DEF Agrees
    <2>4. CASE p.account # a BY <1>1, <1>3, <1>5, <2>1, <2>2, <2>4 DEF Agrees, Exists
    <2> QED BY <2>3, <2>4
<1> QED BY <1>4, <1>5 DEF KeepsAgreement

LEMMA EndsHoldsNoMore ==
    ASSUME CredentialsTypeOK, NEW t \in Tasks, Ends(t), UNCHANGED sessions
    PROVE  HoldsNoMore
<1>1. DOMAIN tasks = Tasks BY DEF CredentialsTypeOK
<1> QED BY <1>1 DEF Ends, HoldsNoMore, Held, Idle

LEMMA SameHoldsNoMore == ASSUME UNCHANGED <<tasks, sessions>> PROVE HoldsNoMore
BY DEF HoldsNoMore, Held

LEMMA CombineNoMore ==
    ASSUME CurrentInv, RowsAreCurrent' /\ KeepsAgreement, HoldsNoMore
    PROVE  CurrentInv'
BY Combine DEF HoldsNoMore

LEMMA VerificationsCurrent ==
    ASSUME CredentialsTypeOK, CurrentInv, NEW t \in Tasks
    PROVE  /\ (\E a \in Accounts : BeginVerify(t, a)) => CurrentInv'
           /\ Verified(t) => CurrentInv'
           /\ TaskEnds(t) => CurrentInv'
           /\ (\E s \in Sessions : SignIn(t, s)) => CurrentInv'
<1>0. DOMAIN tasks = Tasks /\ DOMAIN sessions = Sessions BY DEF CredentialsTypeOK
<1>1. ASSUME NEW a \in Accounts, BeginVerify(t, a) PROVE CurrentInv'
    <2> DEFINE proof == [account |-> a, salt |-> users[a].salt, admin |-> users[a].admin,
                         password |-> users[a].password, by |-> registered[a]]
    <2>1. RowsAreCurrent' /\ KeepsAgreement BY <1>1, NothingWritten DEF BeginVerify, tables
    <2>2. \A p \in Proof : p = proof => Agrees(p)'
        BY <1>1, <2>1 DEF BeginVerify, Exists, RowsAreCurrent, Agrees, tables
    <2>3. tasks'[t].proof = proof /\ (\A u \in Tasks \ {t} : tasks'[u] = tasks[u]) /\ sessions' = sessions
        BY <1>0, <1>1 DEF BeginVerify
    <2> HIDE DEF proof
    <2>4. \A p \in Proof : Held(p)' => Held(p) \/ p = proof BY <2>3 DEF Held
    <2>5. \A p \in Proof : Held(p)' => Held(p) \/ Agrees(p)' BY <2>2, <2>4
    <2> QED BY <2>1, <2>5, Combine
<1>2. ASSUME Verified(t) PROVE CurrentInv'
    <2>1. RowsAreCurrent' /\ KeepsAgreement BY <1>2, NothingWritten DEF Verified, tables
    <2>2. tasks[t] \in Verification BY <1>2, VerificationByStep DEF Verified
    <2>3. tasks'[t].proof = tasks[t].proof /\ (\A u \in Tasks \ {t} : tasks'[u] = tasks[u]) /\ sessions' = sessions
        BY <1>0, <1>2, <2>2 DEF Verified, Verification
    <2>4. HoldsNoMore BY <1>2, <2>3 DEF Verified, HoldsNoMore, Held
    <2> QED BY <2>1, <2>4, CombineNoMore
<1>3. ASSUME TaskEnds(t) PROVE CurrentInv'
    BY <1>3, NothingWritten, EndsHoldsNoMore, CombineNoMore DEF TaskEnds, tables
<1>4. ASSUME NEW s \in Sessions, SignIn(t, s) PROVE CurrentInv'
    <2>1. RowsAreCurrent' /\ KeepsAgreement BY <1>4, NothingWritten DEF SignIn, tables
    <2>2. HoldsNoMore BY <1>0, <1>4 DEF SignIn, Ends, HoldsNoMore, Held, Idle
    <2> QED BY <2>1, <2>2, CombineNoMore
<1> QED BY <1>1, <1>2, <1>3, <1>4

(* The row is written again only if nobody changed it: the verified password
   is still the one last set, and the answer holds the new salt.             *)
LEMMA RehashCurrent ==
    ASSUME CredentialsTypeOK, CurrentInv, NEW t \in Tasks, Rehash(t)
    PROVE  CurrentInv'
<1> DEFINE proof == tasks[t].proof
           a == proof.account
           row == [users[a] EXCEPT !.salt = salts + 1, !.password = proof.password, !.weak = FALSE]
<1>0. DOMAIN tasks = Tasks /\ salts \in Nat BY CredentialAssumption DEF CredentialsTypeOK
<1>1. tasks[t] \in Verification BY VerificationByStep DEF Rehash
<1>2. proof \in Proof BY <1>1 DEF Verification
<1>3. Held(proof) BY DEF Held, Rehash
<1>4. Agrees(proof) BY <1>2, <1>3 DEF CurrentInv, ProofsAgree
<1>5. salts + 1 \in Salt BY DrawnIsCounted DEF Rehash
<1>6. tasks'[t].proof = Answer(proof) /\ (\A u \in Tasks \ {t} : tasks'[u] = tasks[u]) /\ sessions' = sessions
    BY <1>0, <1>1 DEF Rehash, Verification
<1>7. \A p \in Proof : Held(p)' => Held(p) \/ p = Answer(proof)
    <2> HIDE DEF proof
    <2> QED BY <1>6 DEF Held
<1>8. CASE Unchanged(proof)
    <2>1. a \in DOMAIN users /\ users[a].salt = proof.salt BY <1>8 DEF Unchanged, Exists
    <2>2. users[a] \in User /\ a \in Accounts BY <2>1 DEF CredentialsTypeOK, IsTable
    <2>3. row \in User /\ row.salt = salts + 1 /\ row.password = proof.password
        BY <1>2, <1>5, <2>2 DEF User, Proof
    <2>4. users' = Put(users, a, row)
        <3>1. users' = [users EXCEPT ![a] = row] BY <1>8, <2>1 DEF Rehash
        <3>2. users = [b \in DOMAIN users |-> users[b]] BY DEF CredentialsTypeOK, IsTable
        <3> HIDE DEF row, a
        <3> QED BY <2>1, <3>1, <3>2 DEF Put
    <2>5. proof.password = lastSet[a] /\ proof.by = registered[a] BY <1>4, <2>1 DEF Agrees, Exists
    <2>6. salts' = salts + 1 /\ lastSet' = lastSet /\ registered' = registered BY DEF Rehash
    <2>7. Answer(proof) \in Proof /\ Answer(proof).account = a /\ Answer(proof).salt = salts + 1
          /\ Answer(proof).password = proof.password /\ Answer(proof).by = proof.by
        BY <1>2, <1>5, <1>8 DEF Answer, Proof
    <2> HIDE DEF row, proof, a
    <2>8. RowsAreCurrent' /\ KeepsAgreement BY <2>2, <2>3, <2>4, <2>5, <2>6, RowWritten
    <2>9. \A p \in Proof : p = Answer(proof) => Agrees(p)' BY <1>0, <2>5, <2>6, <2>7 DEF Agrees
    <2>10. \A p \in Proof : Held(p)' => Held(p) \/ Agrees(p)' BY <1>7, <2>9
    <2> QED BY <2>8, <2>10, Combine
<1>9. CASE ~Unchanged(proof)
    <2>1. Answer(proof) = proof BY <1>9 DEF Answer
    <2>2. users' = users /\ salts' = salts + 1 /\ lastSet' = lastSet /\ registered' = registered
        BY <1>9 DEF Rehash
    <2>3. \A b \in DOMAIN users : users[b].salt \in Nat BY DEF CredentialsTypeOK, IsTable, User, Salt
    <2>4. RowsAreCurrent' BY <1>0, <2>2, <2>3 DEF CurrentInv, RowsAreCurrent
    <2>5. KeepsAgreement BY <1>0, <2>2 DEF KeepsAgreement, Agrees, Exists, Proof, Salt
    <2> HIDE DEF proof
    <2>6. HoldsNoMore BY <1>3, <1>7, <2>1 DEF HoldsNoMore
    <2> QED BY <2>4, <2>5, <2>6, CombineNoMore
<1> QED BY <1>8, <1>9

LEMMA RegisterCurrent ==
    ASSUME CredentialsTypeOK, CurrentInv, NEW a \in Accounts, NEW p \in Passwords, NEW admin \in BOOLEAN,
           Register(a, p, admin)
    PROVE  RowsAreCurrent' /\ KeepsAgreement
<1>1. Row(p, admin) \in User BY RowIsUser DEF Register
<1>2. Row(p, admin).salt = salts + 1 /\ Row(p, admin).password = p BY DEF Row
<1>3. users' = Put(users, a, Row(p, admin)) /\ salts' = salts + 1 BY DEF Register
<1>4. lastSet'[a] = p BY DEF Register, CredentialsTypeOK
<1>5. \A b \in Accounts \ {a} : lastSet'[b] = lastSet[b] /\ registered'[b] = registered[b]
    BY DEF Register, CredentialsTypeOK
<1> QED BY <1>1, <1>2, <1>3, <1>4, <1>5, RowWritten

LEMMA WritesCurrent ==
    ASSUME CredentialsTypeOK, CurrentInv, NEW t \in Tasks
    PROVE  /\ (\E step \in {"create", "change"}, a \in Accounts, p \in Passwords, admin \in BOOLEAN :
                    BeginWrite(t, step, a, p, admin)) => CurrentInv'
           /\ Create(t) => CurrentInv'
           /\ ChangePassword(t) => CurrentInv'
           /\ Redeem(t) => CurrentInv'
<1>1. ASSUME NEW step \in {"create", "change"}, NEW a \in Accounts, NEW p \in Passwords, NEW admin \in BOOLEAN,
             BeginWrite(t, step, a, p, admin)
      PROVE  CurrentInv'
    <2> DEFINE task == [step |-> step, account |-> a, password |-> p, admin |-> admin]
    <2>1. RowsAreCurrent' /\ KeepsAgreement BY <1>1, NothingWritten DEF BeginWrite, tables
    <2>2. tasks' = [tasks EXCEPT ![t] = task] /\ sessions' = sessions BY <1>1 DEF BeginWrite
    <2>3. task.step \in {"create", "change", "redeem"} OBVIOUS
    <2> HIDE DEF task
    <2>4. DOMAIN tasks = Tasks BY DEF CredentialsTypeOK
    <2>5. HoldsNoMore BY <2>2, <2>3, <2>4 DEF HoldsNoMore, Held
    <2> QED BY <2>1, <2>5, CombineNoMore
<1>2. ASSUME Create(t) PROVE CurrentInv'
    <2>1. tasks[t] \in Write BY <1>2, WriteByStep DEF Create
    <2>2. /\ tasks[t].account \in Accounts /\ tasks[t].password \in Passwords /\ tasks[t].admin \in BOOLEAN
        BY <2>1 DEF Write
    <2>3. Register(tasks[t].account, tasks[t].password, tasks[t].admin) BY <1>2 DEF Create
    <2>4. RowsAreCurrent' /\ KeepsAgreement BY <2>2, <2>3, RegisterCurrent
    <2>5. HoldsNoMore BY <1>2, EndsHoldsNoMore DEF Create
    <2> QED BY <2>4, <2>5, CombineNoMore
<1>3. ASSUME ChangePassword(t) PROVE CurrentInv'
    <2> DEFINE a == tasks[t].account
               p == tasks[t].password
               row == Row(p, users[a].admin)
    <2>1. tasks[t] \in Write BY <1>3, WriteByStep DEF ChangePassword
    <2>2. a \in Accounts /\ p \in Passwords BY <2>1 DEF Write
    <2>3. a \in DOMAIN users BY <1>3 DEF ChangePassword, Exists
    <2>4. users[a] \in User BY <2>3 DEF CredentialsTypeOK, IsTable
    <2>5. users[a].admin \in BOOLEAN BY <2>4 DEF User
    <2>6. row \in User BY <1>3, <2>2, <2>5, RowIsUser DEF ChangePassword
    <2>7. row.salt = salts + 1 /\ row.password = p BY DEF Row
    <2>8. users' = Put(users, a, row)
        <3>1. users' = [users EXCEPT ![a] = row] BY <1>3 DEF ChangePassword
        <3>2. users = [b \in DOMAIN users |-> users[b]] BY DEF CredentialsTypeOK, IsTable
        <3> HIDE DEF row, a
        <3> QED BY <2>3, <3>1, <3>2 DEF Put
    <2>9. salts' = salts + 1 /\ registered' = registered /\ sessions' = sessions /\ Ends(t)
          /\ lastSet' = [lastSet EXCEPT ![a] = p]
        BY <1>3 DEF ChangePassword
    <2>10. lastSet'[a] = p /\ \A b \in Accounts \ {a} : lastSet'[b] = lastSet[b] /\ registered'[b] = registered[b]
        BY <2>2, <2>9 DEF CredentialsTypeOK
    <2> HIDE DEF row, a, p
    <2>11. RowsAreCurrent' /\ KeepsAgreement BY <2>2, <2>6, <2>7, <2>8, <2>9, <2>10, RowWritten
    <2>12. HoldsNoMore BY <2>9, EndsHoldsNoMore
    <2> QED BY <2>11, <2>12, CombineNoMore
<1>4. ASSUME Redeem(t) PROVE CurrentInv'
    <2>1. tasks[t] \in Redemption BY <1>4, RedemptionByStep DEF Redeem
    <2>2. tasks[t].account \in Accounts /\ tasks[t].password \in Passwords BY <2>1 DEF Redemption
    <2>3. Register(tasks[t].account, tasks[t].password, FALSE) BY <1>4 DEF Redeem
    <2>4. RowsAreCurrent' /\ KeepsAgreement BY <2>2, <2>3, RegisterCurrent
    <2>5. HoldsNoMore BY <1>4, EndsHoldsNoMore DEF Redeem
    <2> QED BY <2>4, <2>5, CombineNoMore
<1> QED BY <1>1, <1>2, <1>3, <1>4

LEMMA AdministrationCurrent ==
    ASSUME CredentialsTypeOK, CurrentInv
    PROVE  /\ (\E s \in Sessions : SignOut(s)) => CurrentInv'
           /\ (\E p \in Policies : SetPolicy(p)) => CurrentInv'
           /\ RaiseIterations => CurrentInv'
           /\ (\E actor, a \in Accounts : DeleteUser(actor, a)) => CurrentInv'
           /\ (\E actor, a \in Accounts : FinishDeletion(actor, a)) => CurrentInv'
<1>0. DOMAIN tasks = Tasks /\ DOMAIN sessions = Sessions BY DEF CredentialsTypeOK
<1>1. ASSUME NEW s \in Sessions, SignOut(s) PROVE CurrentInv'
    <2>1. RowsAreCurrent' /\ KeepsAgreement BY <1>1, NothingWritten DEF SignOut, tables
    <2>2. HoldsNoMore BY <1>0, <1>1 DEF SignOut, HoldsNoMore, Held
    <2> QED BY <2>1, <2>2, CombineNoMore
<1>2. ASSUME NEW p \in Policies, SetPolicy(p) PROVE CurrentInv'
    BY <1>2, NothingWritten, SameHoldsNoMore, CombineNoMore DEF SetPolicy
<1>3. ASSUME RaiseIterations PROVE CurrentInv'
    <2>1. DOMAIN users' = DOMAIN users BY <1>3 DEF RaiseIterations
    <2>2. \A a \in DOMAIN users : users'[a].salt = users[a].salt /\ users'[a].password = users[a].password
        <3>1. \A a \in DOMAIN users : users[a] \in User BY DEF CredentialsTypeOK, IsTable
        <3>2. \A a \in DOMAIN users : users'[a] = [users[a] EXCEPT !.weak = TRUE] BY <1>3 DEF RaiseIterations
        <3> QED BY <3>1, <3>2 DEF User
    <2>3. salts' = salts /\ lastSet' = lastSet /\ registered' = registered BY <1>3 DEF RaiseIterations
    <2>4. RowsAreCurrent' BY <2>1, <2>2, <2>3 DEF CurrentInv, RowsAreCurrent
    <2>5. KeepsAgreement BY <2>1, <2>2, <2>3 DEF KeepsAgreement, Agrees, Exists
    <2>6. HoldsNoMore BY <1>3 DEF RaiseIterations, HoldsNoMore, Held, Idle
    <2> QED BY <2>4, <2>5, <2>6, CombineNoMore
<1>4. ASSUME NEW actor \in Accounts, NEW a \in Accounts, DeleteUser(actor, a) PROVE CurrentInv'
    <2>1. DOMAIN users' = DOMAIN users \ {a} /\ \A b \in DOMAIN users' : users'[b] = users[b]
        BY <1>4 DEF DeleteUser, Without
    <2>2. \A b \in Accounts \ {a} : lastSet'[b] = lastSet[b] BY <1>4 DEF DeleteUser, CredentialsTypeOK
    <2>3. salts' = salts /\ registered' = registered BY <1>4 DEF DeleteUser
    <2>4. DOMAIN users \subseteq Accounts BY DEF CredentialsTypeOK, IsTable
    <2>5. RowsAreCurrent' BY <2>1, <2>2, <2>3, <2>4 DEF CurrentInv, RowsAreCurrent
    <2>6. KeepsAgreement BY <2>1, <2>2, <2>3, <2>4 DEF KeepsAgreement, Agrees, Exists
    <2>7. HoldsNoMore BY <1>4, SameHoldsNoMore DEF DeleteUser
    <2> QED BY <2>5, <2>6, <2>7, CombineNoMore
<1>5. ASSUME NEW actor \in Accounts, NEW a \in Accounts, FinishDeletion(actor, a) PROVE CurrentInv'
    BY <1>5, NothingWritten, SameHoldsNoMore, CombineNoMore DEF FinishDeletion
<1> QED BY <1>1, <1>2, <1>3, <1>4, <1>5

LEMMA GrantsCurrent ==
    ASSUME CredentialsTypeOK, CurrentInv
    PROVE  /\ (\E k \in Keys, a \in Accounts, audience \in {"admin", "mailbox"} : CreateKey(k, a, audience)) => CurrentInv'
           /\ (\E k \in Keys : EndKey(k)) => CurrentInv'
           /\ (\E i \in Invitations, owner \in Accounts, fixed \in Accounts \cup {"none"}, max \in Uses :
                    Invite(i, owner, fixed, max)) => CurrentInv'
           /\ (\E i \in Invitations : EndInvitation(i)) => CurrentInv'
           /\ (\E t \in Tasks, i \in Invitations, a \in Accounts, p \in Passwords : BeginRedeem(t, i, a, p)) => CurrentInv'
<1>1. ASSUME NEW k \in Keys, NEW a \in Accounts, NEW audience \in {"admin", "mailbox"}, CreateKey(k, a, audience)
      PROVE  CurrentInv'
    BY <1>1, NothingWritten, SameHoldsNoMore, CombineNoMore DEF CreateKey
<1>2. ASSUME NEW k \in Keys, EndKey(k) PROVE CurrentInv'
    BY <1>2, NothingWritten, SameHoldsNoMore, CombineNoMore DEF EndKey
<1>3. ASSUME NEW i \in Invitations, NEW owner \in Accounts, NEW fixed \in Accounts \cup {"none"}, NEW max \in Uses,
             Invite(i, owner, fixed, max)
      PROVE  CurrentInv'
    BY <1>3, NothingWritten, SameHoldsNoMore, CombineNoMore DEF Invite
<1>4. ASSUME NEW i \in Invitations, EndInvitation(i) PROVE CurrentInv'
    BY <1>4, NothingWritten, SameHoldsNoMore, CombineNoMore DEF EndInvitation
<1>5. ASSUME NEW t \in Tasks, NEW i \in Invitations, NEW a \in Accounts, NEW p \in Passwords, BeginRedeem(t, i, a, p)
      PROVE  CurrentInv'
    <2> DEFINE task == [step |-> "redeem", account |-> a, password |-> p, invitation |-> i]
    <2>1. RowsAreCurrent' /\ KeepsAgreement BY <1>5, NothingWritten DEF BeginRedeem, tables
    <2>2. tasks' = [tasks EXCEPT ![t] = task] /\ sessions' = sessions BY <1>5 DEF BeginRedeem
    <2>3. task.step \in {"create", "change", "redeem"} OBVIOUS
    <2> HIDE DEF task
    <2>4. DOMAIN tasks = Tasks BY DEF CredentialsTypeOK
    <2>5. HoldsNoMore BY <2>2, <2>3, <2>4 DEF HoldsNoMore, Held
    <2> QED BY <2>1, <2>5, CombineNoMore
<1> QED BY <1>1, <1>2, <1>3, <1>4, <1>5

LEMMA CurrentStep == ASSUME CredentialsTypeOK, CurrentInv, [Next]_vars PROVE CurrentInv'
<1>1. CASE UNCHANGED vars
    BY <1>1, NothingWritten, SameHoldsNoMore, CombineNoMore DEF vars, tables
<1>2. CASE Next
    BY <1>2, VerificationsCurrent, RehashCurrent, WritesCurrent, AdministrationCurrent, GrantsCurrent, Zenon
       DEF Next
<1> QED BY <1>1, <1>2

LEMMA CurrentAlways == Spec => [](CredentialsTypeOK /\ CurrentInv)
BY TypesInit, HeldInit, TypesHold, CurrentStep, PTL DEF Spec

(* A verification that hashes a password again never brings back one that was
   changed meanwhile (verify, auth.cpp:1394).                                *)
THEOREM PasswordsAreKept == Spec => []PasswordIsLastSet
<1>1. CredentialsTypeOK /\ CurrentInv => PasswordIsLastSet
    BY DEF CurrentInv, RowsAreCurrent, PasswordIsLastSet
<1> QED BY <1>1, CurrentAlways, PTL

(* A session that session_check accepts was opened with the present password
   of the present registration, however verifications, password changes and
   deletions overlap (auth.cpp:394).                                         *)
THEOREM SessionsAreCurrent == Spec => []ValidSessionsAreCurrent
<1>1. ASSUME CredentialsTypeOK, CurrentInv PROVE ValidSessionsAreCurrent
    <2> SUFFICES ASSUME NEW s \in Sessions, Valid(s)
                 PROVE  /\ sessions[s].password = lastSet[sessions[s].account]
                        /\ sessions[s].by = registered[sessions[s].account]
        BY DEF ValidSessionsAreCurrent
    <2>0. sessions[s] \in Session \cup {SignedOut} BY <1>1 DEF CredentialsTypeOK
    <2>1. sessions[s] \in Proof BY <2>0 DEF Valid, Session
    <2>2. Held(sessions[s]) BY DEF Held, Valid
    <2>3. Agrees(sessions[s]) BY <1>1, <2>1, <2>2 DEF CurrentInv, ProofsAgree
    <2> QED BY <2>3 DEF Agrees, Valid
<1> QED BY <1>1, CurrentAlways, PTL

(* Both: nothing that was replaced verifies again. *)
THEOREM SecretsStayCurrent == Spec => []SecretsAreCurrent
<1>1. PasswordIsLastSet /\ ValidSessionsAreCurrent <=> SecretsAreCurrent BY DEF SecretsAreCurrent
<1> QED BY <1>1, PasswordsAreKept, SessionsAreCurrent, PTL

-----------------------------------------------------------------------------
(* API keys and invitations *)

KeysOwned == \A k \in DOMAIN keys : Exists(keys[k].owner) /\ keys[k].by = registered[keys[k].owner]
InvitationsOwned ==
    \A i \in DOMAIN invitations :
        Administrator(invitations[i].owner) /\ invitations[i].by = registered[invitations[i].owner]
UsesCounted ==
    /\ InvitationsAreLimited
    /\ DOMAIN invitations \subseteq drawn
    /\ \A i \in Invitations \ drawn : joined[i] = 0
GrantInv == KeysOwned /\ InvitationsOwned /\ UsesCounted

(* No account goes, is registered again or loses its role. *)
OwnersStay ==
    \A a \in DOMAIN users :
        a \in DOMAIN users' /\ users'[a].admin = users[a].admin /\ registered'[a] = registered[a]

LEMMA OwnedStays ==
    ASSUME KeysOwned, InvitationsOwned, OwnersStay
    PROVE  /\ keys' = keys => KeysOwned'
           /\ invitations' = invitations => InvitationsOwned'
BY DEF KeysOwned, InvitationsOwned, OwnersStay, Exists, Administrator

LEMMA UsesStay ==
    ASSUME UsesCounted, UNCHANGED <<invitations, drawn, joined>>
    PROVE  UsesCounted'
BY DEF UsesCounted, InvitationsAreLimited

LEMMA SameUsersStay == ASSUME UNCHANGED <<users, registered>> PROVE OwnersStay
BY DEF OwnersStay

LEMMA RegisterKeepsOwners ==
    ASSUME CredentialsTypeOK, NEW a \in Accounts, NEW p, NEW admin, Register(a, p, admin)
    PROVE  OwnersStay
<1>1. a \notin DOMAIN users BY DEF Register, Exists
<1>2. \A b \in DOMAIN users : b \in Accounts /\ b # a BY <1>1 DEF CredentialsTypeOK, IsTable
<1>3. users' = Put(users, a, Row(p, admin)) BY DEF Register
<1>4. registered' = [registered EXCEPT ![a] = @ + 1] BY DEF Register
<1>5. DOMAIN registered = Accounts BY DEF CredentialsTypeOK
<1>6. \A b \in DOMAIN users : b \in DOMAIN users' /\ users'[b] = users[b] BY <1>1, <1>3 DEF Put
<1>7. \A b \in DOMAIN users : registered'[b] = registered[b] BY <1>2, <1>4, <1>5
<1> QED BY <1>6, <1>7 DEF OwnersStay

LEMMA WritesKeepOwners ==
    ASSUME CredentialsTypeOK, NEW t \in Tasks
    PROVE  /\ Create(t) => OwnersStay
           /\ ChangePassword(t) => OwnersStay
           /\ Rehash(t) => OwnersStay
           /\ Redeem(t) => OwnersStay
<1>1. ASSUME Create(t) PROVE OwnersStay
    <2>1. tasks[t].account \in Accounts BY <1>1, WriteByStep DEF Create, Write
    <2> QED BY <1>1, <2>1, RegisterKeepsOwners DEF Create
<1>2. ASSUME ChangePassword(t) PROVE OwnersStay
    <2> DEFINE a == tasks[t].account
               row == Row(tasks[t].password, users[a].admin)
    <2>1. a \in DOMAIN users BY <1>2 DEF ChangePassword, Exists
    <2>2. users' = [users EXCEPT ![a] = row] /\ registered' = registered BY <1>2 DEF ChangePassword
    <2>3. row.admin = users[a].admin BY DEF Row
    <2> HIDE DEF a, row
    <2> QED BY <2>1, <2>2, <2>3 DEF OwnersStay
<1>3. ASSUME Rehash(t) PROVE OwnersStay
    <2> DEFINE a == tasks[t].proof.account
               row == [users[a] EXCEPT !.salt = salts + 1, !.password = tasks[t].proof.password, !.weak = FALSE]
    <2>1. registered' = registered BY <1>3 DEF Rehash
    <2>2. CASE ~Unchanged(tasks[t].proof) BY <1>3, <2>1, <2>2 DEF Rehash, OwnersStay
    <2>3. CASE Unchanged(tasks[t].proof)
        <3>1. a \in DOMAIN users BY <2>3 DEF Unchanged, Exists
        <3>2. users[a] \in User BY <3>1 DEF CredentialsTypeOK, IsTable
        <3>3. row.admin = users[a].admin BY <3>2 DEF User
        <3>4. users' = [users EXCEPT ![a] = row] BY <1>3, <2>3 DEF Rehash
        <3> HIDE DEF a, row
        <3> QED BY <2>1, <3>1, <3>3, <3>4 DEF OwnersStay
    <2> QED BY <2>2, <2>3
<1>4. ASSUME Redeem(t) PROVE OwnersStay
    <2>1. tasks[t].account \in Accounts BY <1>4, RedemptionByStep DEF Redeem, Redemption
    <2> QED BY <1>4, <2>1, RegisterKeepsOwners DEF Redeem
<1> QED BY <1>1, <1>2, <1>3, <1>4

LEMMA RaiseKeepsOwners == ASSUME CredentialsTypeOK, RaiseIterations PROVE OwnersStay
<1>1. \A a \in DOMAIN users : users[a] \in User BY DEF CredentialsTypeOK, IsTable
<1>2. \A a \in DOMAIN users : a \in DOMAIN users' /\ users'[a] = [users[a] EXCEPT !.weak = TRUE]
    BY DEF RaiseIterations
<1>3. registered' = registered BY DEF RaiseIterations
<1> QED BY <1>1, <1>2, <1>3 DEF OwnersStay, User

LEMMA DeletionKeepsGrants ==
    ASSUME CredentialsTypeOK, GrantInv, NEW actor \in Accounts, NEW a \in Accounts, DeleteUser(actor, a)
    PROVE  GrantInv'
<1>1. DOMAIN users' = DOMAIN users \ {a} /\ \A b \in DOMAIN users' : users'[b] = users[b]
    BY DEF DeleteUser, Without
<1>2. registered' = registered /\ drawn' = drawn /\ joined' = joined BY DEF DeleteUser
<1>3. \A k \in DOMAIN keys' : k \in DOMAIN keys /\ keys'[k] = keys[k] /\ keys[k].owner # a
    BY DEF DeleteUser, Disowned, Owned, Without
<1>4. \A i \in DOMAIN invitations' :
        i \in DOMAIN invitations /\ invitations'[i] = invitations[i] /\ invitations[i].owner # a
    BY DEF DeleteUser, Disowned, Owned, Without
<1>5. KeysOwned' BY <1>1, <1>2, <1>3 DEF GrantInv, KeysOwned, Exists
<1>6. InvitationsOwned' BY <1>1, <1>2, <1>4 DEF GrantInv, InvitationsOwned, Administrator, Exists
<1>7. UsesCounted' BY <1>2, <1>4 DEF GrantInv, UsesCounted, InvitationsAreLimited
<1> QED BY <1>5, <1>6, <1>7 DEF GrantInv

LEMMA KeysKeepGrants ==
    ASSUME CredentialsTypeOK, GrantInv, NEW k \in Keys
    PROVE  /\ (\E a \in Accounts, audience \in {"admin", "mailbox"} : CreateKey(k, a, audience)) => GrantInv'
           /\ EndKey(k) => GrantInv'
<1>1. ASSUME NEW a \in Accounts, NEW audience \in {"admin", "mailbox"}, CreateKey(k, a, audience) PROVE GrantInv'
    <2> DEFINE row == [owner |-> a, audience |-> audience, live |-> TRUE, by |-> registered[a]]
    <2>1. PICK left \in Prunings(keys, ActiveKeys) : keys' = Put(left, k, row) BY <1>1 DEF CreateKey
    <2>2. PICK gone : left = Without(keys, gone) BY PruningsKeep
    <2>3. UNCHANGED <<users, registered, invitations, joined>> /\ drawn \subseteq drawn' /\ Exists(a)
        BY <1>1 DEF CreateKey
    <2>4. row.owner = a /\ row.by = registered[a] OBVIOUS
    <2> HIDE DEF row
    <2>5. \A j \in DOMAIN keys' : keys'[j] = row \/ (j \in DOMAIN keys /\ keys'[j] = keys[j])
        BY <2>1, <2>2 DEF Put, Without
    <2>6. KeysOwned' BY <2>3, <2>4, <2>5 DEF GrantInv, KeysOwned, Exists
    <2>7. InvitationsOwned' BY <2>3, SameUsersStay, OwnedStays DEF GrantInv
    <2>8. UsesCounted' BY <2>3 DEF GrantInv, UsesCounted, InvitationsAreLimited
    <2> QED BY <2>6, <2>7, <2>8 DEF GrantInv
<1>2. ASSUME EndKey(k) PROVE GrantInv'
    <2>1. \A j \in DOMAIN keys : keys[j] \in Key BY DEF CredentialsTypeOK, IsTable
    <2>2. DOMAIN keys' = DOMAIN keys /\ \A j \in DOMAIN keys : keys'[j].owner = keys[j].owner /\ keys'[j].by = keys[j].by
        BY <1>2, <2>1 DEF EndKey, Key
    <2>3. UNCHANGED <<users, registered, invitations, drawn, joined>> BY <1>2 DEF EndKey
    <2>4. KeysOwned' BY <2>2, <2>3 DEF GrantInv, KeysOwned, Exists
    <2>5. InvitationsOwned' BY <2>3, SameUsersStay, OwnedStays DEF GrantInv
    <2>6. UsesCounted' BY <2>3, UsesStay DEF GrantInv
    <2> QED BY <2>4, <2>5, <2>6 DEF GrantInv
<1> QED BY <1>1, <1>2

LEMMA InvitingKeepsGrants ==
    ASSUME CredentialsTypeOK, GrantInv, NEW i \in Invitations
    PROVE  /\ (\E owner \in Accounts, fixed \in Accounts \cup {"none"}, max \in Uses : Invite(i, owner, fixed, max))
                => GrantInv'
           /\ EndInvitation(i) => GrantInv'
<1>1. ASSUME NEW owner \in Accounts, NEW fixed \in Accounts \cup {"none"}, NEW max \in Uses,
             Invite(i, owner, fixed, max)
      PROVE  GrantInv'
    <2> DEFINE row == [owner |-> owner, fixed |-> fixed, max |-> max, uses |-> 0,
                       live |-> TRUE, by |-> registered[owner]]
    <2>1. PICK left \in Prunings(invitations, ActiveInvitations) : invitations' = Put(left, i, row)
        BY <1>1 DEF Invite
    <2>2. PICK gone : left = Without(invitations, gone) BY PruningsKeep
    <2>3. UNCHANGED <<users, registered, keys, joined>> /\ drawn' = drawn \cup {i} /\ i \notin drawn /\ Administrator(owner)
        BY <1>1 DEF Invite
    <2>4. row.owner = owner /\ row.by = registered[owner] /\ row.uses = 0 /\ row.max = max OBVIOUS
    <2>5. max \in Nat \ {0} BY CredentialAssumption
    <2> HIDE DEF row
    <2>6. DOMAIN invitations' \subseteq DOMAIN invitations \cup {i} /\ invitations'[i] = row
          /\ \A j \in DOMAIN invitations' \ {i} : j \in DOMAIN invitations /\ invitations'[j] = invitations[j]
        BY <2>1, <2>2 DEF Put, Without
    <2>7. InvitationsOwned' BY <2>3, <2>4, <2>6 DEF GrantInv, InvitationsOwned, Administrator, Exists
    <2>8. KeysOwned' BY <2>3, SameUsersStay, OwnedStays DEF GrantInv
    <2>9. UsesCounted' BY <2>3, <2>4, <2>5, <2>6 DEF GrantInv, UsesCounted, InvitationsAreLimited
    <2> QED BY <2>7, <2>8, <2>9 DEF GrantInv
<1>2. ASSUME EndInvitation(i) PROVE GrantInv'
    <2>1. \A j \in DOMAIN invitations : invitations[j] \in Invitation BY DEF CredentialsTypeOK, IsTable
    <2>2. /\ DOMAIN invitations' = DOMAIN invitations
          /\ \A j \in DOMAIN invitations :
                /\ invitations'[j].owner = invitations[j].owner /\ invitations'[j].by = invitations[j].by
                /\ invitations'[j].uses = invitations[j].uses /\ invitations'[j].max = invitations[j].max
        BY <1>2, <2>1 DEF EndInvitation, Invitation
    <2>3. UNCHANGED <<users, registered, keys, drawn, joined>> BY <1>2 DEF EndInvitation
    <2>4. InvitationsOwned' BY <2>2, <2>3 DEF GrantInv, InvitationsOwned, Administrator, Exists
    <2>5. KeysOwned' BY <2>3, SameUsersStay, OwnedStays DEF GrantInv
    <2>6. UsesCounted' BY <2>2, <2>3 DEF GrantInv, UsesCounted, InvitationsAreLimited
    <2> QED BY <2>4, <2>5, <2>6 DEF GrantInv
<1> QED BY <1>1, <1>2

(* The second look and the transaction make a use and an account one step. *)
LEMMA RedeemKeepsGrants ==
    ASSUME CredentialsTypeOK, GrantInv, NEW t \in Tasks, Redeem(t)
    PROVE  GrantInv'
<1> DEFINE i == tasks[t].invitation
           row == [invitations[i] EXCEPT !.uses = @ + 1]
<1>1. OwnersStay BY WritesKeepOwners
<1>2. i \in Invitations BY RedemptionByStep DEF Redeem, Redemption
<1>3. i \in DOMAIN invitations /\ invitations[i].uses < invitations[i].max BY DEF Redeem, StillActive, Active
<1>4. invitations[i] \in Invitation BY <1>3 DEF CredentialsTypeOK, IsTable
<1>5. /\ row.owner = invitations[i].owner /\ row.by = invitations[i].by /\ row.max = invitations[i].max
      /\ row.uses = invitations[i].uses + 1
    BY <1>4 DEF Invitation
<1>6. invitations[i].uses \in Nat /\ invitations[i].max \in Nat
    BY <1>4, CredentialAssumption DEF Invitation
<1>7. invitations' = [invitations EXCEPT ![i] = row] BY DEF Redeem, Consumed
<1>8. joined' = [joined EXCEPT ![i] = @ + 1] /\ drawn' = drawn /\ keys' = keys BY DEF Redeem
<1>9. DOMAIN joined = Invitations BY DEF CredentialsTypeOK
<1>10. DOMAIN invitations \subseteq Invitations BY DEF CredentialsTypeOK, IsTable
<1> HIDE DEF i, row
<1>11. KeysOwned' BY <1>1, <1>8, OwnedStays DEF GrantInv
<1>12. InvitationsOwned'
    <2>1. DOMAIN invitations' = DOMAIN invitations
          /\ \A j \in DOMAIN invitations : invitations'[j].owner = invitations[j].owner /\ invitations'[j].by = invitations[j].by
        BY <1>3, <1>5, <1>7
    <2> QED BY <1>1, <2>1 DEF GrantInv, InvitationsOwned, OwnersStay, Administrator, Exists
<1>13. UsesCounted'
    <2>1. DOMAIN invitations' = DOMAIN invitations BY <1>7
    <2>2. \A j \in DOMAIN invitations' : joined'[j] = invitations'[j].uses /\ joined'[j] <= invitations'[j].max
        BY <1>2, <1>3, <1>5, <1>6, <1>7, <1>8, <1>9, <1>10 DEF GrantInv, UsesCounted, InvitationsAreLimited
    <2>3. \A j \in Invitations \ drawn' : joined'[j] = 0
        BY <1>3, <1>8, <1>9 DEF GrantInv, UsesCounted
    <2> QED BY <1>8, <2>1, <2>2, <2>3 DEF GrantInv, UsesCounted, InvitationsAreLimited
<1> QED BY <1>11, <1>12, <1>13 DEF GrantInv

LEMMA OthersKeepGrants ==
    ASSUME GrantInv, OwnersStay, UNCHANGED <<keys, invitations, drawn, joined>>
    PROVE  GrantInv'
BY OwnedStays, UsesStay DEF GrantInv

LEMMA GrantStep == ASSUME CredentialsTypeOK, GrantInv, [Next]_vars PROVE GrantInv'
<1>1. CASE UNCHANGED vars BY <1>1, SameUsersStay, OthersKeepGrants DEF vars, tables
<1>2. ASSUME NEW t \in Tasks, Create(t) \/ ChangePassword(t) \/ Rehash(t) PROVE GrantInv'
    BY <1>2, WritesKeepOwners, OthersKeepGrants DEF Create, ChangePassword, Rehash, Grants
<1>3. ASSUME RaiseIterations PROVE GrantInv'
    BY <1>3, RaiseKeepsOwners, OthersKeepGrants DEF RaiseIterations
<1>4. ASSUME NEW t \in Tasks,
             \/ \E a \in Accounts : BeginVerify(t, a)
             \/ Verified(t) \/ TaskEnds(t)
             \/ \E s \in Sessions : SignIn(t, s)
             \/ \E step \in {"create", "change"}, a \in Accounts, p \in Passwords, admin \in BOOLEAN :
                    BeginWrite(t, step, a, p, admin)
             \/ \E i \in Invitations, a \in Accounts, p \in Passwords : BeginRedeem(t, i, a, p)
      PROVE  GrantInv'
    <2>1. UNCHANGED <<users, registered, keys, invitations, drawn, joined>>
        BY <1>4 DEF BeginVerify, Verified, TaskEnds, SignIn, BeginWrite, BeginRedeem, tables
    <2> QED BY <2>1, SameUsersStay, OthersKeepGrants
<1>5. ASSUME \/ \E s \in Sessions : SignOut(s)
             \/ \E p \in Policies : SetPolicy(p)
             \/ \E actor, a \in Accounts : FinishDeletion(actor, a)
      PROVE  GrantInv'
    <2>1. UNCHANGED <<users, registered, keys, invitations, drawn, joined>>
        BY <1>5 DEF SignOut, SetPolicy, FinishDeletion, tables
    <2> QED BY <2>1, SameUsersStay, OthersKeepGrants
<1>6. CASE Next
    BY <1>2, <1>3, <1>4, <1>5, <1>6, DeletionKeepsGrants, KeysKeepGrants, InvitingKeepsGrants, RedeemKeepsGrants,
       Zenon DEF Next
<1> QED BY <1>1, <1>6

LEMMA GrantInit == Init => GrantInv
BY DEF Init, GrantInv, KeysOwned, InvitationsOwned, UsesCounted, InvitationsAreLimited, Empty, Without

LEMMA GrantsAlways == Spec => [](CredentialsTypeOK /\ GrantInv)
BY TypesInit, GrantInit, TypesHold, GrantStep, PTL DEF Spec

(* Every API key and invitation belongs to the present registration of its
   owner, across deletions and new registrations (delete_user, auth.cpp:931). *)
THEOREM GrantsAreCurrent == Spec => []GrantsDieWithOwners
<1>1. GrantInv => GrantsDieWithOwners BY DEF GrantInv, KeysOwned, InvitationsOwned, GrantsDieWithOwners
<1> QED BY <1>1, GrantsAlways, PTL

(* However many redemptions overlap, an invitation creates no more accounts
   than it has uses (redeem_invitation, auth.cpp:1263).                      *)
THEOREM InvitationsHold == Spec => []InvitationsAreLimited
<1>1. GrantInv => InvitationsAreLimited BY DEF GrantInv, UsesCounted
<1> QED BY <1>1, GrantsAlways, PTL

(* Both: what an owner granted neither outlives it nor exceeds its limit. *)
THEOREM GrantsStaySound == Spec => []GrantsAreSound
<1>1. GrantsDieWithOwners /\ InvitationsAreLimited <=> GrantsAreSound BY DEF GrantsAreSound
<1> QED BY <1>1, GrantsAreCurrent, InvitationsHold, PTL

-----------------------------------------------------------------------------
(* Actions that check again under the mutex *)

LEMMA RegisterSets ==
    ASSUME CredentialsTypeOK, NEW a, NEW p, NEW admin, Register(a, p, admin)
    PROVE  p \in policy /\ \A b \in Accounts : lastSet'[b] = lastSet[b] \/ lastSet'[b] = p
<1>1. DOMAIN lastSet = Accounts BY DEF CredentialsTypeOK
<1> QED BY <1>1 DEF Register, Admitted

(* A password is stored under the policy of that moment (auth.cpp:361), an
   account by an invitation that is still active (auth.cpp:1252).             *)
THEOREM RulesGovern == Spec => AdmittedWhenStored
<1> DEFINE Governed ==
        /\ \A a \in Accounts : lastSet'[a] # lastSet[a] /\ lastSet'[a] # "none" => lastSet'[a] \in policy
        /\ \A i \in Invitations : joined'[i] # joined[i] => Active(i)
<1>1. ASSUME CredentialsTypeOK, Next PROVE Governed
    <2>1. DOMAIN lastSet = Accounts BY <1>1 DEF CredentialsTypeOK
    <2>2. ASSUME NEW t \in Tasks, Create(t) PROVE Governed
        BY <1>1, <2>2, RegisterSets DEF Create, Grants
    <2>9. ASSUME NEW t \in Tasks, Redeem(t) PROVE Governed
        <3>1. \A i \in Invitations : joined'[i] # joined[i] => i = tasks[t].invitation
            BY <1>1, <2>9 DEF Redeem, CredentialsTypeOK
        <3>2. Active(tasks[t].invitation) BY <2>9 DEF Redeem, StillActive
        <3> QED BY <1>1, <2>9, <3>1, <3>2, RegisterSets DEF Redeem
    <2>3. ASSUME NEW t \in Tasks, ChangePassword(t) PROVE Governed
        BY <2>1, <2>3 DEF ChangePassword, Admitted, Grants
    <2>4. ASSUME NEW actor \in Accounts, NEW a \in Accounts, DeleteUser(actor, a) PROVE Governed
        BY <2>1, <2>4 DEF DeleteUser
    <2>5. CASE UNCHANGED <<lastSet, joined>> BY <2>5
    <2>6. ASSUME NEW t \in Tasks,
                 \/ \E a \in Accounts : BeginVerify(t, a)
                 \/ Verified(t) \/ Rehash(t) \/ TaskEnds(t)
                 \/ \E s \in Sessions : SignIn(t, s)
                 \/ \E step \in {"create", "change"}, a \in Accounts, p \in Passwords, admin \in BOOLEAN :
                        BeginWrite(t, step, a, p, admin)
                 \/ \E i \in Invitations, a \in Accounts, p \in Passwords : BeginRedeem(t, i, a, p)
          PROVE  UNCHANGED <<lastSet, joined>>
        BY <2>6 DEF BeginVerify, Verified, Rehash, TaskEnds, SignIn, BeginWrite, BeginRedeem, Grants
    <2>7. ASSUME \/ \E s \in Sessions : SignOut(s)
                 \/ \E p \in Policies : SetPolicy(p)
                 \/ RaiseIterations
                 \/ \E actor, a \in Accounts : FinishDeletion(actor, a)
                 \/ \E k \in Keys :
                    \/ \E a \in Accounts, audience \in {"admin", "mailbox"} : CreateKey(k, a, audience)
                    \/ EndKey(k)
                 \/ \E i \in Invitations :
                    \/ \E owner \in Accounts, fixed \in Accounts \cup {"none"}, max \in Uses :
                            Invite(i, owner, fixed, max)
                    \/ EndInvitation(i)
          PROVE  UNCHANGED <<lastSet, joined>>
        BY <2>7 DEF SignOut, SetPolicy, RaiseIterations, FinishDeletion, CreateKey, EndKey, Invite, EndInvitation
    <2> HIDE DEF Governed
    <2> QED BY <1>1, <2>2, <2>9, <2>3, <2>4, <2>5, <2>6, <2>7, Zenon DEF Next
<1>2. ASSUME CredentialsTypeOK, [Next]_vars PROVE [Governed]_vars BY <1>1, <1>2
<1> QED BY <1>2, CredentialTypes, PTL DEF Spec, AdmittedWhenStored
=============================================================================
