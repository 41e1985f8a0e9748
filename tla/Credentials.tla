----------------------------- MODULE Credentials -----------------------------
(***************************************************************************)
(* Accounts, password policy, API keys and invitations of the              *)
(* authentication service, with the browser sessions of the web services.  *)
(*                                                                         *)
(* Passwords are hashed outside the mutex: what a call read before it may  *)
(* have changed when it writes or answers.  Each task is such a call.      *)
(* The hosted domains are fixed; LoginSecurity has what limits guesses.    *)
(***************************************************************************)
EXTENDS Integers, FiniteSets

CONSTANTS
    Accounts,       \* addresses
    Passwords,
    Policies,       \* password policies: each the set of passwords it admits
    Tasks,          \* calls that may hash at once
    Sessions,       \* cookies of browser sessions
    Keys,           \* identifiers of API keys
    Invitations,    \* identifiers of invitations
    Uses,           \* use limits an invitation may have
    MaxActive,      \* max_active_keys and active invitations
    MaxStored,      \* max_stored_keys and stored invitations
    MaxDraws        \* bound: salts and identifiers drawn

ASSUME CredentialAssumption ==
    /\ Policies \subseteq SUBSET Passwords /\ Policies # {}
    /\ Uses \subseteq Nat \ {0}
    /\ MaxActive \in Nat \ {0} /\ MaxStored \in Nat \ {0} /\ MaxDraws \in Nat
    /\ IsFiniteSet(Keys) /\ IsFiniteSet(Invitations)
    /\ "none" \notin Accounts

VARIABLES
    users,          \* table users, by address
    deleting,       \* account_deletions
    policy,         \* password_policy
    keys,           \* api_keys, by identifier
    invitations,    \* invitations, by identifier
    tasks,          \* locals of calls that hash, or whose answer is on its way
    sessions,       \* sessions_ of the web services
    salts,          \* salts drawn so far; a salt is a number
    drawn,          \* identifiers of keys and invitations drawn so far
    registered,     \* history: registrations of an address
    lastSet,        \* history: the password last set for an account
    joined          \* history: accounts an invitation has created

tables == <<users, deleting, policy, keys, invitations>>
vars == <<tables, tasks, sessions, salts, drawn, registered, lastSet, joined>>

Salt == 1..MaxDraws

(* The hash is a function of password, salt and iterations; as salts are
   fresh, rows agree in it when they agree in the salt.  weak: fewer
   iterations than are configured.                                           *)
User == [salt : Salt, password : Passwords, weak : BOOLEAN, admin : BOOLEAN]

(* live: neither revoked nor expired.  by: history, the owner's registration. *)
Key == [owner : Accounts, audience : {"admin", "mailbox"}, live : BOOLEAN, by : Nat]
Invitation == [owner : Accounts, fixed : Accounts \cup {"none"}, max : Uses, uses : Nat, live : BOOLEAN, by : Nat]

(* What was read, and after "answered" what was returned, by a verification. *)
Proof == [account : Accounts, salt : Salt, admin : BOOLEAN, password : Passwords, by : Nat]
Session == Proof

Idle == [step |-> "idle"]
Verification == [step : {"verify", "rehash", "answered"}, proof : Proof, weak : BOOLEAN]
Write == [step : {"create", "change"}, account : Accounts, password : Passwords, admin : BOOLEAN]
Redemption == [step : {"redeem"}, account : Accounts, password : Passwords, invitation : Invitations]
SignedOut == [account |-> "none"]

Put(f, i, value) == [x \in DOMAIN f \cup {i} |-> IF x = i THEN value ELSE f[x]]
Without(f, gone) == [x \in DOMAIN f \ gone |-> f[x]]
IsTable(t, ids, rows) == DOMAIN t \subseteq ids /\ t \in [DOMAIN t -> rows]
Empty(ids) == Without([i \in ids |-> 0], ids)

CredentialsTypeOK ==
    /\ IsTable(users, Accounts, User) /\ deleting \subseteq Accounts
    /\ policy \in Policies
    /\ IsTable(keys, Keys, Key) /\ IsTable(invitations, Invitations, Invitation)
    /\ tasks \in [Tasks -> {Idle} \cup Verification \cup Write \cup Redemption]
    /\ sessions \in [Sessions -> Session \cup {SignedOut}]
    /\ salts \in 0..MaxDraws /\ drawn \subseteq Keys \cup Invitations
    /\ registered \in [Accounts -> Nat]
    /\ lastSet \in [Accounts -> Passwords \cup {"none"}]
    /\ joined \in [Invitations -> Nat]

Init ==
    /\ users = Empty(Accounts) /\ deleting = {} /\ policy \in Policies
    /\ keys = Empty(Keys) /\ invitations = Empty(Invitations)
    /\ tasks = [t \in Tasks |-> Idle] /\ sessions = [s \in Sessions |-> SignedOut]
    /\ salts = 0 /\ drawn = {}
    /\ registered = [a \in Accounts |-> 0] /\ lastSet = [a \in Accounts |-> "none"]
    /\ joined = [i \in Invitations |-> 0]

Exists(a) == a \in DOMAIN users
Administrator(a) == Exists(a) /\ users[a].admin
Drawable == salts + Cardinality(drawn) < MaxDraws
Ends(t) == tasks' = [tasks EXCEPT ![t] = Idle]
Grants == <<keys, invitations, drawn, joined>>

-----------------------------------------------------------------------------
(* verify, and the login of a web service that asked for it.  Only a right
   guess changes anything here.                                              *)

BeginVerify(t, a) ==
    /\ tasks[t] = Idle /\ Exists(a)
    /\ tasks' = [tasks EXCEPT ![t] =
            [step |-> "verify", weak |-> users[a].weak,
             proof |-> [account |-> a, salt |-> users[a].salt, admin |-> users[a].admin,
                        password |-> users[a].password, by |-> registered[a]]]]
    /\ UNCHANGED <<tables, sessions, salts, drawn, registered, lastSet, joined>>

(* The hash matches and login protection lets the answer pass. *)
Verified(t) ==
    /\ tasks[t].step = "verify"
    /\ tasks' = [tasks EXCEPT ![t].step = IF tasks[t].weak THEN "rehash" ELSE "answered"]
    /\ UNCHANGED <<tables, sessions, salts, drawn, registered, lastSet, joined>>

(* Mutant: the account's row is updated whatever hash it has. *)
UnchangedIfExists(proof) == Exists(proof.account)

(* WHERE username=? AND password_hash=? *)
Unchanged(proof) == Exists(proof.account) /\ users[proof.account].salt = proof.salt

(* Mutant: the answer carries the row's salt, whoever wrote it. *)
AnswerOfRow(proof) ==
    IF Unchanged(proof) THEN [proof EXCEPT !.salt = salts + 1]
    ELSE IF Exists(proof.account) THEN [proof EXCEPT !.salt = users[proof.account].salt] ELSE proof

(* The salt of the answer is the new one if the row was updated. *)
Answer(proof) == IF Unchanged(proof) THEN [proof EXCEPT !.salt = salts + 1] ELSE proof

(* A right password is hashed again with as many iterations as configured. *)
Rehash(t) ==
    LET proof == tasks[t].proof
        a == proof.account
    IN
    /\ tasks[t].step = "rehash" /\ Drawable
    /\ salts' = salts + 1
    /\ users' = IF Unchanged(proof)
                THEN [users EXCEPT ![a].salt = salts + 1, ![a].password = proof.password, ![a].weak = FALSE]
                ELSE users
    /\ tasks' = [tasks EXCEPT ![t].step = "answered", ![t].proof = Answer(proof)]
    /\ UNCHANGED <<deleting, policy, sessions, registered, lastSet, Grants>>

(* login: the answer arrives at the web service, which creates a session. *)
SignIn(t, s) ==
    /\ tasks[t].step = "answered" /\ sessions[s] = SignedOut
    /\ sessions' = [sessions EXCEPT ![s] = tasks[t].proof]
    /\ Ends(t)
    /\ UNCHANGED <<tables, salts, drawn, registered, lastSet, joined>>

(* A call ends without effect: it is refused, its hash throws, its caller is
   gone, or its answer serves no browser.                                    *)
TaskEnds(t) ==
    /\ tasks[t] # Idle /\ Ends(t)
    /\ UNCHANGED <<tables, sessions, salts, drawn, registered, lastSet, joined>>

(* session_check, which authenticate asks at each request *)
Valid(s) ==
    LET c == sessions[s] IN
    c # SignedOut /\ Exists(c.account) /\ users[c.account].salt = c.salt /\ users[c.account].admin = c.admin

(* Logout, expiry, the purge after a change or deletion, and a session that
   authenticate found invalid.                                               *)
SignOut(s) ==
    /\ sessions[s] # SignedOut
    /\ sessions' = [sessions EXCEPT ![s] = SignedOut]
    /\ UNCHANGED <<tables, tasks, salts, drawn, registered, lastSet, joined>>

-----------------------------------------------------------------------------
(* create and change_password; the policy is checked before the hash and in
   the transaction that writes.                                              *)

BeginWrite(t, step, a, password, admin) ==
    /\ tasks[t] = Idle /\ password \in policy
    /\ tasks' = [tasks EXCEPT ![t] = [step |-> step, account |-> a, password |-> password, admin |-> admin]]
    /\ UNCHANGED <<tables, sessions, salts, drawn, registered, lastSet, joined>>

(* Mutant: the policy is checked before the hash only. *)
AdmittedBefore(password) == TRUE

Admitted(password) == password \in policy

Row(password, admin) == [salt |-> salts + 1, password |-> password, weak |-> FALSE, admin |-> admin]

Register(a, password, admin) ==
    /\ a \notin deleting /\ ~Exists(a) /\ Admitted(password) /\ Drawable
    /\ salts' = salts + 1
    /\ users' = Put(users, a, Row(password, admin))
    /\ registered' = [registered EXCEPT ![a] = @ + 1]
    /\ lastSet' = [lastSet EXCEPT ![a] = password]

Create(t) ==
    /\ tasks[t].step = "create"
    /\ Register(tasks[t].account, tasks[t].password, tasks[t].admin)
    /\ Ends(t)
    /\ UNCHANGED <<deleting, policy, sessions, Grants>>

ChangePassword(t) ==
    LET a == tasks[t].account
        password == tasks[t].password
    IN
    /\ tasks[t].step = "change" /\ Exists(a) /\ Admitted(password) /\ Drawable
    /\ salts' = salts + 1
    /\ users' = [users EXCEPT ![a] = Row(password, @.admin)]
    /\ lastSet' = [lastSet EXCEPT ![a] = password]
    /\ Ends(t)
    /\ UNCHANGED <<deleting, policy, sessions, registered, Grants>>

SetPolicy(p) ==
    /\ p # policy /\ policy' = p
    /\ UNCHANGED <<users, deleting, keys, invitations, tasks, sessions, salts, drawn, registered, lastSet, joined>>

(* A restart with more iterations configured loses the calls in progress. *)
RaiseIterations ==
    /\ users' = [a \in DOMAIN users |-> [users[a] EXCEPT !.weak = TRUE]]
    /\ tasks' = [t \in Tasks |-> IF tasks[t].step = "answered" THEN tasks[t] ELSE Idle]
    /\ UNCHANGED <<deleting, policy, keys, invitations, sessions, salts, drawn, registered, lastSet, joined>>

-----------------------------------------------------------------------------
(* user_delete disables an account, user_delete_finish frees its address. *)

Owned(rows, a) == {r \in DOMAIN rows : rows[r].owner = a}

(* Mutant: keys and invitations outlive their owner. *)
Kept(rows, a) == rows

Disowned(rows, a) == Without(rows, Owned(rows, a))

DeleteUser(actor, a) ==
    /\ Administrator(actor) /\ actor # a /\ Exists(a) /\ a \notin deleting
    /\ users[a].admin => Cardinality({b \in DOMAIN users : users[b].admin}) > 1
    /\ deleting' = deleting \cup {a}
    /\ users' = Without(users, {a})
    /\ keys' = Disowned(keys, a) /\ invitations' = Disowned(invitations, a)
    /\ lastSet' = [lastSet EXCEPT ![a] = "none"]
    /\ UNCHANGED <<policy, tasks, sessions, salts, drawn, registered, joined>>

FinishDeletion(actor, a) ==
    /\ Administrator(actor) /\ actor # a /\ a \in deleting
    /\ deleting' = deleting \ {a}
    /\ UNCHANGED <<users, policy, keys, invitations, tasks, sessions, salts, drawn, registered, lastSet, joined>>

-----------------------------------------------------------------------------
(* API keys *)

(* Room for one more row is made among those no longer active; any of them
   may be the oldest.                                                        *)
Prunings(rows, active) ==
    LET gone == DOMAIN rows \ active
        excess == Cardinality(DOMAIN rows) - (MaxStored - 1)
        removed == IF excess <= 0 THEN 0 ELSE IF excess < Cardinality(gone) THEN excess ELSE Cardinality(gone)
    IN {Without(rows, g) : g \in {h \in SUBSET gone : Cardinality(h) = removed}}

(* The condition of api_key_verify. *)
KeyVerifies(k) ==
    /\ k \in DOMAIN keys /\ keys[k].live /\ Exists(keys[k].owner)
    /\ keys[k].audience = "mailbox" \/ users[keys[k].owner].admin

ActiveKeys == {k \in DOMAIN keys : KeyVerifies(k)}
Counted(audience, a) ==
    {k \in ActiveKeys : keys[k].audience = audience /\ (audience = "admin" \/ keys[k].owner = a)}

CreateKey(k, a, audience) ==
    /\ Drawable /\ k \notin drawn /\ Exists(a) /\ (audience = "admin" => users[a].admin)
    /\ Cardinality(Counted(audience, a)) < MaxActive
    /\ \E left \in Prunings(keys, ActiveKeys) :
        /\ Cardinality(DOMAIN left) < MaxStored
        /\ keys' = Put(left, k, [owner |-> a, audience |-> audience, live |-> TRUE, by |-> registered[a]])
    /\ drawn' = drawn \cup {k}
    /\ UNCHANGED <<users, deleting, policy, invitations, tasks, sessions, salts, registered, lastSet, joined>>

(* Revocation, and the end of its term *)
EndKey(k) ==
    /\ k \in DOMAIN keys /\ keys[k].live
    /\ keys' = [keys EXCEPT ![k].live = FALSE]
    /\ UNCHANGED <<users, deleting, policy, invitations, tasks, sessions, salts, drawn, registered, lastSet, joined>>

-----------------------------------------------------------------------------
(* Invitations *)

Active(i) == i \in DOMAIN invitations /\ invitations[i].live /\ invitations[i].uses < invitations[i].max
ActiveInvitations == {i \in DOMAIN invitations : Active(i)}

Invite(i, owner, fixed, max) ==
    /\ Drawable /\ i \notin drawn /\ Administrator(owner)
    /\ fixed # "none" => max = 1 /\ ~Exists(fixed)
    /\ Cardinality(ActiveInvitations) < MaxActive
    /\ \E left \in Prunings(invitations, ActiveInvitations) :
        /\ Cardinality(DOMAIN left) < MaxStored
        /\ invitations' = Put(left, i, [owner |-> owner, fixed |-> fixed, max |-> max, uses |-> 0,
                                        live |-> TRUE, by |-> registered[owner]])
    /\ drawn' = drawn \cup {i}
    /\ UNCHANGED <<users, deleting, policy, keys, tasks, sessions, salts, registered, lastSet, joined>>

(* Revocation, and the end of its term *)
EndInvitation(i) ==
    /\ i \in DOMAIN invitations /\ invitations[i].live
    /\ invitations' = [invitations EXCEPT ![i].live = FALSE]
    /\ UNCHANGED <<users, deleting, policy, keys, tasks, sessions, salts, drawn, registered, lastSet, joined>>

BeginRedeem(t, i, a, password) ==
    /\ tasks[t] = Idle /\ Active(i) /\ password \in policy
    /\ invitations[i].fixed \in {"none", a}
    /\ tasks' = [tasks EXCEPT ![t] = [step |-> "redeem", account |-> a, password |-> password, invitation |-> i]]
    /\ UNCHANGED <<tables, sessions, salts, drawn, registered, lastSet, joined>>

(* Mutant: an invitation seen active before the hash is as good as one now. *)
StoredStill(i) == i \in DOMAIN invitations

StillActive(i) == Active(i)

(* Mutant: a use is not recorded. *)
NotConsumed(i) == invitations

Consumed(i) == [invitations EXCEPT ![i].uses = @ + 1]

Redeem(t) ==
    LET i == tasks[t].invitation IN
    /\ tasks[t].step = "redeem" /\ StillActive(i)
    /\ Register(tasks[t].account, tasks[t].password, FALSE)
    /\ invitations' = Consumed(i)
    /\ joined' = [joined EXCEPT ![i] = @ + 1]
    /\ Ends(t)
    /\ UNCHANGED <<deleting, policy, keys, sessions, drawn>>

-----------------------------------------------------------------------------
Next ==
    \/ \E t \in Tasks :
        \/ \E a \in Accounts : BeginVerify(t, a)
        \/ Verified(t) \/ Rehash(t) \/ TaskEnds(t)
        \/ \E s \in Sessions : SignIn(t, s)
        \/ \E a \in Accounts, password \in Passwords :
            \/ \E admin \in BOOLEAN : BeginWrite(t, "create", a, password, admin)
            \/ BeginWrite(t, "change", a, password, FALSE)
            \/ \E i \in Invitations : BeginRedeem(t, i, a, password)
        \/ Create(t) \/ ChangePassword(t) \/ Redeem(t)
    \/ \E s \in Sessions : SignOut(s)
    \/ \E p \in Policies : SetPolicy(p)
    \/ RaiseIterations
    \/ \E actor, a \in Accounts : DeleteUser(actor, a) \/ FinishDeletion(actor, a)
    \/ \E k \in Keys :
        \/ \E a \in Accounts, audience \in {"admin", "mailbox"} : CreateKey(k, a, audience)
        \/ EndKey(k)
    \/ \E i \in Invitations :
        \/ \E owner \in Accounts, fixed \in Accounts \cup {"none"}, max \in Uses : Invite(i, owner, fixed, max)
        \/ EndInvitation(i)

Spec == Init /\ [][Next]_vars

-----------------------------------------------------------------------------
(* Properties *)

(* A verification that hashes a password again never brings back one that was
   changed meanwhile, and an account that was registered again has the
   password of its new owner.                                                *)
PasswordIsLastSet == \A a \in DOMAIN users : users[a].password = lastSet[a]

(* A browser session that session_check accepts was opened with the present
   password of the present registration (docs/access.md:41).                 *)
ValidSessionsAreCurrent ==
    \A s \in Sessions : Valid(s) =>
        LET c == sessions[s] IN c.password = lastSet[c.account] /\ c.by = registered[c.account]

(* No present password and no valid session is one that was replaced. *)
SecretsAreCurrent == PasswordIsLastSet /\ ValidSessionsAreCurrent

(* A password that is set meets the policy in force when it is stored, however
   long the hash took (docs/internal-contract.md:28), and an account joins by an
   invitation that is active at that moment: not used up, revoked, expired or
   deleted with its owner during the hash (docs/access.md:51).                *)
AdmittedWhenStored ==
    [][/\ \A a \in Accounts : lastSet'[a] # lastSet[a] /\ lastSet'[a] # "none" => lastSet'[a] \in policy
       /\ \A i \in Invitations : joined'[i] # joined[i] => Active(i)]_vars

(* API keys and invitations belong to the present registration of their owner;
   one who owns an invitation is an administrator (so does a deletion that
   overlaps their use leave nothing to whoever registers the address next).  *)
GrantsDieWithOwners ==
    /\ \A k \in DOMAIN keys : Exists(keys[k].owner) /\ keys[k].by = registered[keys[k].owner]
    /\ \A i \in DOMAIN invitations :
        Administrator(invitations[i].owner) /\ invitations[i].by = registered[invitations[i].owner]

(* Redemptions that overlap create no more accounts than an invitation has
   uses, and each use it counts is an account it created.                    *)
InvitationsAreLimited ==
    \A i \in DOMAIN invitations : joined[i] = invitations[i].uses /\ joined[i] <= invitations[i].max

(* Nothing an owner granted outlives it or exceeds what it granted. *)
GrantsAreSound == GrantsDieWithOwners /\ InvitationsAreLimited
=============================================================================
