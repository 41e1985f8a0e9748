------------------------------ MODULE Accounts ------------------------------
(***************************************************************************)
(* The account table of the auth service, as far as mail delivery depends  *)
(* on it: which addresses have an account, which of them have been         *)
(* disabled and wait for their mailbox to be cleaned up                    *)
(* (account_deletions), and how often each address has been registered.    *)
(*                                                                         *)
(* The administrator who acts is outside Mailboxes, so the guards on the   *)
(* actor (administrator, not oneself, not the last administrator) hold.    *)
(***************************************************************************)
EXTENDS Naturals

CONSTANTS
    Mailboxes,         \* local addresses that an account can own
    MaxIncarnations    \* bound: how often one address is registered

ASSUME IncarnationAssumption == MaxIncarnations \in Nat \ {0}

VARIABLES
    users,             \* auth.users
    deleting,          \* auth.account_deletions: disabled, cleanup not finished
    incarnation        \* history: registrations so far; also stands for cleanup_id

accountVars == <<users, deleting, incarnation>>

AccountsTypeOK ==
    /\ users \subseteq Mailboxes
    /\ deleting \subseteq Mailboxes
    /\ incarnation \in [Mailboxes -> 0..MaxIncarnations]

(* Setup and the administrator have registered every address once. *)
AccountsInit ==
    /\ users = Mailboxes
    /\ deleting = {}
    /\ incarnation = [u \in Mailboxes |-> 1]

-----------------------------------------------------------------------------
(* Mutant: registration forgets the pending cleanup of the old account. *)
MayRegisterOverCleanup(u) == u \notin users

(* create and invite redemption refuse an address in use or being cleaned up. *)
MayRegister(u) == u \notin users /\ u \notin deleting

CreateUser(u) ==
    /\ MayRegister(u)
    /\ incarnation[u] < MaxIncarnations
    /\ users' = users \cup {u}
    /\ incarnation' = [incarnation EXCEPT ![u] = @ + 1]
    /\ UNCHANGED deleting

(* user_delete: one transaction removes the account and records the cleanup.
   While a cleanup is pending the same call only repeats its cleanup_id.     *)
DeleteUser(u) ==
    /\ u \in users /\ u \notin deleting
    /\ users' = users \ {u}
    /\ deleting' = deleting \cup {u}
    /\ UNCHANGED incarnation

(* user_delete_finish: accepted only with the cleanup_id that is pending. *)
FinishDelete(u, cleanup) ==
    /\ u \in deleting
    /\ cleanup = incarnation[u]
    /\ deleting' = deleting \ {u}
    /\ UNCHANGED <<users, incarnation>>
=============================================================================
