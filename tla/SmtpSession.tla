----------------------------- MODULE SmtpSession -----------------------------
(***************************************************************************)
(* One SMTP connection, of the public listener or of the submission one: the *)
(* commands a client may send in any order, the envelope they build up and   *)
(* the message DATA puts into the queue.  A transaction begins with every    *)
(* greeting, MAIL, RSET, STARTTLS, with every end of DATA and every error.   *)
(***************************************************************************)
EXTENDS Naturals, FiniteSets

CONSTANTS
    Senders,
    Own,            \* those of this server's domains, and the empty one
    OutboundMode,   \* "direct", "relay" or "disabled"
    Users,
    Local, Remote,  \* recipients of this server's domains and of others
    AuthLimit, RecipientLimit,
    MaxTransactions \* bound: transactions of a connection

ASSUME SmtpAssumption ==
    /\ AuthLimit \in Nat \ {0} /\ RecipientLimit \in Nat \ {0} /\ MaxTransactions \in Nat \ {0}
    /\ Local \cap Remote = {} /\ "none" \notin Senders \cup Users \cup Local \cup Remote

VARIABLES
    smSubmission,   \* the listener, one that requires TLS and a login for MAIL
    smAt,           \* "command", "data" while the message is read, "closed"
    smTls, smGreeted, smExtended,
    smUser,         \* username, "none" before AUTH
    smChanged,      \* its credentials were changed since
    smSender,       \* sender, "none" for have_sender = false
    smRecipients,   \* recipients accepted
    smFailures,     \* auth_failures
    smCurrent,      \* transactions begun
    smLines,        \* the accepted envelope lines: their recipient, transaction and user
    smQueued        \* messages queued, with the lines of their envelopes

smVars == <<smSubmission, smAt, smTls, smGreeted, smExtended, smUser, smChanged, smSender, smRecipients,
            smFailures, smCurrent, smLines, smQueued>>

None == "none"
Recipients == Local \cup Remote
SmtpLine == [recipient : Recipients \cup {None}, transaction : 1..MaxTransactions, user : Users \cup {None}]
QueuedMail == [sender : Senders, recipients : SUBSET Recipients, user : Users \cup {None}, tls : BOOLEAN,
               transaction : 1..MaxTransactions, lines : SUBSET SmtpLine]

SmtpTypeOK ==
    /\ smSubmission \in BOOLEAN /\ smAt \in {"command", "data", "closed"}
    /\ smTls \in BOOLEAN /\ smGreeted \in BOOLEAN /\ smExtended \in BOOLEAN
    /\ smUser \in Users \cup {None} /\ smChanged \in BOOLEAN
    /\ smSender \in Senders \cup {None} /\ smRecipients \in SUBSET Recipients
    /\ smFailures \in 0..AuthLimit
    /\ smCurrent \in 1..MaxTransactions
    /\ smLines \in SUBSET SmtpLine
    /\ smQueued \in SUBSET QueuedMail

(* An implicit TLS listener begins encrypted; STARTTLS begins without. *)
SmtpInit ==
    /\ smSubmission \in BOOLEAN /\ smAt = "command"
    /\ smTls \in BOOLEAN /\ smGreeted = FALSE /\ smExtended = FALSE
    /\ smUser = None /\ smChanged = FALSE
    /\ smSender = None /\ smRecipients = {} /\ smFailures = 0
    /\ smCurrent = 1 /\ smLines = {} /\ smQueued = {}

-----------------------------------------------------------------------------
(* reset, and the next transaction. *)
NewTransaction ==
    /\ smCurrent < MaxTransactions
    /\ smCurrent' = smCurrent + 1
    /\ smLines' = {}
reset == smSender' = None /\ smRecipients' = {} /\ NewTransaction

Connection == <<smSubmission, smTls, smGreeted, smExtended>>
Login == <<smUser, smChanged, smFailures>>
Envelope == <<smSender, smRecipients, smCurrent, smLines>>

(* A command is looked at unless session_check says that the credentials changed. *)
Command == smAt = "command" /\ ~smChanged

CredentialsChanged ==
    /\ smAt = "command" /\ smChanged
    /\ smAt' = "closed"
    /\ UNCHANGED <<Connection, Login, Envelope, smQueued>>

RSET ==
    /\ Command
    /\ reset
    /\ UNCHANGED <<smAt, Connection, Login, smQueued>>

Greet ==
    /\ Command
    /\ reset
    /\ smGreeted' = TRUE /\ smExtended' \in BOOLEAN
    /\ UNCHANGED <<smAt, smSubmission, smTls, Login, smQueued>>

(* Everything but the failures is forgotten: the server's state before TLS ends. *)
StartTls ==
    /\ Command /\ smGreeted /\ smExtended /\ ~smTls /\ smSender = None
    /\ reset
    /\ smTls' = TRUE /\ smGreeted' = FALSE /\ smExtended' = FALSE
    /\ smUser' = None
    /\ UNCHANGED <<smAt, smSubmission, smChanged, smFailures, smQueued>>

TlsFails ==
    /\ Command /\ smGreeted /\ smExtended /\ ~smTls /\ smSender = None
    /\ smAt' = "closed"
    /\ UNCHANGED <<Connection, Login, Envelope, smQueued>>

(* AUTH on the public listener without TLS is allowed from loopback (may_auth). *)
AuthAvailable ==
    /\ Command /\ smGreeted /\ smExtended /\ smSender = None /\ smUser = None
    /\ smSubmission => smTls

Auth ==
    /\ AuthAvailable
    /\ smUser' \in Users
    /\ UNCHANGED <<smAt, Connection, smChanged, smFailures, Envelope, smQueued>>

(* Mutant: the limit of failed logins closes nothing. *)
NeverTired ==
    /\ AuthAvailable
    /\ smFailures' = smFailures + 1
    /\ UNCHANGED <<smAt, Connection, smUser, smChanged, Envelope, smQueued>>

(* Wrong, malformed or interrupted; a banned address is disconnected at once. *)
AuthFails ==
    /\ AuthAvailable
    /\ \/ /\ smFailures' = smFailures + 1
          /\ smAt' = IF smFailures' >= AuthLimit THEN "closed" ELSE smAt
       \/ smAt' = "closed" /\ UNCHANGED smFailures
    /\ UNCHANGED <<Connection, smUser, smChanged, Envelope, smQueued>>

Line(recipient, transaction) == [recipient |-> recipient, transaction |-> transaction, user |-> smUser]

(* Mutant: MAIL keeps the recipients of the transaction before. *)
MailKeepsRecipients ==
    /\ Command /\ smGreeted
    /\ smSubmission => smTls /\ smUser # None
    /\ smCurrent < MaxTransactions
    /\ smCurrent' = smCurrent + 1
    /\ smSender' \in Senders
    /\ smLines' = {Line(None, smCurrent + 1)}
    /\ UNCHANGED <<smAt, Connection, Login, smRecipients, smQueued>>

(* MAIL resets before its arguments are looked at. *)
Mail ==
    /\ Command /\ smGreeted
    /\ smSubmission => smTls /\ smUser # None
    /\ smCurrent < MaxTransactions
    /\ smCurrent' = smCurrent + 1
    /\ smSender' \in Senders
    /\ smRecipients' = {}
    /\ smLines' = {Line(None, smCurrent + 1)}
    /\ UNCHANGED <<smAt, Connection, Login, smQueued>>

MailRefused ==
    /\ smAt = "command"
    /\ reset
    /\ UNCHANGED <<smAt, Connection, Login, smQueued>>

(* A local recipient must exist; mail leaves the server for its users only, *)
(* without a relay as mail of its own domains.                              *)
RelayAllowed ==
    /\ smUser # None /\ OutboundMode # "disabled"
    /\ OutboundMode = "direct" => smSender \in Own

Rcpt ==
    /\ Command /\ smGreeted /\ smSender # None
    /\ Cardinality(smRecipients) < RecipientLimit
    /\ \E recipient \in Local \cup (IF RelayAllowed THEN Remote ELSE {}) :
         /\ smRecipients' = smRecipients \cup {recipient}
         /\ smLines' = smLines \cup {Line(recipient, smCurrent)}
    /\ UNCHANGED <<smAt, Connection, Login, smSender, smCurrent, smQueued>>

Data ==
    /\ Command /\ smGreeted /\ smSender # None /\ smRecipients # {}
    /\ smAt' = "data"
    /\ UNCHANGED <<Connection, Login, Envelope, smQueued>>

(* The message is complete: storage takes it, refuses it or cannot be reached; too large, it is not offered. *)
EndOfData ==
    /\ smAt = "data"
    /\ smAt' = "command"
    /\ \/ smQueued' = smQueued \cup {[sender |-> smSender, recipients |-> smRecipients, user |-> smUser,
                                      tls |-> smTls, transaction |-> smCurrent, lines |-> smLines]}
       \/ UNCHANGED smQueued
    /\ reset
    /\ UNCHANGED <<Connection, Login>>

(* Any other error inside a command; the connection goes on. *)
ServiceFails ==
    /\ smAt = "command"
    /\ reset
    /\ UNCHANGED <<smAt, Connection, Login, smQueued>>

(* QUIT, a lost connection, the data deadline, a framing error: nothing is queued. *)
Close ==
    /\ smAt # "closed"
    /\ smAt' = "closed"
    /\ UNCHANGED <<Connection, Login, Envelope, smQueued>>

(* External: the account's password is changed or the account deleted. *)
ChangeCredentials ==
    /\ smUser # None /\ ~smChanged
    /\ smChanged' = TRUE
    /\ UNCHANGED <<smAt, Connection, smUser, smFailures, Envelope, smQueued>>

SmtpNext ==
    \/ CredentialsChanged \/ RSET \/ Greet \/ StartTls \/ TlsFails \/ Auth \/ AuthFails
    \/ Mail \/ MailRefused \/ Rcpt \/ Data \/ EndOfData \/ ServiceFails \/ Close \/ ChangeCredentials

SmtpSpec == SmtpInit /\ [][SmtpNext]_smVars

-----------------------------------------------------------------------------
(* A queued message is one transaction: its sender and every recipient come  *)
(* from lines accepted in that transaction, under the identity it is queued  *)
(* with, over TLS on the submission listener; only a user's mail leaves for  *)
(* other domains, and without a relay only under a sender of this server     *)
(* (smtp, over any order of commands, failed logins, errors and upgrades).   *)
QueuedIsOneTransaction ==
    \A mail \in smQueued :
        /\ \A line \in mail.lines : line.transaction = mail.transaction /\ line.user = mail.user
        /\ \A r \in mail.recipients \cup {None} : \E line \in mail.lines : line.recipient = r
        /\ smSubmission => mail.user # None /\ mail.tls
        /\ mail.recipients \cap Remote # {} =>
              mail.user # None /\ (OutboundMode = "direct" => mail.sender \in Own)
=============================================================================
