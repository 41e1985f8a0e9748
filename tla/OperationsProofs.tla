-------------------------- MODULE OperationsProofs --------------------------
(***************************************************************************)
(* The parts of the installation around its mail: an SMTP connection, an    *)
(* attempt to deliver to another server, certificate jobs, backups, edits   *)
(* of the configuration, first-run setup, the AbuseIPDB client and the      *)
(* connections of a service.  For each, the invariant that every step keeps *)
(* and what follows from it; at the end, the parts side by side.            *)
(***************************************************************************)
EXTENDS MCOperations, RulesAndLogsProofs, FiniteSetTheorems, SequenceTheorems, TLAPS

-----------------------------------------------------------------------------
(*****************************************************************************)
(* An SMTP connection with any commands in any order, for any senders,       *)
(* recipients and limits.                                                    *)
(*****************************************************************************)

(* The envelope being built is one transaction of the present user. *)
EnvelopeIsCurrent ==
    /\ \A line \in smLines : line.transaction = smCurrent /\ line.user = smUser
    /\ smSender = None => smRecipients = {} /\ smLines = {}
    /\ smSender # None => \A r \in smRecipients \cup {None} : \E line \in smLines : line.recipient = r

(* Who may have built it. *)
EnvelopeIsAllowed ==
    /\ smSubmission /\ smSender # None => smUser # None /\ smTls
    /\ smRecipients \cap Remote # {} =>
          smUser # None /\ (OutboundMode = "direct" => smSender \in Own)
    /\ smAt = "data" => smSender # None

(* The connection is closed with the last failure it is allowed. *)
FailuresLeft == smAt # "closed" => smFailures < AuthLimit

SmtpInvariant == SmtpTypeOK /\ FailuresLeft /\ EnvelopeIsCurrent /\ EnvelopeIsAllowed /\ QueuedIsOneTransaction

(* What an ended transaction leaves of the envelope. *)
Emptied == smSender' = None /\ smRecipients' = {} /\ smLines' = {} /\ smCurrent' \in 1..MaxTransactions

-----------------------------------------------------------------------------
(* A new connection. *)
LEMMA SmtpInvariantInit == SmtpInit => SmtpInvariant
<1> SUFFICES ASSUME SmtpInit PROVE SmtpInvariant
  OBVIOUS
<1>1. SmtpTypeOK
  <2>1. smFailures \in 0..AuthLimit /\ smCurrent \in 1..MaxTransactions
    BY SmtpAssumption DEF SmtpInit
  <2>2. smLines \in SUBSET SmtpLine /\ smQueued \in SUBSET QueuedMail /\ smRecipients \in SUBSET Recipients
    BY DEF SmtpInit
  <2>3. /\ smSubmission \in BOOLEAN /\ smAt \in {"command", "data", "closed"}
        /\ smTls \in BOOLEAN /\ smGreeted \in BOOLEAN /\ smExtended \in BOOLEAN
        /\ smUser \in Users \cup {None} /\ smChanged \in BOOLEAN /\ smSender \in Senders \cup {None}
    BY DEF SmtpInit
  <2> QED BY <2>1, <2>2, <2>3 DEF SmtpTypeOK
<1>3. FailuresLeft
  BY SmtpAssumption DEF SmtpInit, FailuresLeft
<1>2. EnvelopeIsCurrent /\ EnvelopeIsAllowed /\ QueuedIsOneTransaction
  BY DEF SmtpInit, EnvelopeIsCurrent, EnvelopeIsAllowed, QueuedIsOneTransaction
<1> QED BY <1>1, <1>2, <1>3 DEF SmtpInvariant

(* reset ends the transaction. *)
LEMMA ResetEmpties ==
    ASSUME SmtpTypeOK, reset
    PROVE  Emptied
BY SmtpAssumption DEF SmtpTypeOK, reset, NewTransaction, Emptied

(* With nothing queued and the envelope emptied or kept, messages stay what they are. *)
LEMMA QueueKept ==
    ASSUME QueuedIsOneTransaction, UNCHANGED <<smQueued, smSubmission>>
    PROVE  QueuedIsOneTransaction'
BY DEF QueuedIsOneTransaction

(* An emptied envelope is current and allowed in every state but "data". *)
LEMMA EmptiedIsSound ==
    ASSUME Emptied, smAt' # "data"
    PROVE  EnvelopeIsCurrent' /\ EnvelopeIsAllowed'
BY DEF Emptied, EnvelopeIsCurrent, EnvelopeIsAllowed

(* The commands that end a transaction and queue nothing. *)
LEMMA TransactionEnds ==
    ASSUME SmtpInvariant, RSET \/ Greet \/ StartTls \/ MailRefused \/ ServiceFails
    PROVE  SmtpInvariant'
<1> USE DEF SmtpInvariant
<1>1. reset /\ smAt' = smAt /\ smAt = "command" /\ UNCHANGED <<smQueued, smSubmission>>
  BY DEF RSET, Greet, StartTls, MailRefused, ServiceFails, Connection, Login, Command
<1>2. Emptied
  BY <1>1, ResetEmpties
<1>3. /\ smTls' \in BOOLEAN /\ smGreeted' \in BOOLEAN /\ smExtended' \in BOOLEAN
      /\ smUser' \in Users \cup {None} /\ smChanged' \in BOOLEAN /\ smFailures' \in 0..AuthLimit
  BY DEF RSET, Greet, StartTls, MailRefused, ServiceFails, Connection, Login, SmtpTypeOK
<1>4. SmtpTypeOK'
  BY <1>1, <1>2, <1>3 DEF SmtpTypeOK, Emptied
<1>5. EnvelopeIsCurrent' /\ EnvelopeIsAllowed'
  BY <1>1, <1>2, EmptiedIsSound
<1>6. QueuedIsOneTransaction'
  BY <1>1, QueueKept
<1>7. FailuresLeft'
  BY <1>1 DEF RSET, Greet, StartTls, MailRefused, ServiceFails, Login, FailuresLeft
<1> QED BY <1>4, <1>5, <1>6, <1>7

(* The steps that leave the envelope, its user and the queue alone. *)
LEMMA EnvelopeUntouched ==
    ASSUME SmtpInvariant,
           CredentialsChanged \/ TlsFails \/ AuthFails \/ Data \/ Close \/ ChangeCredentials
    PROVE  SmtpInvariant'
<1> USE DEF SmtpInvariant
<1>1. UNCHANGED <<smSubmission, smTls, smUser, smSender, smRecipients, smCurrent, smLines, smQueued>>
  BY DEF CredentialsChanged, TlsFails, AuthFails, Data, Close, ChangeCredentials, Connection, Login, Envelope
<1>2. /\ smGreeted' \in BOOLEAN /\ smExtended' \in BOOLEAN /\ smChanged' \in BOOLEAN
      /\ smAt' \in {"command", "data", "closed"}
  BY DEF CredentialsChanged, TlsFails, AuthFails, Data, Close, ChangeCredentials, Connection, Login, SmtpTypeOK
<1>3. smFailures' \in 0..AuthLimit /\ FailuresLeft'
  <2>1. CASE AuthFails
    BY <2>1, SmtpAssumption DEF AuthFails, AuthAvailable, Command, SmtpTypeOK, FailuresLeft
  <2>2. CASE CredentialsChanged \/ TlsFails \/ Data \/ Close \/ ChangeCredentials
    BY <2>2 DEF CredentialsChanged, TlsFails, Data, Close, ChangeCredentials, Command, Login, SmtpTypeOK, FailuresLeft
  <2> QED BY <2>1, <2>2
<1>4. SmtpTypeOK'
  BY <1>1, <1>2, <1>3 DEF SmtpTypeOK
<1>5. smAt' = "data" => smSender # None
  BY DEF CredentialsChanged, TlsFails, AuthFails, Data, Close, ChangeCredentials, EnvelopeIsAllowed
<1>6. EnvelopeIsCurrent' /\ EnvelopeIsAllowed'
  BY <1>1, <1>5 DEF EnvelopeIsCurrent, EnvelopeIsAllowed
<1>7. QueuedIsOneTransaction'
  BY <1>1, QueueKept
<1> QED BY <1>3, <1>4, <1>6, <1>7

(* AUTH finds no envelope that was begun before it. *)
LEMMA AuthKeeps ==
    ASSUME SmtpInvariant, Auth
    PROVE  SmtpInvariant'
<1> USE DEF SmtpInvariant
<1>1. /\ smSender = None /\ smUser' \in Users /\ smAt = "command"
      /\ UNCHANGED <<smAt, smSubmission, smTls, smGreeted, smExtended, smChanged, smFailures, smSender,
                     smRecipients, smCurrent, smLines, smQueued>>
  BY DEF Auth, AuthAvailable, Command, Connection, Envelope
<1>2. SmtpTypeOK'
  BY <1>1 DEF SmtpTypeOK
<1>3. EnvelopeIsCurrent' /\ EnvelopeIsAllowed'
  BY <1>1 DEF EnvelopeIsCurrent, EnvelopeIsAllowed
<1>4. QueuedIsOneTransaction'
  BY <1>1, QueueKept
<1> QED BY <1>1, <1>2, <1>3, <1>4 DEF FailuresLeft

(* MAIL begins the envelope with its own line. *)
LEMMA MailKeeps ==
    ASSUME SmtpInvariant, Mail
    PROVE  SmtpInvariant'
<1> USE DEF SmtpInvariant
<1> DEFINE line == Line(None, smCurrent + 1)
<1>1. /\ smSubmission => smTls /\ smUser # None
      /\ smCurrent < MaxTransactions /\ smCurrent' = smCurrent + 1
      /\ smSender' \in Senders /\ smRecipients' = {} /\ smLines' = {line}
      /\ smAt = "command"
      /\ UNCHANGED <<smAt, smSubmission, smTls, smGreeted, smExtended, smUser, smChanged, smFailures, smQueued>>
  BY DEF Mail, Command, Connection, Login
<1>2. smCurrent' \in 1..MaxTransactions
  BY <1>1, SmtpAssumption DEF SmtpTypeOK
<1>3. line \in [recipient : Recipients \cup {None}, transaction : 1..MaxTransactions, user : Users \cup {None}]
  BY <1>1, <1>2 DEF Line, SmtpTypeOK
<1>4. line.transaction = smCurrent' /\ line.user = smUser' /\ line.recipient = None
  BY <1>1 DEF Line
<1>5. smSender' # None
  BY <1>1, SmtpAssumption DEF None
<1> HIDE DEF line
<1>6. SmtpTypeOK'
  BY <1>1, <1>2, <1>3 DEF SmtpTypeOK, SmtpLine
<1>7. EnvelopeIsCurrent' /\ EnvelopeIsAllowed'
  BY <1>1, <1>4, <1>5 DEF EnvelopeIsCurrent, EnvelopeIsAllowed
<1>8. QueuedIsOneTransaction'
  BY <1>1, QueueKept
<1> QED BY <1>1, <1>6, <1>7, <1>8 DEF FailuresLeft

(* RCPT adds a line of the same transaction and user. *)
LEMMA RcptKeeps ==
    ASSUME SmtpInvariant, Rcpt
    PROVE  SmtpInvariant'
<1> USE DEF SmtpInvariant
<1>1. /\ smSender # None /\ smAt = "command"
      /\ UNCHANGED <<smAt, smSubmission, smTls, smGreeted, smExtended, smUser, smChanged, smFailures,
                     smSender, smCurrent, smQueued>>
  BY DEF Rcpt, Command, Connection, Login
<1>2. PICK recipient \in Local \cup (IF RelayAllowed THEN Remote ELSE {}) :
        /\ smRecipients' = smRecipients \cup {recipient}
        /\ smLines' = smLines \cup {Line(recipient, smCurrent)}
  BY DEF Rcpt
<1> DEFINE line == Line(recipient, smCurrent)
<1>3. recipient \in Recipients
  BY <1>2 DEF Recipients
<1>4. line \in SmtpLine /\ line.transaction = smCurrent /\ line.user = smUser /\ line.recipient = recipient
  BY <1>3 DEF Line, SmtpLine, SmtpTypeOK
<1>5. smLines' = smLines \cup {line}
  BY <1>2
<1> HIDE DEF line
<1>6. SmtpTypeOK'
  BY <1>1, <1>2, <1>3, <1>4, <1>5 DEF SmtpTypeOK
<1>7. EnvelopeIsCurrent'
  BY <1>1, <1>2, <1>4, <1>5 DEF EnvelopeIsCurrent
<1>8. EnvelopeIsAllowed'
  <2>1. CASE RelayAllowed
    BY <1>1, <1>2, <2>1 DEF EnvelopeIsAllowed, RelayAllowed
  <2>2. CASE ~RelayAllowed
    <3>1. recipient \in Local
      BY <1>2, <2>2
    <3>2. smRecipients' \cap Remote # {} => smUser # None /\ (OutboundMode = "direct" => smSender \in Own)
      BY <1>2, <3>1, SmtpAssumption DEF EnvelopeIsAllowed
    <3> QED BY <1>1, <3>2 DEF EnvelopeIsAllowed
  <2> QED BY <2>1, <2>2
<1>9. QueuedIsOneTransaction'
  BY <1>1, QueueKept
<1> QED BY <1>1, <1>6, <1>7, <1>8, <1>9 DEF FailuresLeft

(* The end of DATA queues the envelope as it is. *)
LEMMA EndOfDataKeeps ==
    ASSUME SmtpInvariant, EndOfData
    PROVE  SmtpInvariant'
<1> USE DEF SmtpInvariant
<1> DEFINE mail == [sender |-> smSender, recipients |-> smRecipients, user |-> smUser,
                    tls |-> smTls, transaction |-> smCurrent, lines |-> smLines]
<1>1. /\ smAt = "data" /\ smAt' = "command" /\ reset
      /\ smQueued' = smQueued \cup {mail} \/ smQueued' = smQueued
      /\ UNCHANGED <<smSubmission, smTls, smGreeted, smExtended, smUser, smChanged, smFailures>>
  BY DEF EndOfData, Connection, Login
<1>2. Emptied
  BY <1>1, ResetEmpties
<1>3. smSender # None
  BY <1>1 DEF EnvelopeIsAllowed
<1>4. mail \in QueuedMail
  BY <1>3 DEF SmtpTypeOK, QueuedMail
<1>5. /\ \A line \in mail.lines : line.transaction = mail.transaction /\ line.user = mail.user
      /\ \A r \in mail.recipients \cup {None} : \E line \in mail.lines : line.recipient = r
      /\ smSubmission => mail.user # None /\ mail.tls
      /\ mail.recipients \cap Remote # {} =>
            mail.user # None /\ (OutboundMode = "direct" => mail.sender \in Own)
  BY <1>3 DEF EnvelopeIsCurrent, EnvelopeIsAllowed
<1> HIDE DEF mail
<1>6. SmtpTypeOK'
  BY <1>1, <1>2, <1>4 DEF SmtpTypeOK, Emptied
<1>7. EnvelopeIsCurrent' /\ EnvelopeIsAllowed'
  BY <1>1, <1>2, EmptiedIsSound
<1>8. QueuedIsOneTransaction'
  BY <1>1, <1>5 DEF QueuedIsOneTransaction
<1> QED BY <1>1, <1>6, <1>7, <1>8 DEF FailuresLeft

-----------------------------------------------------------------------------
(* Every step keeps the invariant. *)
LEMMA SmtpInvariantStep == SmtpInvariant /\ [SmtpNext]_smVars => SmtpInvariant'
<1> SUFFICES ASSUME SmtpInvariant, [SmtpNext]_smVars PROVE SmtpInvariant'
  OBVIOUS
<1>1. CASE SmtpNext
  BY <1>1, TransactionEnds, EnvelopeUntouched, AuthKeeps, MailKeeps, RcptKeeps, EndOfDataKeeps, Zenon DEF SmtpNext
<1>2. CASE UNCHANGED smVars
  BY <1>2 DEF smVars, SmtpInvariant, SmtpTypeOK, FailuresLeft, EnvelopeIsCurrent, EnvelopeIsAllowed, QueuedIsOneTransaction
<1> QED BY <1>1, <1>2

(* Whatever a client sends, in any order: a queued message is one transaction *)
(* of one identity, and mail leaves the server only as the session's user may. *)
THEOREM TransactionsAreWhole == SmtpSpec => []QueuedIsOneTransaction
<1>1. SmtpInvariant => QueuedIsOneTransaction
  BY DEF SmtpInvariant
<1> QED BY SmtpInvariantInit, SmtpInvariantStep, <1>1, PTL DEF SmtpSpec

(* The session's variables keep their types. *)
THEOREM SmtpTypes == SmtpSpec => []SmtpTypeOK
<1>1. SmtpInvariant => SmtpTypeOK
  BY DEF SmtpInvariant
<1> QED BY SmtpInvariantInit, SmtpInvariantStep, <1>1, PTL DEF SmtpSpec

-----------------------------------------------------------------------------
(*****************************************************************************)
(* An attempt to deliver to another server, for any set of destinations      *)
(* and any limit of attempts.                                                *)
(*****************************************************************************)

(* Until the attempt has ended nothing was taken and no upgrade failed; a direct *)
(* attempt that may have been taken says so.                                   *)
ResultsByAt ==
    /\ obAt # "ended" => obResult = "none" /\ obTaken = {} /\ obRefused = {}
    /\ obResult = "delivered" => obTaken # {}
    /\ obMode \in Direct /\ obTaken # {} => obResult \in {"delivered", "delivery_unknown"}

(* In the modes that demand TLS the envelope is not reached without it. *)
EncryptedBeforeEnvelope ==
    obMode \in {"direct_required", "relay_starttls", "relay_implicit"} /\
    obAt \in {"AUTH", "MAIL FROM", "RCPT TO", "DATA", "final DATA"} => obEncrypted

(* The relay by implicit TLS is encrypted from its first line. *)
ImplicitTls == obMode = "relay_implicit" /\ obAt \in Dialog => obEncrypted

OutboundInvariant ==
    /\ OutboundTypeOK
    /\ ResultsByAt
    /\ \A a, b \in obTaken : a = b
    /\ EncryptedBeforeEnvelope
    /\ ImplicitTls
    /\ NeverDowngraded

-----------------------------------------------------------------------------
(* The attempt begins with nothing given away. *)
LEMMA OutboundInvariantInit == OutboundInit => OutboundInvariant
<1> SUFFICES ASSUME OutboundInit PROVE OutboundInvariant
  OBVIOUS
<1> USE DEF OutboundInit
<1>1. OutboundTypeOK
  <2>1. obMode \in Direct \cup Relay /\ obAt \in Dialog \cup {"next", "ended"} /\ obHost \in Hosts
    BY DEF Hosts
  <2>2. obUntried \in SUBSET Destinations /\ obTried \in 0..Attempts
    BY OutboundAssumption
  <2>3. obEncrypted \in BOOLEAN /\ obResult \in Results
    BY DEF Results
  <2>4. obTaken \in SUBSET Hosts /\ obRefused \in SUBSET Hosts /\ obClear \in SUBSET [host : Hosts, refused : SUBSET Hosts]
    OBVIOUS
  <2> QED BY <2>1, <2>2, <2>3, <2>4 DEF OutboundTypeOK
<1>2. ResultsByAt /\ (\A a, b \in obTaken : a = b)
  BY DEF ResultsByAt
<1>3. EncryptedBeforeEnvelope /\ ImplicitTls /\ NeverDowngraded
  BY DEF EncryptedBeforeEnvelope, ImplicitTls, NeverDowngraded, Dialog
<1> QED BY <1>1, <1>2, <1>3 DEF OutboundInvariant

(* The steps between destinations. *)
LEMMA BetweenDestinations ==
    ASSUME OutboundInvariant, ConnectNext \/ GivesUp \/ Undeliverable
    PROVE  OutboundInvariant'
<1> USE OutboundAssumption DEF OutboundInvariant, OutboundTypeOK, ResultsByAt, EncryptedBeforeEnvelope,
       ImplicitTls, NeverDowngraded, Direct, Relay, Dialog, Results, Hosts, History, Tries
<1>1. CASE ConnectNext
  <2>1. /\ obAt = "next" /\ obAt' = "greeting" /\ obHost' \in obUntried /\ obTried' = obTried + 1
        /\ obTried < Attempts /\ obEncrypted' = (obMode = "relay_implicit")
        /\ UNCHANGED <<obMode, obResult, obTaken, obRefused, obClear>>
    BY <1>1 DEF ConnectNext
  <2>2. obUntried' \in SUBSET Destinations /\ obTried' \in 0..Attempts
    BY <1>1, <2>1 DEF ConnectNext
  <2>3. OutboundTypeOK'
    BY <2>1, <2>2
  <2>4. EncryptedBeforeEnvelope' /\ ImplicitTls'
    BY <2>1
  <2> QED BY <2>1, <2>3, <2>4
<1>2. CASE GivesUp
  BY <1>2 DEF GivesUp, Ends
<1>3. CASE Undeliverable
  BY <1>3 DEF Undeliverable, Ends
<1> QED BY <1>1, <1>2, <1>3

(* The steps before the envelope: greeting, EHLO, the upgrade, the login at a relay. *)
LEMMA BeforeEnvelope ==
    ASSUME OutboundInvariant, Greeting \/ Ehlo \/ Upgraded \/ UpgradeFails \/ RelayLogin \/ PasswordInvalid
    PROVE  OutboundInvariant'
<1> USE DEF OutboundInvariant, OutboundTypeOK, ResultsByAt, EncryptedBeforeEnvelope,
       ImplicitTls, NeverDowngraded, Direct, Relay, Dialog, Results, Hosts, History, Tries
<1>1. CASE Greeting
  BY <1>1 DEF Greeting, Proceeds
<1>2. CASE Ehlo
  <2>1. PICK offered \in BOOLEAN :
           IF Upgrade(offered) = "refused" THEN Fails ELSE Proceeds(Upgrade(offered))
    BY <1>2 DEF Ehlo
  <2>2. /\ Upgrade(offered) \in {"AUTH", "STARTTLS", "MAIL FROM", "refused"}
        /\ Upgrade(offered) = "MAIL FROM" => obMode = "direct_starttls"
        /\ Upgrade(offered) = "AUTH" => obMode \in {"relay_implicit", "relay_none"}
    BY DEF Upgrade
  <2>3. obAt = "EHLO" /\ UNCHANGED <<obEncrypted, obTaken, obRefused, obClear>>
    BY <1>2 DEF Ehlo
  <2>4. CASE Upgrade(offered) = "refused"
    BY <2>1, <2>3, <2>4 DEF Fails, Proceeds, Ends
  <2>5. CASE Upgrade(offered) # "refused"
    BY <2>1, <2>2, <2>3, <2>5 DEF Proceeds
  <2> QED BY <2>4, <2>5
<1>3. CASE Upgraded
  BY <1>3 DEF Upgraded, Proceeds
<1>4. CASE UpgradeFails
  BY <1>4 DEF UpgradeFails, Ends
<1>5. CASE RelayLogin
  BY <1>5 DEF RelayLogin, Proceeds
<1>6. CASE PasswordInvalid
  BY <1>6 DEF PasswordInvalid, Ends
<1> QED BY <1>1, <1>2, <1>3, <1>4, <1>5, <1>6

(* The envelope and the message. *)
LEMMA EnvelopeAndMessage ==
    ASSUME OutboundInvariant, GivesEnvelope \/ Accepted \/ TemporaryFailure \/ Rejected
    PROVE  OutboundInvariant'
<1> USE DEF OutboundInvariant, OutboundTypeOK, ResultsByAt, EncryptedBeforeEnvelope,
       ImplicitTls, NeverDowngraded, Direct, Relay, Dialog, Results, Hosts, History, Tries
<1>1. CASE GivesEnvelope
  <2>1. /\ obAt = "MAIL FROM" /\ obAt' = "RCPT TO"
        /\ UNCHANGED <<obMode, obHost, obUntried, obTried, obResult, obEncrypted, obTaken, obRefused>>
    BY <1>1 DEF GivesEnvelope, Proceeds
  <2>2. obRefused = {} /\ (~obEncrypted => obMode \in {"direct_starttls", "relay_none"})
    BY <2>1
  <2> DEFINE given == [host |-> obHost, refused |-> obRefused]
  <2>3. given \in [host : Hosts, refused : SUBSET Hosts] /\ given.refused = {}
    BY <2>2
  <2>4. obClear' = obClear \/ (obClear' = obClear \cup {given} /\ ~obEncrypted)
    BY <1>1 DEF GivesEnvelope
  <2> HIDE DEF given
  <2>5. obClear' \in SUBSET [host : Hosts, refused : SUBSET Hosts]
    BY <2>3, <2>4
  <2>6. \A x \in obClear' : x.refused = {} /\ obMode \in {"direct_starttls", "relay_none"}
    BY <2>2, <2>3, <2>4
  <2>7. NeverDowngraded'
    BY <2>1, <2>6
  <2>8. OutboundTypeOK'
    BY <2>1, <2>5
  <2> QED BY <2>1, <2>7, <2>8
<1>2. CASE Accepted
  BY <1>2 DEF Accepted, Proceeds
<1>3. CASE TemporaryFailure
  BY <1>3 DEF TemporaryFailure, Fails, Proceeds, Ends
<1>4. CASE Rejected
  BY <1>4 DEF Rejected, Ends
<1> QED BY <1>1, <1>2, <1>3, <1>4

(* The answer to the final dot, and a relay's reply that cannot be read. *)
LEMMA FinalAnswer ==
    ASSUME OutboundInvariant, Postponed \/ Delivered \/ AnswerLost \/ UnreadableReply
    PROVE  OutboundInvariant'
<1> USE DEF OutboundInvariant, OutboundTypeOK, ResultsByAt, EncryptedBeforeEnvelope,
       ImplicitTls, NeverDowngraded, Direct, Relay, Dialog, Results, Hosts, History, Tries
<1>1. CASE Postponed
  BY <1>1 DEF Postponed, Fails, Proceeds, Ends
<1>2. CASE Delivered
  BY <1>2 DEF Delivered, Ends
<1>3. CASE AnswerLost
  BY <1>3 DEF AnswerLost, Ends
<1>4. CASE UnreadableReply
  <2>1. /\ obMode \in Relay /\ obAt \in Dialog /\ obTaken = {} /\ obRefused = {}
        /\ obAt' = "ended" /\ obResult' = "permanent" /\ obTaken' \in {{}, {obHost}}
        /\ obRefused' \in {{}, {obHost}}
        /\ UNCHANGED <<obMode, obHost, obUntried, obTried, obEncrypted, obClear>>
    BY <1>4 DEF UnreadableReply, Ends
  <2>2. OutboundTypeOK'
    BY <2>1
  <2> QED BY <2>1, <2>2
<1> QED BY <1>1, <1>2, <1>3, <1>4

(* Every step keeps the invariant. *)
LEMMA OutboundInvariantStep == OutboundInvariant /\ [OutboundNext]_obVars => OutboundInvariant'
<1> SUFFICES ASSUME OutboundInvariant, [OutboundNext]_obVars PROVE OutboundInvariant'
  OBVIOUS
<1>1. CASE OutboundNext
  BY <1>1, BetweenDestinations, BeforeEnvelope, EnvelopeAndMessage, FinalAnswer, Zenon DEF OutboundNext
<1>2. CASE UNCHANGED obVars
  BY <1>2 DEF obVars, OutboundInvariant, OutboundTypeOK, ResultsByAt, EncryptedBeforeEnvelope,
       ImplicitTls, NeverDowngraded
<1> QED BY <1>1, <1>2

(* An attempt over any number of destinations: one of them takes the message *)
(* at most, a direct attempt never reports as failed or deferred what one may *)
(* have taken (deliver_direct), and the envelope is never given in the clear   *)
(* after an upgrade failed or where TLS is demanded.                         *)
THEOREM AttemptsAreSafe == OutboundSpec => []AttemptIsSafe
<1>1. OutboundInvariant => AttemptIsSafe
  BY DEF OutboundInvariant, AttemptIsSafe, TakenOnce, ResultsByAt
<1> QED BY OutboundInvariantInit, OutboundInvariantStep, <1>1, PTL DEF OutboundSpec

(* The attempt's variables keep their types. *)
THEOREM OutboundTypes == OutboundSpec => []OutboundTypeOK
<1>1. OutboundInvariant => OutboundTypeOK
  BY DEF OutboundInvariant
<1> QED BY OutboundInvariantInit, OutboundInvariantStep, <1>1, PTL DEF OutboundSpec

-----------------------------------------------------------------------------
(*****************************************************************************)
(* Certificate jobs: one at a time, each with its own challenge, key and     *)
(* certificate, for any number of jobs.                                      *)
(*****************************************************************************)

(* One thread works at a time: that of the job the manager reports, or none could be started for it. *)
OneWorker ==
    /\ acState.job = acJobs
    /\ \A j \in Jobs : acWorker[j] # "none" => j = acJobs
    /\ acJobs = 0 => acState.at = "idle"
    /\ acJobs # 0 => IF acWorker[acJobs] \in Stages THEN acState.at \in Stages
                      ELSE acState.at \in Terminal \/ (acWorker[acJobs] = "none" /\ acState.at = "queued")

(* The next job is not prepared, nor the flag set, on behalf of another job. *)
ControlIsCurrent ==
    /\ acControl = "start" => acJobs < MaxJobs /\ acState.at \in {"idle"} \cup Terminal
    /\ acControl = "cancel" \/ acCancelled => acJobs \in acAsked

(* What the worker has done when it is at a stage. *)
StageIsEarned ==
    \A j \in Jobs :
        /\ acWorker[j] = "authorizing" => j \in acChallenges
        /\ acWorker[j] \in {"key", "certificate"} => <<j, "private-key.pem">> \in acFiles
        /\ acWorker[j] = "certificate" => <<j, "fullchain.pem">> \in acFiles

AcmeInvariant == AcmeTypeOK /\ OneWorker /\ ControlIsCurrent /\ StageIsEarned /\ JobsKeepApart

LEMMA AcmeInvariantInit == AcmeInit => AcmeInvariant
<1> SUFFICES ASSUME AcmeInit PROVE AcmeInvariant
  OBVIOUS
<1>1. AcmeTypeOK
  BY DEF AcmeInit, AcmeTypeOK, NoJob
<1>2. OneWorker /\ ControlIsCurrent /\ StageIsEarned /\ JobsKeepApart
  BY DEF AcmeInit, OneWorker, ControlIsCurrent, StageIsEarned, JobsKeepApart, NoJob
<1> QED BY <1>1, <1>2 DEF AcmeInvariant

(* start and cancel: a job begins alone, and is cancelled on request. *)
LEMMA ControlKeeps ==
    ASSUME AcmeInvariant, Start \/ Started \/ NoThread \/ Cancel \/ Cancelled
    PROVE  AcmeInvariant'
<1> USE DEF AcmeInvariant, AcmeTypeOK, OneWorker, ControlIsCurrent, StageIsEarned, JobsKeepApart
<1>1. CASE Start
  BY <1>1 DEF Start
<1>2. CASE Started
  <2>1. acJobs' = acJobs + 1 /\ acJobs \in Nat /\ acJobs' \in Jobs
    BY <1>2, AcmeAssumption DEF Started, NextJob, Jobs
  <2>2. /\ acWorker \in [Jobs -> {"none", "ended"} \cup Stages]
        /\ acWorker' = [acWorker EXCEPT ![acJobs'] = "queued"]
        /\ acState' = [job |-> acJobs', at |-> "queued"]
    BY <1>2 DEF Started, NextJob
  <2>3. acWorker'[acJobs'] = "queued" /\ \A j \in Jobs : j # acJobs' => acWorker'[j] = "none"
    BY <1>2, <2>1, <2>2 DEF Started, NextJob, joined
  <2>4. AcmeTypeOK'
    <3>1. acState' \in [job : Jobs \cup {NoJob}, at : {"idle"} \cup Stages \cup Terminal]
      BY <2>1, <2>2 DEF Stages
    <3>2. acWorker' \in [Jobs -> {"none", "ended"} \cup Stages]
      BY <2>1, <2>2 DEF Stages
    <3> QED BY <1>2, <2>1, <3>1, <3>2 DEF Started, NextJob
  <2>5. OneWorker'
    BY <2>1, <2>2, <2>3 DEF Stages
  <2>6. ControlIsCurrent' /\ StageIsEarned' /\ JobsKeepApart'
    BY <1>2, <2>1, <2>2, <2>3 DEF Started, NextJob
  <2> QED BY <2>4, <2>5, <2>6
<1>3. CASE Cancel
  BY <1>3 DEF Cancel, NoJob
<1>4. CASE Cancelled
  BY <1>4 DEF Cancelled
<1>5. CASE NoThread
  <2>1. acJobs' = acJobs + 1 /\ acJobs \in Nat /\ acJobs' \in Jobs
    BY <1>5, AcmeAssumption DEF NoThread, NextJob, Jobs
  <2>2. /\ acState' = [job |-> acJobs', at |-> "queued"] /\ acWorker' = acWorker
        /\ acControl' = "none" /\ acCancelled' = FALSE /\ acChallenges' = {} /\ UNCHANGED <<acFiles, acAsked>>
    BY <1>5 DEF NoThread, NextJob
  <2>3. \A j \in Jobs : acWorker'[j] = "none"
    BY <1>5, <2>2 DEF NoThread, NextJob, joined
  <2>4. acState' \in [job : Jobs \cup {NoJob}, at : {"idle"} \cup Stages \cup Terminal]
    BY <2>1, <2>2 DEF Stages
  <2>5. AcmeTypeOK'
    BY <2>1, <2>2, <2>4
  <2>6. OneWorker' /\ ControlIsCurrent' /\ StageIsEarned' /\ JobsKeepApart'
    BY <2>1, <2>2, <2>3 DEF Stages, Terminal
  <2> QED BY <2>5, <2>6
<1> QED BY <1>1, <1>2, <1>3, <1>4, <1>5

(* The worker, at any stage. *)
LEMMA IssueKeeps ==
    ASSUME AcmeInvariant, NEW j \in Jobs, IssueStep(j)
    PROVE  AcmeInvariant'
<1> USE DEF AcmeInvariant, AcmeTypeOK, OneWorker, ControlIsCurrent, StageIsEarned, JobsKeepApart
<1>1. UNCHANGED <<acCancelled, acControl, acJobs, acAsked>>
  BY DEF IssueStep
<1>2. acWorker[j] # "none" => j = acJobs /\ j # 0
  BY DEF Jobs
<1>3. ASSUME NEW from \in {"queued", "connecting", "authorized", "finalizing", "downloading"},
             NEW to \in {"connecting", "ordering", "finalizing", "downloading", "issued"},
             Enters(j, from, to), UNCHANGED <<acFiles, acChallenges>>
      PROVE  AcmeInvariant'
  BY <1>1, <1>2, <1>3 DEF Enters, Stages, Terminal
<1>4. CASE (Authorize(j) \/ Authorized(j)) /\ UNCHANGED acFiles
  <2>1. CASE Authorize(j)
    BY <1>1, <1>2, <1>4, <2>1 DEF Authorize, Enters, Stages, Terminal
  <2>2. CASE Authorized(j)
    BY <1>1, <1>2, <1>4, <2>2 DEF Authorized, Enters, Stages, Terminal
  <2> QED BY <1>4, <2>1, <2>2
<1>8. CASE (ReachAuthority(j) \/ Order(j) \/ Finalize(j) \/ Download(j) \/ Issue(j)) /\ UNCHANGED acFiles
  <2>1. CASE ReachAuthority(j) BY <1>3, <1>8, <2>1 DEF ReachAuthority
  <2>2. CASE Order(j) BY <1>3, <1>8, <2>2 DEF Order
  <2>3. CASE Finalize(j) BY <1>3, <1>8, <2>3 DEF Finalize
  <2>4. CASE Download(j) BY <1>3, <1>8, <2>4 DEF Download
  <2>5. CASE Issue(j) BY <1>3, <1>8, <2>5 DEF Issue
  <2> QED BY <1>8, <2>1, <2>2, <2>3, <2>4, <2>5
<1>5. CASE ClearChallenges(j) /\ UNCHANGED acFiles
  BY <1>1, <1>2, <1>5 DEF ClearChallenges, Stages, Terminal
<1>6. CASE (WriteFile(j, "issued", "private-key.pem", "key") \/ WriteFile(j, "key", "fullchain.pem", "certificate"))
           /\ UNCHANGED acChallenges
  BY <1>1, <1>2, <1>6 DEF WriteFile, Stages, Terminal
<1>7. CASE (Succeed(j) \/ GiveUp(j) \/ Failed(j)) /\ UNCHANGED acChallenges
  <2>1. acWorker[j] \in Stages /\ acWorker' = [acWorker EXCEPT ![j] = "ended"]
    BY <1>7 DEF Succeed, GiveUp, Failed, EndsIn, Working, Stages
  <2>2. CASE Succeed(j)
    <3>1. <<j, "private-key.pem">> \in acFiles /\ <<j, "fullchain.pem">> \in acFiles
      BY <2>2 DEF Succeed
    <3>2. {j} \X {"private-key.pem", "fullchain.pem"} \subseteq acFiles
      BY <3>1
    <3> QED BY <1>1, <1>2, <1>7, <2>1, <2>2, <3>2 DEF Succeed, EndsIn, Stages, Terminal
  <2>3. CASE GiveUp(j)
    BY <1>1, <1>2, <1>7, <2>1, <2>3 DEF GiveUp, EndsIn, Stages, Terminal
  <2>4. CASE Failed(j)
    BY <1>1, <1>2, <1>7, <2>1, <2>4 DEF Failed, EndsIn, Stages, Terminal
  <2> QED BY <1>7, <2>2, <2>3, <2>4
<1> QED BY <1>4, <1>5, <1>6, <1>7, <1>8 DEF IssueStep

LEMMA AcmeInvariantStep == AcmeInvariant /\ [AcmeNext]_acVars => AcmeInvariant'
<1>1. AcmeInvariant /\ UNCHANGED acVars => AcmeInvariant'
  BY DEF acVars, AcmeInvariant, AcmeTypeOK, OneWorker, ControlIsCurrent, StageIsEarned, JobsKeepApart
<1> QED BY <1>1, ControlKeeps, IssueKeeps DEF AcmeNext

(* Whatever administrators ask while jobs begin and end: a cancellation stops *)
(* no other job, a challenge stays published while it is needed, and success  *)
(* means both files (AcmeManager).                                           *)
THEOREM CertificateJobsKeepApart == AcmeSpec => []JobsKeepApart
<1>1. AcmeInvariant => JobsKeepApart
  BY DEF AcmeInvariant
<1> QED BY AcmeInvariantInit, AcmeInvariantStep, <1>1, PTL DEF AcmeSpec

(* A certificate job's variables keep their types (AcmeManager). *)
THEOREM AcmeTypes == AcmeSpec => []AcmeTypeOK
<1>1. AcmeInvariant => AcmeTypeOK BY DEF AcmeInvariant
<1> QED BY <1>1, AcmeInvariantInit, AcmeInvariantStep, PTL DEF AcmeSpec

-----------------------------------------------------------------------------
(*****************************************************************************)
(* A backup: the two databases and the configuration of one moment, for any  *)
(* number of backups and changes.                                            *)
(*****************************************************************************)

(* The databases and the configuration were once together as in this copy. *)
Pinned(config) == [storage |-> bkPinned["storage"], auth |-> bkPinned["auth"], config |-> config]

(* While both writers are locked out, what is pinned is what the databases contain. *)
PinsAreCurrent ==
    /\ bkJob = "lockAuth" => "storage" \in bkLocked
    /\ bkJob \in {"pinStorage", "pinAuth", "release"} => bkLocked = Databases
    /\ bkJob \in {"pinAuth", "release"} => bkPinned["storage"] = bkVersion.storage
    /\ bkJob = "release" => bkPinned["auth"] = bkVersion.auth

(* Afterwards the pair belongs to a moment after the configuration was read. *)
PinsAreAMoment ==
    /\ bkJob \in RunningAt \ {"reading"} => bkConfig <= bkVersion.config
    /\ bkJob \in {"copyStorage", "copyAuth", "compare"} =>
         \E config \in bkConfig..bkVersion.config : Pinned(config) \in bkMoments
    /\ bkJob = "archive" => Pinned(bkConfig) \in bkMoments

CopiesAreOfPins ==
    /\ bkJob \in {"copyAuth", "compare", "archive"} => bkCopy.storage = bkPinned["storage"]
    /\ bkJob \in {"compare", "archive"} => bkCopy.auth = bkPinned["auth"]

BackupInvariant ==
    /\ BackupTypeOK /\ bkVersion \in bkMoments
    /\ PinsAreCurrent /\ PinsAreAMoment /\ CopiesAreOfPins /\ BackupIsOneInstant

LEMMA BackupInvariantInit == BackupInit => BackupInvariant
<1> SUFFICES ASSUME BackupInit PROVE BackupInvariant
  OBVIOUS
<1>1. bkVersion \in Copies /\ bkCopy \in Copies
  BY DEF BackupInit, Copies, NoArchive
<1>2. bkPinned \in [Databases -> Nat]
  BY DEF BackupInit, Nothing
<1>3. BackupTypeOK
  <2>1. bkMoments \subseteq Copies /\ bkJobs \in 0..MaxBackups
    BY <1>1, BackupAssumption DEF BackupInit
  <2>2. bkLocked \subseteq Databases /\ bkDownloads \subseteq Copies
    BY DEF BackupInit
  <2> QED BY <1>1, <1>2, <2>1, <2>2 DEF BackupInit, BackupTypeOK
<1>4. bkVersion \in bkMoments /\ PinsAreCurrent /\ PinsAreAMoment /\ CopiesAreOfPins /\ BackupIsOneInstant
  BY DEF BackupInit, PinsAreCurrent, PinsAreAMoment, CopiesAreOfPins, BackupIsOneInstant, RunningAt
<1> QED BY <1>3, <1>4 DEF BackupInvariant

(* Versions only grow, and each is a moment: what was pinned earlier stays one. *)
LEMMA WritesKeep ==
    ASSUME BackupInvariant, Commit("storage") \/ Commit("auth") \/ EditConfiguration
    PROVE  BackupInvariant'
<1> USE DEF BackupInvariant
<1>1. /\ bkMoments' = bkMoments \cup {bkVersion'}
      /\ UNCHANGED <<bkLocked, bkPinned, bkCopy, bkJob, bkConfig, bkJobs, bkDownloads, bkStopping>>
  BY DEF Commit, EditConfiguration
<1>2. bkVersion' \in Copies /\ bkVersion.config <= bkVersion'.config
  BY DEF Commit, EditConfiguration, BackupTypeOK, Copies
<1>3. BackupTypeOK'
  BY <1>1, <1>2 DEF BackupTypeOK
<1>4. PinsAreCurrent'
  <2>1. CASE Commit("storage")
    BY <1>1, <2>1 DEF Commit, PinsAreCurrent, Databases, BackupTypeOK, Copies
  <2>2. CASE Commit("auth")
    BY <1>1, <2>2 DEF Commit, PinsAreCurrent, Databases, BackupTypeOK, Copies
  <2>3. CASE EditConfiguration
    BY <1>1, <2>3 DEF EditConfiguration, PinsAreCurrent, BackupTypeOK, Copies
  <2> QED BY <2>1, <2>2, <2>3
<1>5. PinsAreAMoment'
  BY <1>1, <1>2 DEF PinsAreAMoment, Pinned, BackupTypeOK, Copies
<1>6. CopiesAreOfPins' /\ BackupIsOneInstant' /\ bkVersion' \in bkMoments'
  BY <1>1 DEF CopiesAreOfPins, BackupIsOneInstant
<1> QED BY <1>3, <1>4, <1>5, <1>6

(* The steps of the backup up to the release of the writers. *)
LEMMA PinningKeeps ==
    ASSUME BackupInvariant,
           \/ StartBackup \/ ReadConfiguration
           \/ Lock("lockStorage", "storage", "lockAuth") \/ Lock("lockAuth", "auth", "pinStorage")
           \/ Pin("pinStorage", "storage", "pinAuth") \/ Pin("pinAuth", "auth", "release") \/ Release
    PROVE  BackupInvariant'
<1> USE DEF BackupInvariant
<1>1. CASE StartBackup
  <2>1. BackupTypeOK'
    <3>1. bkJobs' \in 0..MaxBackups /\ NoArchive \in Copies
      BY <1>1, BackupAssumption DEF StartBackup, BackupTypeOK, Copies, NoArchive
    <3> QED BY <1>1, <3>1 DEF StartBackup, BackupTypeOK, RunningAt
  <2> QED BY <1>1, <2>1 DEF StartBackup, PinsAreCurrent, PinsAreAMoment, CopiesAreOfPins, BackupIsOneInstant, RunningAt
<1>2. CASE ReadConfiguration
  BY <1>2 DEF ReadConfiguration, BackupTypeOK, PinsAreCurrent, PinsAreAMoment, CopiesAreOfPins, BackupIsOneInstant,
     RunningAt, Copies
<1>3. CASE Lock("lockStorage", "storage", "lockAuth") \/ Lock("lockAuth", "auth", "pinStorage")
  BY <1>3 DEF Lock, BackupTypeOK, PinsAreCurrent, PinsAreAMoment, CopiesAreOfPins, BackupIsOneInstant, RunningAt,
     Databases
<1>4. CASE Pin("pinStorage", "storage", "pinAuth") \/ Pin("pinAuth", "auth", "release")
  BY <1>4 DEF Pin, BackupTypeOK, PinsAreCurrent, PinsAreAMoment, CopiesAreOfPins, BackupIsOneInstant, RunningAt,
     Databases, Copies
<1>5. CASE Release
  <2>1. bkVersion = Pinned(bkVersion.config)
    BY <1>5 DEF Release, PinsAreCurrent, Pinned, BackupTypeOK, Copies
  <2>2. bkConfig \in Nat /\ bkVersion.config \in Nat /\ bkConfig <= bkVersion.config
    BY <1>5 DEF Release, PinsAreAMoment, RunningAt, BackupTypeOK, Copies
  <2>3. PinsAreAMoment'
    BY <1>5, <2>1, <2>2 DEF Release, PinsAreAMoment, Pinned, RunningAt
  <2> QED BY <1>5, <2>3 DEF Release, BackupTypeOK, PinsAreCurrent, CopiesAreOfPins, BackupIsOneInstant, RunningAt
<1> QED BY <1>1, <1>2, <1>3, <1>4, <1>5

(* The copies, the comparison and the archive: the configuration, the same before and after, was the one of the
   moment of the pins.                                                                                         *)
LEMMA CopyingKeeps ==
    ASSUME BackupInvariant,
           \/ copy_database("copyStorage", "storage", "copyAuth") \/ copy_database("copyAuth", "auth", "compare")
           \/ CompareConfiguration \/ Archive
    PROVE  BackupInvariant'
<1> USE DEF BackupInvariant
<1>1. CASE copy_database("copyStorage", "storage", "copyAuth")
  BY <1>1 DEF copy_database, BackupTypeOK, PinsAreCurrent, PinsAreAMoment, Pinned, CopiesAreOfPins, BackupIsOneInstant,
     RunningAt, Databases, Copies
<1>2. CASE copy_database("copyAuth", "auth", "compare")
  BY <1>2 DEF copy_database, BackupTypeOK, PinsAreCurrent, PinsAreAMoment, Pinned, CopiesAreOfPins, BackupIsOneInstant,
     RunningAt, Databases, Copies
<1>3. CASE CompareConfiguration
  <2>1. Pinned(bkConfig) \in bkMoments
    <3>1. PICK config \in bkConfig..bkVersion.config : Pinned(config) \in bkMoments
      BY <1>3 DEF CompareConfiguration, PinsAreAMoment
    <3> QED BY <1>3, <3>1 DEF CompareConfiguration, BackupTypeOK, Copies
  <2> QED BY <1>3, <2>1 DEF CompareConfiguration, BackupTypeOK, PinsAreCurrent, PinsAreAMoment, Pinned, CopiesAreOfPins,
          BackupIsOneInstant, RunningAt
<1>4. CASE Archive
  <2>1. bkCopy' = Pinned(bkConfig)
    BY <1>4 DEF Archive, CopiesAreOfPins, Pinned, BackupTypeOK, Copies
  <2>2. Pinned(bkConfig) \in bkMoments
    BY <1>4 DEF Archive, PinsAreAMoment
  <2>3. BackupIsOneInstant'
    BY <1>4, <2>1, <2>2 DEF Archive, BackupIsOneInstant
  <2>4. BackupTypeOK'
    BY <1>4 DEF Archive, BackupTypeOK, Nothing, Databases, Copies
  <2> QED BY <1>4, <2>3, <2>4 DEF Archive, PinsAreCurrent, PinsAreAMoment, CopiesAreOfPins, RunningAt
<1> QED BY <1>1, <1>2, <1>3, <1>4

(* Failures, downloads and the end of the service. *)
LEMMA EndingKeeps ==
    ASSUME BackupInvariant, Fail \/ OpenDownload \/ EndDownload \/ Shutdown \/ RemoveBackup
    PROVE  BackupInvariant'
<1> USE DEF BackupInvariant
<1>1. CASE Fail \/ RemoveBackup
  <2>1. bkPinned' \in [Databases -> Nat] /\ bkCopy' \in Copies /\ bkLocked' \subseteq Databases
    BY <1>1 DEF Fail, RemoveBackup, BackupTypeOK, Nothing, NoArchive, Copies
  <2>2. /\ bkJob' \in {"failed", "idle"}
        /\ UNCHANGED <<bkVersion, bkMoments, bkConfig, bkJobs, bkDownloads, bkStopping>>
    BY <1>1 DEF Fail, RemoveBackup
  <2> QED BY <2>1, <2>2 DEF BackupTypeOK, PinsAreCurrent, PinsAreAMoment, CopiesAreOfPins, BackupIsOneInstant, RunningAt
<1>2. CASE OpenDownload \/ EndDownload \/ Shutdown
  <2>1. /\ UNCHANGED <<bkVersion, bkMoments, bkLocked, bkPinned, bkCopy, bkJob, bkConfig, bkJobs>>
        /\ bkDownloads' \subseteq bkDownloads \cup (IF bkJob = "complete" THEN {bkCopy} ELSE {})
        /\ bkStopping' \in BOOLEAN
    BY <1>2 DEF OpenDownload, EndDownload, Shutdown, BackupTypeOK
  <2>2. BackupTypeOK' /\ BackupIsOneInstant'
    BY <2>1 DEF BackupTypeOK, BackupIsOneInstant
  <2> QED BY <2>1, <2>2 DEF PinsAreCurrent, PinsAreAMoment, Pinned, CopiesAreOfPins
<1> QED BY <1>1, <1>2

LEMMA BackupInvariantStep == BackupInvariant /\ [BackupNext]_bkVars => BackupInvariant'
<1>1. BackupInvariant /\ UNCHANGED bkVars => BackupInvariant'
  BY DEF bkVars, BackupInvariant, BackupTypeOK, PinsAreCurrent, PinsAreAMoment, Pinned, CopiesAreOfPins,
     BackupIsOneInstant
<1> QED BY <1>1, WritesKeep, PinningKeeps, CopyingKeeps, EndingKeeps DEF BackupNext

(* Every archive offered or downloaded is the installation at one instant,   *)
(* whatever is committed or edited while the copies are made (snapshot).     *)
THEOREM BackupsAreOneInstant == BackupSpec => []BackupIsOneInstant
<1>1. BackupInvariant => BackupIsOneInstant
  BY DEF BackupInvariant
<1> QED BY BackupInvariantInit, BackupInvariantStep, <1>1, PTL DEF BackupSpec

(* A backup's variables keep their types (BackupManager). *)
THEOREM BackupTypes == BackupSpec => []BackupTypeOK
<1>1. BackupInvariant => BackupTypeOK BY DEF BackupInvariant
<1> QED BY <1>1, BackupInvariantInit, BackupInvariantStep, PTL DEF BackupSpec

-----------------------------------------------------------------------------
(*****************************************************************************)
(* Edits of the configuration and of the hosted domains, for any number of   *)
(* administrators and domains.                                               *)
(*****************************************************************************)

(* A call starts from the configuration that its administrator's form shows. *)
CallsMatchForms ==
    \A e \in Editors : edCall[e].at \in {"begun", "compared", "confirmed"} =>
        edCall[e].expected = edSeen[e] /\ edSeen[e] # NoForm

(* From its comparison to its rename a call holds the lock, which one call holds. *)
HoldersCompare ==
    /\ \A e \in Editors : e \in edLock <=> edCall[e].at \in {"compared", "confirmed"}
    /\ \A e, f \in edLock : e = f

(* Nothing but a manual edit changes a file whose comparison was confirmed. *)
ConfirmedIsCurrent ==
    \A e \in Editors : edCall[e].at = "confirmed" /\ ~edTouched => edFile = edCall[e].expected

(* The password file a request wrote is named by no other request, and by the
   configuration only when the request has succeeded.                         *)
SecretsAreOwned ==
    /\ \A e \in Editors : edCall[e].at = "none" => edSecret[e] = 0
    /\ \A e \in Editors : edSecret[e] # 0 =>
         /\ edSecret[e] \in edSecrets /\ edSecret[e] = edCall[e].replacement.relay
         /\ edCall[e].at # "replaced" => edFile.relay # edSecret[e]
         /\ \A f \in Editors : f # e /\ edCall[e].at # "replaced" => edCall[f].replacement.relay # edSecret[e]
    /\ edFile.relay \in {0} \cup edSecrets
    /\ \A e \in Editors : edCall[e].replacement.relay \in {0} \cup edSecrets

(* What a request asks for makes a domain active only on its evidence. *)
OnEvidence(before, after) ==
    \A d \in Domains :
        before.registry[d].status # "active" /\ after.registry[d].status = "active" =>
            /\ after.registry[d].dns.ready
            /\ after.registry[d].dns.fingerprint = [host |-> after.host, bound |-> after.registry[d].bound]

CallTypes ==
    [at : {"none", "begun", "compared", "confirmed", "replaced", "refused"},
     expected : Configurations, replacement : Configurations]

EditsTypes ==
    /\ edFile \in Configurations /\ edSeen \in [Editors -> Configurations \cup {NoForm}]
    /\ edLock \subseteq Editors /\ edCall \in [Editors -> CallTypes]
    /\ edSecret \in [Editors -> 0..MaxSecrets] /\ edSecrets \subseteq 1..MaxSecrets
    /\ edDay \in 0..MaxExpiries /\ edTouched \in BOOLEAN

EditsInvariant ==
    /\ EditsTypes /\ CallsMatchForms /\ HoldersCompare /\ ConfirmedIsCurrent /\ SecretsAreOwned
    /\ \A e \in Editors : OnEvidence(edCall[e].expected, edCall[e].replacement)

LEMMA EntryStored ==
    ASSUME NEW c \in Configurations, NEW d \in Domains, NEW entry \in RegistryEntries
    PROVE  /\ WithEntry(c, d, entry) \in Configurations
           /\ WithEntry(c, d, entry).host = c.host /\ WithEntry(c, d, entry).relay = c.relay
           /\ WithEntry(c, d, entry).registry[d] = entry
           /\ \A x \in Domains : x # d => WithEntry(c, d, entry).registry[x] = c.registry[x]
BY DEF WithEntry, Configurations

(* A domain request changes no other setting, and makes only a domain with evidence active. *)
LEMMA DomainEditsAreSound ==
    ASSUME NEW c \in Configurations, edDay \in 0..MaxExpiries, NEW after \in DomainEdits(c)
    PROVE  after \in Configurations /\ after.relay = c.relay /\ OnEvidence(c, after)
<1>1. PICK d \in Domains :
        after \in Added(c, d) \cup Rebound(c, d) \cup Checked(c, d) \cup Activated(c, d) \cup RemovedDomain(c, d)
  BY DEF DomainEdits
<1>2. c.registry[d] \in RegistryEntries /\ c.host \in 0..1
  BY DEF Configurations
<1>3. NoEvidence \in Evidence /\ NoEntry \in RegistryEntries
  BY ConfigEditsAssumption DEF NoEvidence, Evidence, NoEntry, RegistryEntries, Fingerprints
<1>4. dns_fingerprint(c, d) \in Fingerprints
  BY <1>2 DEF dns_fingerprint, Fingerprints, Entry, RegistryEntries
<1>5. CASE after \in Activated(c, d)
  <2> DEFINE entry == [Entry(c, d) EXCEPT !.status = "active"]
  <2>1. after = WithEntry(c, d, entry) /\ can_activate(c, d)
    BY <1>5 DEF Activated
  <2>2. entry \in RegistryEntries /\ entry.dns = c.registry[d].dns /\ entry.bound = c.registry[d].bound
    BY <1>2 DEF RegistryEntries, Entry
  <2>3. entry.dns.ready /\ entry.dns.fingerprint = [host |-> c.host, bound |-> entry.bound]
    BY <2>1, <2>2 DEF can_activate, dns_fingerprint, Entry
  <2> HIDE DEF entry
  <2> QED BY <2>1, <2>2, <2>3, EntryStored DEF OnEvidence
<1>6. ASSUME NEW entry \in RegistryEntries, after = WithEntry(c, d, entry),
             entry.status = "active" => c.registry[d].status = "active"
      PROVE  after \in Configurations /\ after.relay = c.relay /\ OnEvidence(c, after)
  BY <1>6, EntryStored DEF OnEvidence
<1>7. CASE after \in Added(c, d)
  <2>1. [NoEntry EXCEPT !.status = "pending"] \in RegistryEntries
    BY <1>3 DEF RegistryEntries
  <2>2. [NoEntry EXCEPT !.status = "pending"].status = "pending"
    BY DEF NoEntry
  <2> QED BY <1>6, <1>7, <2>1, <2>2 DEF Added
<1>8. CASE after \in Rebound(c, d)
  <2>1. PICK b \in BOOLEAN : after = WithEntry(c, d, [Entry(c, d) EXCEPT !.bound = b])
    BY <1>8 DEF Rebound
  <2>2. [Entry(c, d) EXCEPT !.bound = b] \in RegistryEntries
        /\ [Entry(c, d) EXCEPT !.bound = b].status = c.registry[d].status
    BY <1>2 DEF RegistryEntries, Entry
  <2> QED BY <1>6, <2>1, <2>2
<1>9. CASE after \in Checked(c, d)
  <2>1. PICK evidence \in {NoEvidence, [ready |-> TRUE, fingerprint |-> dns_fingerprint(c, d), day |-> edDay]} :
          after = WithEntry(c, d, [Entry(c, d) EXCEPT !.dns = evidence])
    BY <1>9 DEF Checked
  <2>2. evidence \in Evidence
    <3>1. [ready |-> TRUE, fingerprint |-> dns_fingerprint(c, d), day |-> edDay] \in Evidence
      BY <1>4 DEF Evidence
    <3> QED BY <1>3, <3>1
  <2>3. [Entry(c, d) EXCEPT !.dns = evidence] \in RegistryEntries
        /\ [Entry(c, d) EXCEPT !.dns = evidence].status = c.registry[d].status
    BY <1>2, <2>2 DEF RegistryEntries, Entry
  <2> QED BY <1>6, <2>1, <2>3
<1>10. CASE after \in RemovedDomain(c, d)
  <2>1. NoEntry.status = "absent"
    BY DEF NoEntry
  <2> QED BY <1>3, <1>6, <1>10, <2>1 DEF RemovedDomain
<1> QED BY <1>1, <1>5, <1>7, <1>8, <1>9, <1>10

LEMMA NoFormIsNone == NoForm \notin Configurations
BY DEF NoForm, Configurations

LEMMA FirstFileIsSound == FirstFile \in Configurations /\ FirstFile.relay = 0
BY ConfigEditsAssumption DEF FirstFile, Configurations, NoEntry, RegistryEntries, NoEvidence, Evidence, Fingerprints

LEMMA EditsInvariantInit == EditsInit => EditsInvariant
<1> SUFFICES ASSUME EditsInit PROVE EditsInvariant
  OBVIOUS
<1>1. \A e \in Editors : edCall[e] = [at |-> "none", expected |-> FirstFile, replacement |-> FirstFile]
  BY DEF EditsInit, File!NoCall, File!Call
<1>2. EditsTypes
  <2>1. edCall \in [Editors -> CallTypes]
    <3>1. [at |-> "none", expected |-> FirstFile, replacement |-> FirstFile] \in CallTypes
      BY FirstFileIsSound DEF CallTypes
    <3> QED BY <3>1 DEF EditsInit, File!NoCall, File!Call
  <2>2. edSecret \in [Editors -> 0..MaxSecrets] /\ edDay \in 0..MaxExpiries
    BY ConfigEditsAssumption DEF EditsInit
  <2> QED BY <2>1, <2>2, FirstFileIsSound DEF EditsInit, EditsTypes
<1>3. CallsMatchForms /\ HoldersCompare /\ ConfirmedIsCurrent
  BY <1>1 DEF EditsInit, CallsMatchForms, HoldersCompare, ConfirmedIsCurrent
<1>4. SecretsAreOwned
  BY <1>1, FirstFileIsSound DEF EditsInit, SecretsAreOwned
<1>5. \A e \in Editors : OnEvidence(edCall[e].expected, edCall[e].replacement)
  BY <1>1 DEF OnEvidence
<1> QED BY <1>2, <1>3, <1>4, <1>5 DEF EditsInvariant

-----------------------------------------------------------------------------
(* A request begins to replace the file it was opened with. *)
LEMMA BeginKeeps ==
    ASSUME EditsInvariant, NEW e \in Editors, editable(e), SaveSettings(e) \/ EditDomain(e)
    PROVE  EditsInvariant'
<1> USE DEF EditsInvariant
<1>1. edCall[e].at = "none" /\ edSeen[e] = edFile /\ edFile \in Configurations
  BY DEF editable, File!InCall, EditsTypes
<1>2. PICK replacement \in Configurations :
        /\ edCall' = [edCall EXCEPT ![e] = [at |-> "begun", expected |-> edFile, replacement |-> replacement]]
        /\ OnEvidence(edFile, replacement)
        /\ \/ replacement.relay = edFile.relay /\ UNCHANGED <<edSecret, edSecrets>>
           \/ replacement.relay = 0 /\ edSecret' = [edSecret EXCEPT ![e] = 0] /\ edSecrets' = edSecrets
           \/ /\ replacement.relay = edFile.relay /\ edFile.relay \in edSecrets
              /\ edSecret' = [edSecret EXCEPT ![e] = 0] /\ edSecrets' = edSecrets
           \/ /\ replacement.relay \in 1..MaxSecrets \ edSecrets
              /\ edSecret' = [edSecret EXCEPT ![e] = replacement.relay]
              /\ edSecrets' = edSecrets \cup {replacement.relay}
  <2>1. CASE SaveSettings(e)
    <3>1. PICK host \in 0..1, relay \in {0, edFile.relay} \cup (1..MaxSecrets \ edSecrets) :
            /\ edSecret' = [edSecret EXCEPT ![e] = IF relay \in edSecrets THEN 0 ELSE relay]
            /\ edSecrets' = edSecrets \cup ({relay} \ {0})
            /\ File!Begin(e, edFile, [edFile EXCEPT !.host = host, !.relay = relay])
      BY <2>1 DEF SaveSettings
    <3> DEFINE replacement == [edFile EXCEPT !.host = host, !.relay = relay]
    <3>2. /\ replacement \in Configurations /\ replacement.relay = relay
          /\ replacement.registry = edFile.registry
      <4>1. relay \in 0..MaxSecrets
        BY <1>1, ConfigEditsAssumption DEF Configurations
      <4> QED BY <1>1, <4>1 DEF Configurations
    <3>3. edCall' = [edCall EXCEPT ![e] = [at |-> "begun", expected |-> edFile, replacement |-> replacement]]
      BY <3>1 DEF File!Begin, File!Call
    <3>4. OnEvidence(edFile, replacement)
      BY <3>2 DEF OnEvidence
    <3>5. edFile.relay \in {0} \cup edSecrets /\ 0 \notin edSecrets
      BY DEF SecretsAreOwned, EditsTypes
    <3> HIDE DEF replacement
    <3>6. CASE relay = 0
      BY <3>1, <3>2, <3>3, <3>4, <3>5, <3>6
    <3>7. CASE relay = edFile.relay /\ relay # 0
      BY <3>1, <3>2, <3>3, <3>4, <3>5, <3>7
    <3>8. CASE relay \in 1..MaxSecrets \ edSecrets
      BY <3>1, <3>2, <3>3, <3>4, <3>5, <3>8
    <3> QED BY <3>6, <3>7, <3>8
  <2>2. CASE EditDomain(e)
    BY <1>1, <2>2, DomainEditsAreSound DEF EditDomain, File!Begin, File!Call, EditsTypes
  <2> QED BY <2>1, <2>2
<1>3. UNCHANGED <<edFile, edLock, edSeen, edDay, edTouched>>
  BY DEF SaveSettings, EditDomain, File!Begin
<1>4. /\ edCall'[e] = [at |-> "begun", expected |-> edFile, replacement |-> replacement]
      /\ \A f \in Editors : f # e => edCall'[f] = edCall[f]
  BY <1>2 DEF EditsTypes
<1>5. edSecret[e] = 0 /\ edSecret \in [Editors -> 0..MaxSecrets]
  BY <1>1 DEF SecretsAreOwned, EditsTypes
<1>6. EditsTypes'
  <2>1. edCall' \in [Editors -> CallTypes]
    BY <1>1, <1>2 DEF EditsTypes, CallTypes
  <2>2. edSecret' \in [Editors -> 0..MaxSecrets] /\ edSecrets' \subseteq 1..MaxSecrets
    <3>1. edSecret \in [Editors -> 0..MaxSecrets] /\ edSecrets \subseteq 1..MaxSecrets /\ 0 \in 0..MaxSecrets
      BY ConfigEditsAssumption DEF EditsTypes
    <3>2. replacement.relay \in 0..MaxSecrets
      BY DEF Configurations
    <3> QED BY <1>2, <3>1, <3>2
  <2> QED BY <1>3, <2>1, <2>2 DEF EditsTypes
<1>7. CallsMatchForms' /\ HoldersCompare' /\ ConfirmedIsCurrent'
  BY <1>1, <1>3, <1>4, NoFormIsNone DEF CallsMatchForms, HoldersCompare, ConfirmedIsCurrent
<1>8. SecretsAreOwned'
  <2>1. \A f \in Editors : f # e => edSecret'[f] = edSecret[f]
    BY <1>2, <1>5
  <2>2. edFile.relay \in {0} \cup edSecrets /\ edSecrets \subseteq edSecrets' /\ edSecrets \subseteq 1..MaxSecrets
    BY <1>2 DEF SecretsAreOwned, EditsTypes
  <2>3. \/ edSecret'[e] = 0 /\ replacement.relay \in {0, edFile.relay}
        \/ edSecret'[e] = replacement.relay /\ replacement.relay \in edSecrets' \ edSecrets
    BY <1>2, <1>5
  <2>4. \A f \in Editors : f # e => edCall[f].replacement.relay \in {0} \cup edSecrets
    BY DEF SecretsAreOwned
  <2>9. edCall'[e].replacement.relay = replacement.relay
    BY <1>4
  <2>10. replacement.relay \in {0, edFile.relay} \/ replacement.relay \in edSecrets' \ edSecrets
    BY <2>3
  <2>5. \A f \in Editors : edCall'[f].at = "none" => edSecret'[f] = 0
    BY <1>4, <2>1 DEF SecretsAreOwned
  <2>6. ASSUME NEW f \in Editors, edSecret'[f] # 0
        PROVE  /\ edSecret'[f] \in edSecrets' /\ edSecret'[f] = edCall'[f].replacement.relay
               /\ edCall'[f].at # "replaced" => edFile'.relay # edSecret'[f]
               /\ \A g \in Editors : g # f /\ edCall'[f].at # "replaced"
                    => edCall'[g].replacement.relay # edSecret'[f]
    <3>1. CASE f = e
      BY <1>3, <1>4, <2>2, <2>3, <2>4, <2>6, <3>1
    <3>2. CASE f # e
      <4>1. edSecret[f] # 0 /\ edSecret'[f] = edSecret[f] /\ edCall'[f] = edCall[f]
        BY <1>4, <2>1, <2>6, <3>2
      <4>2. /\ edSecret[f] \in edSecrets /\ edSecret[f] = edCall[f].replacement.relay
            /\ edCall[f].at # "replaced" => edFile.relay # edSecret[f]
            /\ \A g \in Editors : g # f /\ edCall[f].at # "replaced" => edCall[g].replacement.relay # edSecret[f]
        BY <4>1 DEF SecretsAreOwned
      <4>3. edCall[f].at # "replaced" => edCall'[e].replacement.relay # edSecret[f]
        BY <2>9, <2>10, <4>1, <4>2
      <4> QED BY <1>3, <1>4, <2>2, <4>1, <4>2, <4>3
    <3> QED BY <3>1, <3>2
  <2>7. edFile'.relay \in {0} \cup edSecrets'
    BY <1>3, <2>2
  <2>8. \A f \in Editors : edCall'[f].replacement.relay \in {0} \cup edSecrets'
    <3>1. edCall'[e].replacement.relay \in {0} \cup edSecrets'
      BY <2>2, <2>9, <2>10
    <3> QED BY <1>4, <2>2, <2>4, <3>1
  <2> QED BY <2>5, <2>6, <2>7, <2>8 DEF SecretsAreOwned
<1>9. \A f \in Editors : OnEvidence(edCall'[f].expected, edCall'[f].replacement)
  BY <1>2, <1>4
<1> QED BY <1>6, <1>7, <1>8, <1>9 DEF OnEvidence

(* The four steps of replace_config_file. *)
LEMMA ReplacingKeeps ==
    ASSUME EditsInvariant, NEW e \in Editors, Replacing(e)
    PROVE  EditsInvariant'
<1> USE DEF EditsInvariant
<1>1. /\ UNCHANGED <<edSecret, edSecrets, edSeen, edDay>>
      /\ edTouched' = (edTouched /\ edLock' # {})
      /\ edCall \in [Editors -> CallTypes] /\ edLock \subseteq Editors
  BY DEF Replacing, EditsTypes
<1>2. PICK at \in {"compared", "confirmed", "replaced", "refused"} : edCall' = [edCall EXCEPT ![e].at = at]
  BY DEF Replacing, File!Replace, File!LockAndCompare, File!WriteAndCompare, File!RenameOver, File!IOError, File!Moved
<1>3. /\ edCall'[e].at = at
      /\ \A f \in Editors : f # e => edCall'[f] = edCall[f]
      /\ \A f \in Editors : edCall'[f].expected = edCall[f].expected /\ edCall'[f].replacement = edCall[f].replacement
      /\ edCall' \in [Editors -> CallTypes]
  BY <1>1, <1>2 DEF CallTypes
<1>4. /\ at = "compared" => edCall[e].at = "begun" /\ edLock = {} /\ edLock' = {e} /\ edFile' = edFile
      /\ at = "confirmed" => edCall[e].at = "compared" /\ edLock' = edLock /\ edFile' = edFile
                             /\ edFile = edCall[e].expected
      /\ at = "replaced" => edCall[e].at = "confirmed" /\ edLock' = edLock \ {e} /\ edFile' = edCall[e].replacement
      /\ at = "refused" => edCall[e].at \in {"begun", "compared", "confirmed"} /\ edLock' = edLock \ {e}
                           /\ edFile' = edFile
  <2>1. \A x : File!Moved(e, x) => x = at
    BY <1>1, <1>2 DEF File!Moved, CallTypes
  <2>2. CASE File!LockAndCompare(e)
    BY <2>1, <2>2 DEF File!LockAndCompare
  <2>3. CASE File!WriteAndCompare(e)
    BY <2>1, <2>3 DEF File!WriteAndCompare
  <2>4. CASE File!RenameOver(e)
    BY <2>1, <2>4 DEF File!RenameOver
  <2>5. CASE File!IOError(e)
    BY <2>1, <2>5 DEF File!IOError
  <2> QED BY <2>2, <2>3, <2>4, <2>5 DEF Replacing, File!Replace
<1>5. edCall[e].at \in {"begun", "compared", "confirmed"}
  BY <1>4
<1>6. EditsTypes'
  <2>1. edCall[e].replacement \in Configurations
    BY <1>1 DEF CallTypes
  <2> QED BY <1>1, <1>3, <1>4, <2>1 DEF EditsTypes
<1>7. CallsMatchForms'
  BY <1>1, <1>3, <1>5 DEF CallsMatchForms
<1>8. HoldersCompare'
  BY <1>1, <1>3, <1>4 DEF HoldersCompare
<1>9. ConfirmedIsCurrent'
  <2>1. SUFFICES ASSUME NEW f \in Editors, edCall'[f].at = "confirmed", ~edTouched'
                 PROVE  edFile' = edCall'[f].expected
    BY DEF ConfirmedIsCurrent
  <2>2. f \in edLock'
    BY <1>8, <2>1 DEF HoldersCompare
  <2>3. ~edTouched
    BY <1>1, <2>1, <2>2
  <2>4. CASE f = e
    BY <1>3, <1>4, <2>1, <2>4
  <2>5. CASE f # e
    <3>1. edCall[f].at = "confirmed" /\ f \in edLock
      BY <1>3, <2>1, <2>5 DEF HoldersCompare
    <3>2. edCall[e].at # "confirmed"
      BY <2>5, <3>1 DEF HoldersCompare
    <3> QED BY <1>3, <1>4, <2>3, <3>1, <3>2 DEF ConfirmedIsCurrent
  <2> QED BY <2>4, <2>5
<1>10. SecretsAreOwned'
  <2>1. \A f \in Editors : edCall'[f].at = "none" => edSecret'[f] = 0
    BY <1>1, <1>3 DEF SecretsAreOwned
  <2>2. edFile'.relay \in {0} \cup edSecrets'
        /\ \A f \in Editors : edCall'[f].replacement.relay \in {0} \cup edSecrets'
    BY <1>1, <1>3, <1>4 DEF SecretsAreOwned
  <2>3. \A f \in Editors : edSecret[f] # 0 =>
          /\ edSecret[f] \in edSecrets /\ edSecret[f] = edCall'[f].replacement.relay
          /\ edCall'[f].at # "replaced" => edFile'.relay # edSecret[f]
          /\ \A g \in Editors : g # f /\ edCall'[f].at # "replaced" => edCall'[g].replacement.relay # edSecret[f]
    BY <1>3, <1>4 DEF SecretsAreOwned
  <2> QED BY <1>1, <2>1, <2>2, <2>3 DEF SecretsAreOwned
<1>11. \A f \in Editors : OnEvidence(edCall'[f].expected, edCall'[f].replacement)
  BY <1>3
<1> QED BY <1>6, <1>7, <1>8, <1>9, <1>10, <1>11 DEF OnEvidence

(* Requests that are answered, or end with their process: their calls are forgotten. *)
LEMMA ForgettingKeeps ==
    ASSUME EditsInvariant, (\E e \in Editors : Answered(e)) \/ AdminCrash
    PROVE  EditsInvariant'
<1> USE DEF EditsInvariant
<1>1. PICK gone \in SUBSET Editors :
        /\ edCall' = [w \in Editors |-> IF w \in gone THEN File!NoCall(FirstFile) ELSE edCall[w]]
        /\ edLock' = edLock \ gone /\ edFile' = edFile /\ edDay' = edDay
        /\ edTouched' \in BOOLEAN
        /\ ~edTouched' /\ edTouched => gone = Editors
        /\ \A w \in Editors : edSecret'[w] = IF w \in gone THEN 0 ELSE edSecret[w]
        /\ \A w \in Editors \ gone : edSeen'[w] = edSeen[w]
        /\ edSecret' \in [Editors -> 0..MaxSecrets] /\ edSeen' \in [Editors -> Configurations \cup {NoForm}]
        /\ edSecrets' \subseteq edSecrets
        /\ \A r \in edSecrets \ edSecrets' : \E e \in gone : edCall[e].at = "refused" /\ r = edSecret[e]
  <2>1. CASE AdminCrash
    <3>1. edSecret' \in [Editors -> 0..MaxSecrets]
      BY <2>1, ConfigEditsAssumption DEF AdminCrash
    <3> QED BY <2>1, <3>1 DEF AdminCrash, File!Forget, EditsTypes
  <2>2. ASSUME NEW e \in Editors, Answered(e)
        PROVE  \E gone \in SUBSET Editors :
        /\ edCall' = [w \in Editors |-> IF w \in gone THEN File!NoCall(FirstFile) ELSE edCall[w]]
        /\ edLock' = edLock \ gone /\ edFile' = edFile /\ edDay' = edDay
        /\ edTouched' \in BOOLEAN
        /\ ~edTouched' /\ edTouched => gone = Editors
        /\ \A w \in Editors : edSecret'[w] = IF w \in gone THEN 0 ELSE edSecret[w]
        /\ \A w \in Editors \ gone : edSeen'[w] = edSeen[w]
        /\ edSecret' \in [Editors -> 0..MaxSecrets] /\ edSeen' \in [Editors -> Configurations \cup {NoForm}]
        /\ edSecrets' \subseteq edSecrets
        /\ \A r \in edSecrets \ edSecrets' : \E d \in gone : edCall[d].at = "refused" /\ r = edSecret[d]
    <3>1. /\ edCall' = [w \in Editors |-> IF w \in {e} THEN File!NoCall(FirstFile) ELSE edCall[w]]
          /\ edLock' = edLock \ {e} /\ edFile' = edFile /\ edDay' = edDay /\ edTouched' = edTouched
      BY <2>2 DEF Answered, File!Forget
    <3>2. /\ edSecret' = [edSecret EXCEPT ![e] = 0] /\ edSecret' \in [Editors -> 0..MaxSecrets]
          /\ edSeen' = [edSeen EXCEPT ![e] = NoForm] /\ edSeen' \in [Editors -> Configurations \cup {NoForm}]
      BY <2>2, ConfigEditsAssumption DEF Answered, EditsTypes
    <3>3. /\ edSecrets' \subseteq edSecrets
          /\ \A r \in edSecrets \ edSecrets' : edCall[e].at = "refused" /\ r = edSecret[e]
      BY <2>2 DEF Answered
    <3>4. {e} \in SUBSET Editors /\ edTouched \in BOOLEAN
      BY DEF EditsTypes
    <3> QED BY <3>1, <3>2, <3>3, <3>4 DEF EditsTypes
  <2> QED BY <2>1, <2>2
<1>2. \A w \in Editors :
        /\ w \in gone => edCall'[w] = [at |-> "none", expected |-> FirstFile, replacement |-> FirstFile]
        /\ w \notin gone => edCall'[w] = edCall[w]
  BY <1>1 DEF File!NoCall, File!Call
<1>3. EditsTypes'
  <2>1. edCall' \in [Editors -> CallTypes]
    <3>1. [at |-> "none", expected |-> FirstFile, replacement |-> FirstFile] \in CallTypes
      BY FirstFileIsSound DEF CallTypes
    <3> QED BY <1>1, <3>1 DEF EditsTypes, File!NoCall, File!Call
  <2> QED BY <1>1, <2>1 DEF EditsTypes
<1>4. CallsMatchForms' /\ HoldersCompare'
  BY <1>1, <1>2 DEF CallsMatchForms, HoldersCompare
<1>5. ConfirmedIsCurrent'
  BY <1>1, <1>2 DEF ConfirmedIsCurrent
<1>6. SecretsAreOwned'
  <2>1. \A w \in Editors : edCall'[w].replacement.relay \in {0, edCall[w].replacement.relay}
    BY <1>2, FirstFileIsSound
  <2>2. \A w \in Editors : edCall'[w].at = "none" => edSecret'[w] = 0
    BY <1>1, <1>2 DEF SecretsAreOwned
  <2>3. \A r \in edSecrets \ edSecrets', f \in Editors : r # edFile.relay /\ r # edCall'[f].replacement.relay
    <3>1. SUFFICES ASSUME NEW r \in edSecrets \ edSecrets', NEW f \in Editors
                   PROVE  r # edFile.relay /\ r # edCall'[f].replacement.relay
      OBVIOUS
    <3>2. PICK e \in gone : edCall[e].at = "refused" /\ r = edSecret[e]
      BY <1>1
    <3>3. r # 0
      BY DEF EditsTypes
    <3>4. r # edFile.relay /\ (f # e => edCall[f].replacement.relay # r)
      BY <3>2, <3>3 DEF SecretsAreOwned
    <3>5. f = e => edCall'[f].replacement.relay = 0
      BY <1>2, <3>2, FirstFileIsSound
    <3> QED BY <2>1, <3>3, <3>4, <3>5
  <2>4. edFile'.relay \in {0} \cup edSecrets'
        /\ \A f \in Editors : edCall'[f].replacement.relay \in {0} \cup edSecrets'
    <3>1. edFile.relay \in {0} \cup edSecrets'
      <4>1. CASE Editors = {}
        BY <1>1, <4>1 DEF SecretsAreOwned
      <4>2. CASE Editors # {}
        BY <2>3, <4>2 DEF SecretsAreOwned
      <4> QED BY <4>1, <4>2
    <3> QED BY <1>1, <2>1, <2>3, <3>1 DEF SecretsAreOwned
  <2>5. ASSUME NEW f \in Editors, edSecret'[f] # 0
        PROVE  /\ edSecret'[f] \in edSecrets' /\ edSecret'[f] = edCall'[f].replacement.relay
               /\ edCall'[f].at # "replaced" => edFile'.relay # edSecret'[f]
               /\ \A g \in Editors : g # f /\ edCall'[f].at # "replaced"
                    => edCall'[g].replacement.relay # edSecret'[f]
    <3>1. f \notin gone /\ edSecret'[f] = edSecret[f] /\ edCall'[f] = edCall[f]
      BY <1>1, <1>2, <2>5
    <3>2. edSecret[f] \in edSecrets'
      BY <1>1, <2>5, <3>1 DEF SecretsAreOwned
    <3> QED BY <1>1, <2>1, <2>5, <3>1, <3>2 DEF SecretsAreOwned
  <2> QED BY <2>2, <2>4, <2>5 DEF SecretsAreOwned
<1>7. \A f \in Editors : OnEvidence(edCall'[f].expected, edCall'[f].replacement)
  BY <1>2 DEF OnEvidence
<1> QED BY <1>3, <1>4, <1>5, <1>6, <1>7 DEF OnEvidence

(* Forms are opened and refused, time passes, and the file is edited by hand. *)
LEMMA OthersKeep ==
    ASSUME EditsInvariant, (\E e \in Editors : Open(e) \/ Outdated(e)) \/ HandEdit \/ CheckExpires
    PROVE  EditsInvariant'
<1> USE DEF EditsInvariant
<1>1. UNCHANGED <<edLock, edCall, edSecret, edSecrets>>
  BY DEF Open, Outdated, HandEdit, CheckExpires
<1>2. CASE HandEdit
  <2>1. edFile' \in Configurations /\ edFile'.relay = edFile.relay /\ UNCHANGED <<edSeen, edDay>>
    BY <1>2 DEF HandEdit, EditsTypes, Configurations
  <2>2. /\ edTouched' \in BOOLEAN
        /\ edTouched => edTouched'
        /\ (\E e \in Editors : edCall[e].at = "confirmed") => edTouched'
    BY <1>2 DEF HandEdit, EditsTypes
  <2>3. ConfirmedIsCurrent'
    BY <1>1, <2>2 DEF ConfirmedIsCurrent
  <2>4. EditsTypes'
    BY <1>1, <2>1, <2>2 DEF EditsTypes
  <2>5. CallsMatchForms' /\ HoldersCompare'
    BY <1>1, <2>1 DEF CallsMatchForms, HoldersCompare
  <2>6. SecretsAreOwned'
    BY <1>1, <2>1 DEF SecretsAreOwned
  <2>7. \A e \in Editors : OnEvidence(edCall'[e].expected, edCall'[e].replacement)
    BY <1>1
  <2> QED BY <2>3, <2>4, <2>5, <2>6, <2>7 DEF OnEvidence
<1>3. CASE CheckExpires
  <2>1. edDay' \in 0..MaxExpiries /\ UNCHANGED <<edFile, edSeen, edTouched>>
    BY <1>3, ConfigEditsAssumption DEF CheckExpires, EditsTypes
  <2> QED BY <1>1, <2>1 DEF EditsTypes, CallsMatchForms, HoldersCompare, ConfirmedIsCurrent, SecretsAreOwned, OnEvidence
<1>4. ASSUME NEW e \in Editors, Open(e) \/ Outdated(e)
      PROVE  EditsInvariant'
  <2>1. /\ UNCHANGED <<edFile, edDay, edTouched>>
        /\ edSeen' \in [Editors -> Configurations \cup {NoForm}]
        /\ \A f \in Editors : f # e => edSeen'[f] = edSeen[f]
    BY <1>4 DEF Open, Outdated, EditsTypes
  <2>2. edCall[e].at \notin {"begun", "compared", "confirmed"}
    BY <1>4 DEF Open, Outdated, CallsMatchForms, File!InCall
  <2> QED BY <1>1, <2>1, <2>2 DEF EditsTypes, CallsMatchForms, HoldersCompare, ConfirmedIsCurrent, SecretsAreOwned,
          OnEvidence
<1> QED BY <1>2, <1>3, <1>4

LEMMA EditsInvariantStep == EditsInvariant /\ [EditsNext]_edVars => EditsInvariant'
<1>1. EditsInvariant /\ UNCHANGED edVars => EditsInvariant'
  BY DEF edVars, EditsInvariant, EditsTypes, CallsMatchForms, HoldersCompare, ConfirmedIsCurrent, SecretsAreOwned,
     OnEvidence
<1>2. \A e \in Editors : SaveSettings(e) \/ EditDomain(e) => editable(e)
  BY DEF SaveSettings, EditDomain
<1> QED BY <1>1, <1>2, BeginKeeps, ReplacingKeeps, ForgettingKeeps, OthersKeep DEF EditsNext

(* Of requests, checks and manual edits in any order, a confirmed request     *)
(* replaces only what its administrator saw, and the relay password file that *)
(* the configuration names is never removed (replace_config_file, save_settings). *)
THEOREM NoEditIsLost == EditsSpec => []EditsAreNotLost
<1>1. EditsInvariant => EditsAreNotLost
  BY DEF EditsInvariant, EditsAreNotLost, ConfirmedIsCurrent, CallsMatchForms, SecretsAreOwned
<1> QED BY EditsInvariantInit, EditsInvariantStep, <1>1, PTL DEF EditsSpec

(* A domain becomes active only on DNS evidence gathered with the settings of *)
(* the same configuration, for any number of requests at once (can_activate). *)
THEOREM DomainsActivateOnEvidence == EditsSpec => ActivatedOnEvidence
<1> DEFINE OnlyOnEvidence == \A d \in Domains :
         LET before == edFile.registry[d]
             after == edFile'.registry[d]
         IN  before.status # "active" /\ after.status = "active" /\ ~edTouched =>
               /\ after.dns.ready
               /\ after.dns.fingerprint = [host |-> edFile'.host, bound |-> after.bound]
<1>1. EditsInvariant /\ [EditsNext]_edVars => [OnlyOnEvidence]_edVars
  <2> SUFFICES ASSUME EditsInvariant, EditsNext PROVE OnlyOnEvidence
    OBVIOUS
  <2>1. CASE UNCHANGED edFile
    BY <2>1
  <2>2. CASE HandEdit
    <3>1. edFile'.registry = edFile.registry
      BY <2>2 DEF HandEdit, EditsInvariant, EditsTypes, Configurations
    <3> QED BY <3>1
  <2>3. ASSUME NEW e \in Editors, Replacing(e), edFile' # edFile
        PROVE  OnlyOnEvidence
    <3>1. edCall[e].at = "confirmed" /\ edFile' = edCall[e].replacement
      BY <2>3 DEF Replacing, File!Replace, File!LockAndCompare, File!WriteAndCompare, File!RenameOver, File!IOError
    <3>2. ~edTouched => edFile = edCall[e].expected
      BY <3>1 DEF EditsInvariant, ConfirmedIsCurrent
    <3>3. OnEvidence(edCall[e].expected, edCall[e].replacement)
      BY DEF EditsInvariant
    <3> QED BY <3>1, <3>2, <3>3 DEF OnEvidence
  <2>4. UNCHANGED edFile \/ HandEdit \/ \E e \in Editors : Replacing(e)
    BY DEF EditsNext, Open, Outdated, SaveSettings, EditDomain, Answered, AdminCrash, CheckExpires, File!Begin, File!Forget
  <2> QED BY <2>1, <2>2, <2>3, <2>4
<1> QED BY EditsInvariantInit, EditsInvariantStep, <1>1, PTL DEF EditsSpec, ActivatedOnEvidence

-----------------------------------------------------------------------------
(* A lock that at most one holds. *)
HeldByOne(holders) == \E w : holders \subseteq {w}

LEMMA OneHolder ==
    ASSUME NEW holders, HeldByOne(holders)
    PROVE  Cardinality(holders) <= 1
<1>1. PICK w : holders \subseteq {w} BY DEF HeldByOne
<1>2. IsFiniteSet({w}) /\ Cardinality({w}) = 1 BY FS_Singleton
<1>3. holders \in SUBSET {w} BY <1>1
<1> QED BY <1>2, <1>3, FS_Subset

(* Requests and manual edits are counted, and one holds the lock. *)
EditsBounds == HeldByOne(edLock) /\ edEdits \in 0..MaxEdits /\ edHandEdits \in 0..MaxHandEdits

LEMMA EditsBoundsStep == EditsBounds /\ [EditsNext]_edVars => EditsBounds'
<1> SUFFICES ASSUME EditsBounds, [EditsNext]_edVars PROVE EditsBounds'
  OBVIOUS
<1>1. \/ edLock' \subseteq edLock
      \/ \E e \in Editors : edLock' = {e}
  BY Zenon DEF EditsNext, Open, Outdated, SaveSettings, EditDomain, Replacing, Answered, AdminCrash, HandEdit, CheckExpires,
     File!Begin, File!Replace, File!LockAndCompare, File!WriteAndCompare, File!RenameOver, File!IOError, File!Forget, edVars
<1>2. edEdits' = edEdits \/ (edEdits < MaxEdits /\ edEdits' = edEdits + 1)
  BY DEF EditsNext, Open, Outdated, SaveSettings, EditDomain, editable, Replacing, Answered, AdminCrash, HandEdit, CheckExpires, edVars
<1>3. edHandEdits' = edHandEdits \/ (edHandEdits < MaxHandEdits /\ edHandEdits' = edHandEdits + 1)
  BY DEF EditsNext, Open, Outdated, SaveSettings, EditDomain, Replacing, Answered, AdminCrash, HandEdit, CheckExpires, edVars
<1>4. HeldByOne(edLock') BY <1>1 DEF EditsBounds, HeldByOne
<1>5. edEdits' \in 0..MaxEdits /\ edHandEdits' \in 0..MaxHandEdits
  BY <1>2, <1>3, ConfigEditsAssumption DEF EditsBounds
<1> QED BY <1>4, <1>5 DEF EditsBounds

(* Configurations, forms, calls and password files keep their types: replace_config_file, save_settings. *)
THEOREM EditsTypesHold == EditsSpec => []EditsTypeOK
<1>1. EditsInit => EditsBounds
  <2> SUFFICES ASSUME EditsInit PROVE EditsBounds
    OBVIOUS
  <2>1. HeldByOne(edLock) BY DEF EditsInit, HeldByOne
  <2> QED BY <2>1, ConfigEditsAssumption DEF EditsInit, EditsBounds
<1>2. EditsInvariant /\ EditsBounds => EditsTypeOK
  <2> SUFFICES ASSUME EditsInvariant, EditsBounds PROVE EditsTypeOK
    OBVIOUS
  <2>1. Cardinality(edLock) <= 1 BY OneHolder DEF EditsBounds
  <2>2. EditsTypes BY DEF EditsInvariant
  <2>3. \A e \in Editors :
          /\ edCall[e].at \in {"none", "begun", "compared", "confirmed", "replaced", "refused"}
          /\ {edCall[e].expected, edCall[e].replacement} \subseteq Configurations
    BY <2>2 DEF EditsTypes, CallTypes
  <2> QED BY <2>1, <2>2, <2>3 DEF EditsTypes, EditsTypeOK, EditsBounds
<1> QED BY <1>1, <1>2, EditsBoundsStep, EditsInvariantInit, EditsInvariantStep, PTL DEF EditsSpec

-----------------------------------------------------------------------------
(*****************************************************************************)
(* First-run setup beside an offline cleanup.                                *)
(*****************************************************************************)

(* The lease is shared or exclusive; without overlap, cleanup works alone. *)
LeaseHolds ==
    /\ ~(Shared /\ Exclusive)
    /\ ~frOverlap /\ ~At("down") => ~Exclusive

(* The calls that replace the configuration, and what they write. *)
CallsAreAtWork ==
    /\ frCall["setup"].at # "none" <=> At("committing")
    /\ frCall["setup"].at # "none" => frCall["setup"].replacement = Initialised
    /\ frCall["cleanup"].at # "none" => frCleanup.at = "marking" /\ frCall["cleanup"].replacement.setup = "required"

(* A form that is handled owns its token file, which no committed configuration names yet. *)
Uncommitted ==
    frLauncher.at \in {"post", "auth", "created", "commit"} \/ (At("committing") /\ frCall["setup"].at # "replaced")

TokensAreOwned ==
    /\ frTokens \subseteq 1..frPosts
    /\ Uncommitted => frPosts \in frTokens /\ (frFile.setup = "complete" => frFile.token # frPosts)
    /\ At("committing") => frPosts \in frTokens
    /\ frFile.setup = "complete" => frFile.token \in frTokens

SetupIsBehind ==
    \/ frLauncher.at \in {"done", "services"}
    \/ At("decided") /\ ~needs_setup(frLauncher.read)
    \/ At("committing") /\ frCall["setup"].at = "replaced"

(* Provisioning precedes the commit, and the mark the removal. *)
OrderIsKept ==
    ~frOverlap =>
        /\ frLauncher.at \in {"created", "commit", "committing"} => frAdmin.admin
        /\ frFile.setup = "complete" => frAdmin.admin
        /\ frCleanup.at \in {"auth", "storage"} => frFile.setup = "required"
        /\ frCall["cleanup"].at = "replaced" => frFile.setup = "required"
        /\ SetupIsBehind => frFile.setup = "complete"

CallPhases == {"none", "begun", "compared", "confirmed", "replaced", "refused"}

FirstRunTypes ==
    /\ frFile \in Contents
    /\ frLauncher \in [at : LauncherAt, read : Contents] /\ frCleanup \in [at : CleanupAt, read : Contents]
    /\ frCall \in [{"setup", "cleanup"} -> [at : CallPhases, expected : Contents, replacement : Contents]]
    /\ frPosts \in 0..MaxPosts /\ frOverlap \in BOOLEAN

FirstRunInvariant == FirstRunTypes /\ LeaseHolds /\ CallsAreAtWork /\ TokensAreOwned /\ OrderIsKept

LEMMA MissingIsContents == MissingFile \in Contents /\ Example \in Contents
BY FirstRunAssumption DEF MissingFile, Example, Contents

LEMMA FirstRunInvariantInit == FirstRunInit => FirstRunInvariant
<1> SUFFICES ASSUME FirstRunInit PROVE FirstRunInvariant
  OBVIOUS
<1>1. frCall["setup"].at = "none" /\ frCall["cleanup"].at = "none"
  BY DEF FirstRunInit, Conf!NoCall, Conf!Call
<1>2. FirstRunTypes
  <2>1. [at |-> "none", expected |-> MissingFile, replacement |-> MissingFile]
          \in [at : CallPhases, expected : Contents, replacement : Contents]
    BY MissingIsContents DEF CallPhases
  <2>2. frCall \in [{"setup", "cleanup"} -> [at : CallPhases, expected : Contents, replacement : Contents]]
    BY <2>1 DEF FirstRunInit, Conf!NoCall, Conf!Call
  <2>3. frPosts \in 0..MaxPosts
    BY FirstRunAssumption DEF FirstRunInit
  <2>4. frLauncher \in [at : LauncherAt, read : Contents] /\ frCleanup \in [at : CleanupAt, read : Contents]
    BY MissingIsContents DEF FirstRunInit, LauncherAt, CleanupAt
  <2>5. frFile \in Contents /\ frOverlap \in BOOLEAN
    BY MissingIsContents DEF FirstRunInit
  <2> QED BY <2>2, <2>3, <2>4, <2>5 DEF FirstRunTypes
<1>3. frFile.setup \in {"missing", "incomplete"}
  <2>1. frFile \in {MissingFile, Example}
    BY DEF FirstRunInit
  <2>2. MissingFile.setup = "missing" /\ Example.setup = "incomplete"
    BY DEF MissingFile, Example
  <2> QED BY <2>1, <2>2
<1> QED BY <1>1, <1>2, <1>3 DEF FirstRunInit, FirstRunInvariant, LeaseHolds, CallsAreAtWork, TokensAreOwned, OrderIsKept,
        SetupIsBehind, Uncommitted, At, Shared, Exclusive

(* What the steps of replace_config_file do with the calls and the file. *)
LEMMA CallSteps ==
    ASSUME FirstRunTypes, NEW w \in {"setup", "cleanup"}, Conf!Replace(w)
    PROVE  /\ frCall' \in [{"setup", "cleanup"} -> [at : CallPhases, expected : Contents, replacement : Contents]]
           /\ frCall[w].at \in {"begun", "compared", "confirmed"} /\ frCall'[w].at # "none"
           /\ frCall'[w].replacement = frCall[w].replacement
           /\ \A v \in {"setup", "cleanup"} : v # w => frCall'[v] = frCall[v]
           /\ \/ frFile' = frFile /\ frCall'[w].at # "replaced"
              \/ frFile' = frCall[w].replacement /\ frCall'[w].at = "replaced" /\ frFile' \in Contents
<1> USE DEF FirstRunTypes, CallPhases
<1>1. CASE Conf!LockAndCompare(w)
  BY <1>1 DEF Conf!LockAndCompare, Conf!Moved
<1>2. CASE Conf!WriteAndCompare(w)
  BY <1>2 DEF Conf!WriteAndCompare, Conf!Moved
<1>3. CASE Conf!RenameOver(w)
  BY <1>3 DEF Conf!RenameOver, Conf!Moved
<1>4. CASE Conf!IOError(w)
  BY <1>4 DEF Conf!IOError, Conf!Moved
<1> QED BY <1>1, <1>2, <1>3, <1>4 DEF Conf!Replace

(* Calls that end with their program. *)
LEMMA CallForgotten ==
    ASSUME FirstRunTypes, NEW w \in {"setup", "cleanup"}, Conf!Forget({w}, MissingFile)
    PROVE  /\ frCall' \in [{"setup", "cleanup"} -> [at : CallPhases, expected : Contents, replacement : Contents]]
           /\ frCall'[w].at = "none" /\ frFile' = frFile
           /\ \A v \in {"setup", "cleanup"} : v # w => frCall'[v] = frCall[v]
<1>1. [at |-> "none", expected |-> MissingFile, replacement |-> MissingFile]
        \in [at : CallPhases, expected : Contents, replacement : Contents]
  BY MissingIsContents DEF CallPhases
<1> QED BY <1>1 DEF FirstRunTypes, Conf!Forget, Conf!NoCall, Conf!Call

(* The launcher, while neither the configuration nor its calls change. *)
LEMMA LauncherKeeps ==
    ASSUME FirstRunInvariant,
           \/ Decide \/ OpenSetup \/ PostSetup \/ FormFails \/ StartAuth \/ CreateAdmin \/ StopAuth \/ StartServices
    PROVE  FirstRunInvariant'
<1> USE DEF FirstRunInvariant
<1>1. UNCHANGED <<frFile, frCall, frCleanup>>
  BY DEF Decide, OpenSetup, PostSetup, FormFails, StartAuth, CreateAdmin, StopAuth, StartServices, SameFile, SameCleanup
<1>2. CASE Decide
  BY <1>1, <1>2 DEF Decide, FirstRunTypes, LauncherAt, LeaseHolds, CallsAreAtWork, TokensAreOwned, OrderIsKept,
     SetupIsBehind, Uncommitted, At, Shared, Exclusive, Initialised, SameData, needs_setup, Contents
<1>3. CASE OpenSetup
  BY <1>1, <1>3 DEF OpenSetup, Goes, FirstRunTypes, LauncherAt, LeaseHolds, CallsAreAtWork, TokensAreOwned,
     OrderIsKept, SetupIsBehind, Uncommitted, At, Shared, Exclusive, Initialised, SameData
<1>4. CASE PostSetup
  <2>1. frPosts' = frPosts + 1 /\ frPosts' \in 0..MaxPosts /\ frPosts \in Nat /\ frTokens' = frTokens \cup {frPosts'}
    BY <1>4, FirstRunAssumption DEF PostSetup, FirstRunTypes
  <2>2. TokensAreOwned'
    BY <1>1, <1>4, <2>1 DEF PostSetup, Goes, TokensAreOwned, Uncommitted, At, FirstRunTypes
  <2>3. FirstRunTypes'
    BY <1>1, <1>4, <2>1 DEF PostSetup, Goes, FirstRunTypes, LauncherAt
  <2> QED BY <1>1, <1>4, <2>1, <2>2, <2>3 DEF PostSetup, Goes, FirstRunTypes, LeaseHolds, CallsAreAtWork, OrderIsKept,
          SetupIsBehind, At, Shared, Exclusive, SameData
<1>5. CASE FormFails
  BY <1>1, <1>5 DEF FormFails, Goes, FirstRunTypes, LauncherAt, LeaseHolds, CallsAreAtWork, TokensAreOwned,
     OrderIsKept, SetupIsBehind, Uncommitted, At, Shared, Exclusive, Initialised, SameData
<1>6. CASE StartAuth
  BY <1>1, <1>6 DEF StartAuth, Goes, FirstRunTypes, LauncherAt, LeaseHolds, CallsAreAtWork, TokensAreOwned,
     OrderIsKept, SetupIsBehind, Uncommitted, At, Shared, Exclusive, Initialised, SameData
<1>7. CASE CreateAdmin
  <2>1. frAdmin'.admin
    BY <1>7 DEF CreateAdmin
  <2>2. frCall["cleanup"].at = "none" /\ frCleanup.at \notin {"auth", "storage"} /\ ~Exclusive
    BY <1>7 DEF CreateAdmin, LeaseHolds, CallsAreAtWork, Shared, Exclusive, At
  <2> QED BY <1>1, <1>7, <2>1, <2>2 DEF CreateAdmin, Goes, FirstRunTypes, LauncherAt, LeaseHolds, CallsAreAtWork,
          TokensAreOwned, OrderIsKept, SetupIsBehind, Uncommitted, At, Shared, Exclusive, Initialised
<1>8. CASE StopAuth
  BY <1>1, <1>8 DEF StopAuth, Goes, FirstRunTypes, LauncherAt, LeaseHolds, CallsAreAtWork, TokensAreOwned,
     OrderIsKept, SetupIsBehind, Uncommitted, At, Shared, Exclusive, Initialised, SameData
<1>9. CASE StartServices
  BY <1>1, <1>9 DEF StartServices, Goes, FirstRunTypes, LauncherAt, LeaseHolds, CallsAreAtWork, TokensAreOwned,
     OrderIsKept, SetupIsBehind, Uncommitted, At, Shared, Exclusive, Initialised, SameData
<1> QED BY <1>2, <1>3, <1>4, <1>5, <1>6, <1>7, <1>8, <1>9

(* The launcher commits the configuration, or stops. *)
LEMMA CommitKeeps ==
    ASSUME FirstRunInvariant, CommitNew \/ CommitExisting \/ Committing \/ Committed \/ LauncherStops
    PROVE  FirstRunInvariant'
<1> USE DEF FirstRunInvariant
<1>1. frCleanup' = frCleanup /\ frAdmin' = frAdmin /\ frOverlap' = frOverlap /\ frPosts' = frPosts
  BY DEF CommitNew, CommitExisting, Committing, Committed, LauncherStops, SameData, SameCleanup
<1>2. CASE CommitNew
  <2>1. frFile' = Initialised /\ frFile'.setup = "complete" /\ frFile'.token = frPosts /\ frFile' \in Contents
    BY <1>2 DEF CommitNew, Initialised, FirstRunTypes, Contents
  <2> QED BY <1>1, <1>2, <2>1 DEF CommitNew, Goes, FirstRunTypes, LauncherAt, LeaseHolds, CallsAreAtWork, TokensAreOwned,
          OrderIsKept, SetupIsBehind, Uncommitted, At, Shared, Exclusive, Initialised
<1>3. CASE CommitExisting
  <2>1. /\ frCall' = [frCall EXCEPT !["setup"] =
                         [at |-> "begun", expected |-> frLauncher.read, replacement |-> Initialised]]
        /\ frFile' = frFile
    BY <1>3 DEF CommitExisting, Conf!Begin, Conf!Call
  <2>2. Initialised \in Contents /\ frLauncher.read \in Contents
    BY DEF Initialised, FirstRunTypes, Contents
  <2>3. /\ frCall' \in [{"setup", "cleanup"} -> [at : CallPhases, expected : Contents, replacement : Contents]]
        /\ frCall'["setup"].at = "begun" /\ frCall'["setup"].replacement = Initialised
        /\ frCall'["cleanup"] = frCall["cleanup"]
    BY <2>1, <2>2 DEF FirstRunTypes, CallPhases
  <2> QED BY <1>1, <1>3, <2>1, <2>3 DEF CommitExisting, Goes, FirstRunTypes, LauncherAt, LeaseHolds, CallsAreAtWork,
          TokensAreOwned, OrderIsKept, SetupIsBehind, Uncommitted, At, Shared, Exclusive, Initialised
<1>4. CASE Committing
  <2>1. Initialised.setup = "complete" /\ Initialised.token = frPosts
    BY DEF Initialised
  <2> QED BY <1>1, <1>4, <2>1, CallSteps DEF Committing, FirstRunTypes, LauncherAt, LeaseHolds, CallsAreAtWork,
          TokensAreOwned, OrderIsKept, SetupIsBehind, Uncommitted, At, Shared, Exclusive, Initialised
<1>5. CASE Committed
  BY <1>1, <1>5, CallForgotten DEF Committed, Goes, FirstRunTypes, LauncherAt, LeaseHolds, CallsAreAtWork,
     TokensAreOwned, OrderIsKept, SetupIsBehind, Uncommitted, At, Shared, Exclusive, Initialised
<1>6. CASE LauncherStops
  <2>1. frLauncher'.at = "down" /\ frLauncher' \in [at : LauncherAt, read : Contents]
    BY <1>6, MissingIsContents DEF LauncherStops, LauncherAt
  <2> QED BY <1>1, <1>6, <2>1, CallForgotten DEF LauncherStops, FirstRunTypes, LeaseHolds, CallsAreAtWork,
          TokensAreOwned, OrderIsKept, SetupIsBehind, Uncommitted, At, Shared, Exclusive, Initialised
<1> QED BY <1>2, <1>3, <1>4, <1>5, <1>6

(* The cleanup program. *)
LEMMA CleanupKeeps ==
    ASSUME FirstRunInvariant,
           \/ CleanupReads \/ CleanupLeases \/ CleanupMarks \/ CleanupMarking \/ RemoveAccounts \/ RemoveMail
           \/ CleanupStops
    PROVE  FirstRunInvariant'
<1> USE DEF FirstRunInvariant
<1>1. UNCHANGED <<frLauncher, frTokens, frPosts>>
  BY DEF CleanupReads, CleanupLeases, CleanupMarks, CleanupMarking, RemoveAccounts, RemoveMail, CleanupStops, SameLauncher
<1>2. CASE CleanupReads
  BY <1>1, <1>2 DEF CleanupReads, FirstRunTypes, CleanupAt, LeaseHolds, CallsAreAtWork, TokensAreOwned,
     OrderIsKept, SetupIsBehind, Uncommitted, At, Shared, Exclusive, Initialised, SameFile, SameData
<1>3. CASE CleanupLeases
  BY <1>1, <1>3 DEF CleanupLeases, CleanupGoes, FirstRunTypes, CleanupAt, LeaseHolds, CallsAreAtWork, TokensAreOwned,
     OrderIsKept, SetupIsBehind, Uncommitted, At, Shared, Exclusive, Initialised, SameFile, SameData
<1>4. CASE CleanupMarks
  <2> DEFINE mark == [frCleanup.read EXCEPT !.setup = "required"]
  <2>1. frCleanup.read \in Contents /\ mark \in Contents /\ mark.setup = "required"
    BY DEF FirstRunTypes, Contents
  <2>2. /\ frCall' = [frCall EXCEPT !["cleanup"] = [at |-> "begun", expected |-> frCleanup.read, replacement |-> mark]]
        /\ frFile' = frFile
    BY <1>4 DEF CleanupMarks, Conf!Begin, Conf!Call
  <2>3. /\ frCall' \in [{"setup", "cleanup"} -> [at : CallPhases, expected : Contents, replacement : Contents]]
        /\ frCall'["cleanup"].at = "begun" /\ frCall'["cleanup"].replacement = mark
        /\ frCall'["setup"] = frCall["setup"]
    BY <2>1, <2>2 DEF FirstRunTypes, CallPhases
  <2> HIDE DEF mark
  <2> QED BY <1>1, <1>4, <2>1, <2>2, <2>3 DEF CleanupMarks, CleanupGoes, FirstRunTypes, CleanupAt, LeaseHolds,
          CallsAreAtWork, TokensAreOwned, OrderIsKept, SetupIsBehind, Uncommitted, At, Shared, Exclusive, Initialised,
          SameData
<1>5. CASE CleanupMarking
  <2>1. CASE Conf!Replace("cleanup") /\ UNCHANGED frCleanup
    BY <1>1, <1>5, <2>1, CallSteps DEF CleanupMarking, FirstRunTypes, CleanupAt, LeaseHolds,
       CallsAreAtWork, TokensAreOwned, OrderIsKept, SetupIsBehind, Uncommitted, At, Shared, Exclusive, Initialised,
       SameData
  <2>2. CASE /\ frCall["cleanup"].at \in {"replaced", "refused"}
             /\ Conf!Forget({"cleanup"}, MissingFile)
             /\ CleanupGoes(IF frCall["cleanup"].at = "replaced" THEN "auth" ELSE "off")
    BY <1>1, <1>5, <2>2, CallForgotten DEF CleanupMarking, CleanupGoes, FirstRunTypes, CleanupAt, LeaseHolds,
       CallsAreAtWork, TokensAreOwned, OrderIsKept, SetupIsBehind, Uncommitted, At, Shared, Exclusive, Initialised,
       SameData
  <2> QED BY <1>5, <2>1, <2>2 DEF CleanupMarking
<1>6. CASE RemoveAccounts
  <2>1. ~frOverlap => At("down") /\ frFile.setup = "required"
    BY <1>6 DEF RemoveAccounts, LeaseHolds, Exclusive, OrderIsKept
  <2> QED BY <1>1, <1>6, <2>1 DEF RemoveAccounts, CleanupGoes, FirstRunTypes, CleanupAt, LeaseHolds,
          CallsAreAtWork, TokensAreOwned, OrderIsKept, SetupIsBehind, Uncommitted, At, Shared, Exclusive, Initialised,
          SameFile
<1>7. CASE RemoveMail
  BY <1>1, <1>7 DEF RemoveMail, CleanupGoes, FirstRunTypes, CleanupAt, LeaseHolds, CallsAreAtWork, TokensAreOwned,
     OrderIsKept, SetupIsBehind, Uncommitted, At, Shared, Exclusive, Initialised, SameFile
<1>8. CASE CleanupStops
  BY <1>1, <1>8, CallForgotten DEF CleanupStops, CleanupGoes, FirstRunTypes, CleanupAt, LeaseHolds, CallsAreAtWork,
     TokensAreOwned, OrderIsKept, SetupIsBehind, Uncommitted, At, Shared, Exclusive, Initialised, SameData
<1> QED BY <1>2, <1>3, <1>4, <1>5, <1>6, <1>7, <1>8

LEMMA FirstRunInvariantStep == FirstRunInvariant /\ [FirstRunNext]_frVars => FirstRunInvariant'
<1>1. FirstRunInvariant /\ UNCHANGED frVars => FirstRunInvariant'
  BY DEF frVars, FirstRunInvariant, FirstRunTypes, LeaseHolds, CallsAreAtWork, TokensAreOwned, OrderIsKept,
     SetupIsBehind, Uncommitted, At, Shared, Exclusive, Initialised
<1> QED BY <1>1, LauncherKeeps, CommitKeeps, CleanupKeeps DEF FirstRunNext

(* Whatever step of setup or cleanup fails or is cut off, for any number of   *)
(* attempts: services do not start on an initialised installation without an  *)
(* administrator and its service token (run, run_setup, postplus-clean-data). *)
THEOREM ServingNeedsAdmin == FirstRunSpec => []ServingHasAdmin
<1>1. FirstRunInvariant => ServingHasAdmin
  BY DEF FirstRunInvariant, ServingHasAdmin, OrderIsKept, TokensAreOwned, SetupIsBehind, At
<1> QED BY FirstRunInvariantInit, FirstRunInvariantStep, <1>1, PTL DEF FirstRunSpec

-----------------------------------------------------------------------------
(* What setup and cleanup write is of its kind, and one of them holds the lock. *)
FirstRunBounds ==
    /\ HeldByOne(frLock) /\ frLock \subseteq {"setup", "cleanup"}
    /\ frForm \in Passwords \cup {0} /\ frTokens \subseteq 1..MaxPosts
    /\ frAdmin \in AccountStates /\ frMail \in BOOLEAN
    /\ frCleanups \in 0..MaxCleanups /\ frStops \in 0..MaxStops

LEMMA ZeroAccount == NoAccount \in AccountStates
<1>1. 0 \in Passwords \cup {0} /\ FALSE \in BOOLEAN OBVIOUS
<1> QED BY <1>1 DEF NoAccount, AccountStates

LEMMA FirstRunBoundsStep == FirstRunInvariant /\ FirstRunBounds /\ [FirstRunNext]_frVars => FirstRunBounds'
<1> SUFFICES ASSUME FirstRunInvariant, FirstRunBounds, [FirstRunNext]_frVars PROVE FirstRunBounds'
  OBVIOUS
<1> USE DEF FirstRunNext, Decide, OpenSetup, PostSetup, FormFails, StartAuth, CreateAdmin, StopAuth, CommitNew,
        CommitExisting, Committing, Committed, StartServices, LauncherStops, CleanupReads, CleanupLeases, CleanupMarks,
        CleanupMarking, RemoveAccounts, RemoveMail, CleanupStops, SameFile, SameData, SameCleanup, SameLauncher, frVars
<1>1. frLock' \subseteq frLock \/ \E w \in {"setup", "cleanup"} : frLock' = {w}
  BY DEF Conf!Begin, Conf!Replace, Conf!LockAndCompare, Conf!WriteAndCompare, Conf!RenameOver, Conf!IOError, Conf!Forget
<1>2. frForm' = frForm \/ frForm' \in Passwords \cup {0} OBVIOUS
<1>3. \/ frTokens' \subseteq frTokens
      \/ frPosts < MaxPosts /\ frTokens' = frTokens \cup {frPosts + 1}
  OBVIOUS
<1>4. frAdmin' \in {frAdmin, NoAccount, [password |-> frForm, admin |-> TRUE]} OBVIOUS
<1>5. frMail' \in {frMail, FALSE} OBVIOUS
<1>6. frCleanups' = frCleanups \/ (frCleanups < MaxCleanups /\ frCleanups' = frCleanups + 1) OBVIOUS
<1>7. frStops' = frStops \/ (frStops < MaxStops /\ frStops' = frStops + 1) OBVIOUS
<1>8. frPosts \in 0..MaxPosts BY DEF FirstRunInvariant, FirstRunTypes
<1>9. HeldByOne(frLock') /\ frLock' \subseteq {"setup", "cleanup"}
  <2>1. CASE frLock' \subseteq frLock BY <2>1 DEF FirstRunBounds, HeldByOne
  <2>2. CASE \E w \in {"setup", "cleanup"} : frLock' = {w} BY <2>2 DEF HeldByOne
  <2> QED BY <1>1, <2>1, <2>2
<1>10. frTokens' \subseteq 1..MaxPosts
  <2>1. frPosts < MaxPosts => frPosts + 1 \in 1..MaxPosts BY <1>8, FirstRunAssumption
  <2> QED BY <1>3, <2>1 DEF FirstRunBounds
<1>11. frAdmin' \in AccountStates
  <2>1. NoAccount \in AccountStates BY ZeroAccount
  <2>2. frForm \in Passwords \cup {0} /\ frAdmin \in AccountStates BY DEF FirstRunBounds
  <2>3. [password |-> frForm, admin |-> TRUE] \in AccountStates BY <2>2 DEF AccountStates
  <2>4. \/ frAdmin' = frAdmin \/ frAdmin' = NoAccount \/ frAdmin' = [password |-> frForm, admin |-> TRUE] BY <1>4
  <2> QED BY Zenon, <2>1, <2>2, <2>3, <2>4
<1>12. frCleanups' \in 0..MaxCleanups /\ frStops' \in 0..MaxStops BY <1>6, <1>7, FirstRunAssumption DEF FirstRunBounds
<1> QED BY <1>2, <1>5, <1>9, <1>10, <1>11, <1>12 DEF FirstRunBounds

(* The launcher, the cleanup program and their files keep their types: run_setup, postplus-clean-data. *)
THEOREM FirstRunTypesHold == FirstRunSpec => []FirstRunTypeOK
<1>1. FirstRunInit => FirstRunBounds
  <2> SUFFICES ASSUME FirstRunInit PROVE FirstRunBounds
    OBVIOUS
  <2>1. HeldByOne(frLock) BY DEF FirstRunInit, HeldByOne
  <2>2. frAdmin \in AccountStates
    <3>1. frAdmin = NoAccount \/ frAdmin \in [password : Passwords, admin : {FALSE}] BY DEF FirstRunInit
    <3>2. \A a \in [password : Passwords, admin : {FALSE}] : a \in AccountStates BY DEF AccountStates
    <3> QED BY <3>1, <3>2, ZeroAccount
  <2>3. frMail \in BOOLEAN BY DEF FirstRunInit
  <2> QED BY <2>1, <2>2, <2>3, FirstRunAssumption DEF FirstRunInit, FirstRunBounds
<1>2. FirstRunInvariant /\ FirstRunBounds => FirstRunTypeOK
  <2> SUFFICES ASSUME FirstRunInvariant, FirstRunBounds PROVE FirstRunTypeOK
    OBVIOUS
  <2>1. Cardinality(frLock) <= 1 BY OneHolder DEF FirstRunBounds
  <2>2. FirstRunTypes BY DEF FirstRunInvariant
  <2>3. \A w \in {"setup", "cleanup"} : {frCall[w].expected, frCall[w].replacement} \subseteq Contents
    BY <2>2 DEF FirstRunTypes
  <2> QED BY <2>1, <2>2, <2>3 DEF FirstRunTypes, FirstRunTypeOK, FirstRunBounds
<1> QED BY <1>1, <1>2, FirstRunBoundsStep, FirstRunInvariantInit, FirstRunInvariantStep, PTL DEF FirstRunSpec

-----------------------------------------------------------------------------
(*****************************************************************************)
(* The AbuseIPDB client, for any callers, keys, budget and number of days.   *)
(*****************************************************************************)

Everyone == {Worker} \cup Callers

(* Automatic requests that have a reservation and are not sent yet. *)
Reserved(day, endpoint) ==
    {c \in Everyone : /\ abCalls[c].at = "recheck" /\ Automatic(abCalls[c].kind)
                      /\ abCalls[c].day = day /\ abCalls[c].endpoint = endpoint}

Spent(day, endpoint) == abSent[<<day, endpoint>>] + Cardinality(Reserved(day, endpoint))

(* What was sent or may still be sent on the reservations of a day. *)
ReservationsCount ==
    /\ \A day \in 0..MaxDays, e \in Endpoints : Spent(day, e) <= Budget
    /\ \A e \in Endpoints : Spent(abDay, e) <= abUsed[e]
    /\ \A day \in 0..MaxDays, e \in Endpoints : day > abDay => Spent(day, e) = 0

(* Requests and tasks of the present generation are about the present key. *)
GenerationsTell ==
    /\ \A c \in Everyone : abCalls[c].gen <= abGen /\ (abCalls[c].gen = abGen => abCalls[c].key = abKey)
    /\ \A i \in 1..Len(abQueue) : abQueue[i].gen <= abGen

CallRecords ==
    [at : {"free", "begin", "reserve", "recheck", "sent", "save"}, kind : Kinds, endpoint : Endpoints,
     key : Keys \cup {NoKey}, gen : Nat, day : 0..MaxDays]
Tasks == [kind : {"check", "report"}, gen : Nat]
Quotas == [level : {"open", "reserve", "blocked"}, key : Keys \cup {NoKey}]

AbuseTypes ==
    /\ abUsed \in [Endpoints -> Nat] /\ abSent \in [(0..MaxDays) \X Endpoints -> Nat]
    /\ abKey \in Keys \cup {NoKey} /\ abGen \in Nat \ {0} /\ abDay \in 0..MaxDays
    /\ abQueue \in Seq(Tasks) /\ abCalls \in [Everyone -> CallRecords] /\ abQuota \in [Endpoints -> Quotas]

AbuseInvariant == AbuseTypes /\ ReservationsCount /\ GenerationsTell /\ AnswersAreOfThisKey

-----------------------------------------------------------------------------
LEMMA FreeIsCall == Free \in CallRecords /\ Free.at = "free" /\ Free.gen = 0
BY AbuseAssumption DEF Free, CallRecords, Kinds, Endpoints

LEMMA ReservedIsFinite ==
    ASSUME NEW day, NEW e
    PROVE  IsFiniteSet(Reserved(day, e)) /\ Cardinality(Reserved(day, e)) \in Nat
<1>1. IsFiniteSet(Callers)
  BY AbuseAssumption
<1>2. IsFiniteSet(Callers \cup {Worker})
  BY <1>1, FS_AddElement
<1>3. Reserved(day, e) \in SUBSET (Callers \cup {Worker})
  BY DEF Reserved, Everyone
<1>4. IsFiniteSet(Reserved(day, e))
  BY <1>2, <1>3, FS_Subset
<1> QED BY <1>4, FS_CardinalityType

(* Fewer reservations, and nothing sent: less is spent. *)
LEMMA SpentShrinks ==
    ASSUME AbuseTypes, NEW day \in 0..MaxDays, NEW e \in Endpoints,
           Reserved(day, e)' \subseteq Reserved(day, e), abSent'[<<day, e>>] = abSent[<<day, e>>]
    PROVE  Spent(day, e) \in Nat /\ Spent(day, e)' \in Nat /\ Spent(day, e)' <= Spent(day, e)
<1> DEFINE old == Reserved(day, e)
           new == Reserved(day, e)'
<1>1. IsFiniteSet(old) /\ Cardinality(old) \in Nat
  BY ReservedIsFinite
<1>2. new \in SUBSET old
  OBVIOUS
<1>3. Cardinality(new) <= Cardinality(old) /\ Cardinality(new) \in Nat
  BY <1>1, <1>2, FS_Subset, FS_CardinalityType
<1>4. abSent[<<day, e>>] \in Nat
  BY DEF AbuseTypes
<1>5. Spent(day, e) = abSent[<<day, e>>] + Cardinality(old)
      /\ Spent(day, e)' = abSent[<<day, e>>] + Cardinality(new)
  BY DEF Spent
<1> HIDE DEF old, new
<1> QED BY <1>1, <1>3, <1>4, <1>5

(* Nothing is spent without a new reservation. *)
LEMMA CountKept ==
    ASSUME AbuseTypes, ReservationsCount,
           \A day \in 0..MaxDays, e \in Endpoints : Reserved(day, e)' \subseteq Reserved(day, e),
           abSent' = abSent, abDay' = abDay, abUsed' \in [Endpoints -> Nat],
           \A e \in Endpoints : abUsed'[e] >= abUsed[e]
    PROVE  ReservationsCount'
<1>1. \A day \in 0..MaxDays, e \in Endpoints :
        Spent(day, e) \in Nat /\ Spent(day, e)' \in Nat /\ Spent(day, e)' <= Spent(day, e)
  <2> TAKE day \in 0..MaxDays, e \in Endpoints
  <2>1. abSent'[<<day, e>>] = abSent[<<day, e>>]
    OBVIOUS
  <2> QED BY <2>1, SpentShrinks
<1>2. /\ abDay \in 0..MaxDays /\ Budget \in Nat
      /\ \A e \in Endpoints : abUsed[e] \in Nat /\ abUsed'[e] \in Nat
  BY AbuseAssumption DEF AbuseTypes
<1>3. \A e \in Endpoints : Spent(abDay, e)' <= Spent(abDay, e) /\ Spent(abDay, e) \in Nat
  <2>1. PICK today \in 0..MaxDays : today = abDay
    BY <1>2
  <2>2. \A e \in Endpoints : Spent(abDay, e)' = Spent(today, e)' /\ Spent(abDay, e) = Spent(today, e)
    BY <2>1 DEF Spent, Reserved
  <2> QED BY <1>1, <2>1, <2>2
<1>4. \A day \in 0..MaxDays, e \in Endpoints : Spent(day, e)' <= Budget
  BY <1>1, <1>2 DEF ReservationsCount
<1>5. \A e \in Endpoints : Spent(abDay, e)' <= abUsed'[e]
  <2>1. SUFFICES ASSUME NEW e \in Endpoints PROVE Spent(abDay, e)' <= abUsed'[e]
    OBVIOUS
  <2>2. Spent(abDay, e) <= abUsed[e]
    BY DEF ReservationsCount
  <2>3. Spent(abDay, e)' \in Nat
    <3>1. PICK today \in 0..MaxDays : today = abDay
      BY <1>2
    <3>2. Spent(abDay, e)' = Spent(today, e)'
      BY <3>1 DEF Spent, Reserved
    <3> QED BY <1>1, <3>2
  <2> QED BY <1>2, <1>3, <2>2, <2>3
<1>6. \A day \in 0..MaxDays, e \in Endpoints : day > abDay' => Spent(day, e)' = 0
  BY <1>1 DEF ReservationsCount
<1> QED BY <1>4, <1>5, <1>6 DEF ReservationsCount

(* A step that neither reserves nor sends, under settings that do not change. *)
LEMMA QuietStep ==
    ASSUME AbuseInvariant, AbuseTypes', UNCHANGED <<abGen, abKey, abSent, abDay>>,
           \A e \in Endpoints : abUsed'[e] >= abUsed[e],
           \A c \in Everyone :
             \/ abCalls'[c] = abCalls[c]
             \/ /\ abCalls'[c].at # "recheck"
                /\ abCalls'[c].gen <= abGen /\ (abCalls'[c].gen = abGen => abCalls'[c].key = abKey),
           \A i \in 1..Len(abQueue') : abQueue'[i].gen <= abGen,
           abList' \in {NoKey, abKey}, abCache' \in {0, abGen}, \A e \in Endpoints : abQuota'[e].key \in {NoKey, abKey}
    PROVE  AbuseInvariant'
<1>1. ReservationsCount'
  <2>1. \A day \in 0..MaxDays, e \in Endpoints : Reserved(day, e)' \subseteq Reserved(day, e)
    BY DEF Reserved
  <2> QED BY <2>1, CountKept DEF AbuseInvariant, AbuseTypes
<1>2. GenerationsTell'
  BY DEF AbuseInvariant, GenerationsTell
<1>3. AnswersAreOfThisKey'
  BY DEF AnswersAreOfThisKey
<1> QED BY <1>1, <1>2, <1>3 DEF AbuseInvariant

(* How a request of any kind ends. *)
LEMMA SettleEnds ==
    ASSUME AbuseInvariant, NEW c \in Everyone, NEW ok \in BOOLEAN, Settle(c, ok)
    PROVE  /\ abCalls' \in [Everyone -> CallRecords]
           /\ \A d \in Everyone : d # c => abCalls'[d] = abCalls[d]
           /\ abCalls'[c].at # "recheck"
           /\ abCalls'[c].gen <= abGen /\ (abCalls'[c].gen = abGen => abCalls'[c].key = abKey)
           /\ abCache' \in {0, abGen}
<1>1. /\ abCalls \in [Everyone -> CallRecords] /\ abGen \in Nat \ {0}
      /\ abCalls[c].gen <= abGen /\ (abCalls[c].gen = abGen => abCalls[c].key = abKey)
      /\ abCache \in {0, abGen}
  BY DEF AbuseInvariant, AbuseTypes, GenerationsTell, AnswersAreOfThisKey
<1>2. abCalls' = [abCalls EXCEPT ![c] = Free] \/ abCalls' = [abCalls EXCEPT ![c].at = "save"]
  BY DEF Settle
<1>3. abCache' \in {0, abGen}
  BY <1>1 DEF Settle, Current
<1>4. CASE abCalls' = [abCalls EXCEPT ![c] = Free]
  BY <1>1, <1>3, <1>4, FreeIsCall
<1>5. CASE abCalls' = [abCalls EXCEPT ![c].at = "save"]
  BY <1>1, <1>3, <1>5 DEF CallRecords
<1> QED BY <1>2, <1>4, <1>5

LEMMA RequestIsCall ==
    ASSUME AbuseInvariant, NEW at \in {"save", "begin", "reserve"}, NEW kind \in Kinds, NEW endpoint \in Endpoints,
           NEW gen \in Nat
    PROVE  /\ Request(at, kind, endpoint, gen) \in CallRecords
           /\ Request(at, kind, endpoint, gen).at = at /\ Request(at, kind, endpoint, gen).gen = gen
           /\ Request(at, kind, endpoint, gen).key = abKey
BY AbuseAssumption DEF Request, CallRecords, AbuseInvariant, AbuseTypes

LEMMA AbuseInvariantInit == AbuseInit => AbuseInvariant
<1> SUFFICES ASSUME AbuseInit PROVE AbuseInvariant
  OBVIOUS
<1>1. AbuseTypes
  <2>1. abQuota \in [Endpoints -> Quotas]
    BY DEF AbuseInit, UnknownQuota, Quotas
  <2>2. abCalls \in [Everyone -> CallRecords]
    BY FreeIsCall DEF AbuseInit, Everyone
  <2>3. abDay \in 0..MaxDays /\ abQueue \in Seq(Tasks)
    BY AbuseAssumption DEF AbuseInit
  <2> QED BY <2>1, <2>2, <2>3 DEF AbuseInit, AbuseTypes
<1>2. \A day \in 0..MaxDays, e \in Endpoints : Spent(day, e) = 0
  <2>1. \A day \in 0..MaxDays, e \in Endpoints : Reserved(day, e) = {}
    BY FreeIsCall DEF AbuseInit, Reserved, Everyone
  <2>2. \A day \in 0..MaxDays, e \in Endpoints : abSent[<<day, e>>] = 0
    BY DEF AbuseInit
  <2>3. Cardinality({}) = 0
    BY FS_EmptySet
  <2>4. SUFFICES ASSUME NEW day \in 0..MaxDays, NEW e \in Endpoints PROVE Spent(day, e) = 0
    OBVIOUS
  <2>5. Cardinality(Reserved(day, e)) = 0
    BY <2>1, <2>3
  <2> QED BY <2>2, <2>5 DEF Spent
<1>3. ReservationsCount
  <2>1. \A day \in 0..MaxDays, e \in Endpoints : Spent(day, e) <= Budget
    BY <1>2, AbuseAssumption
  <2>2. \A e \in Endpoints : Spent(abDay, e) <= abUsed[e]
    <3>1. abDay \in 0..MaxDays /\ \A e \in Endpoints : abUsed[e] = 0
      BY AbuseAssumption DEF AbuseInit
    <3> QED BY <1>2, <3>1
  <2> QED BY <1>2, <2>1, <2>2 DEF ReservationsCount
<1>4. GenerationsTell
  BY FreeIsCall DEF AbuseInit, GenerationsTell, Everyone
<1>5. AnswersAreOfThisKey
  BY DEF AbuseInit, AnswersAreOfThisKey, UnknownQuota
<1> QED BY <1>1, <1>3, <1>4, <1>5 DEF AbuseInvariant

-----------------------------------------------------------------------------
(* Failed logins, and the tasks and lists of the worker. *)
LEMMA WorkerKeeps ==
    ASSUME AbuseInvariant, ObserveFailures \/ NextTask \/ SaveList \/ LoadList
    PROVE  AbuseInvariant'
<1> USE DEF AbuseInvariant
<1>1. /\ UNCHANGED <<abUsed, abGen, abKey, abSent, abDay, abQuota>>
      /\ abCache' = abCache
  BY DEF ObserveFailures, NextTask, SaveList, LoadList, abTables
<1>2. /\ abCache \in {0, abGen} /\ \A e \in Endpoints : abQuota[e].key \in {NoKey, abKey}
      /\ abList \in {NoKey, abKey} /\ abGen \in Nat /\ Worker \in Everyone
      /\ \A e \in Endpoints : abUsed[e] \in Nat
      /\ \A i \in 1..Len(abQueue) : abQueue[i].gen <= abGen
      /\ abQueue \in Seq(Tasks) /\ abCalls \in [Everyone -> CallRecords]
  BY DEF AbuseTypes, AnswersAreOfThisKey, GenerationsTell, Everyone
<1>3. CASE ObserveFailures
  <2>1. /\ abQueue' \in Seq(Tasks) /\ \A i \in 1..Len(abQueue') : abQueue'[i].gen <= abGen
        /\ abCalls' = abCalls /\ abList' = abList
    <3>1. PICK report \in BOOLEAN, check \in BOOLEAN :
            LET waiting == IF check THEN Append(abQueue, [kind |-> "check", gen |-> abGen]) ELSE abQueue
                reported == report /\ Len(waiting) < MaxQueue
            IN  abQueue' = IF reported THEN Append(waiting, [kind |-> "report", gen |-> 0]) ELSE waiting
      BY <1>3 DEF ObserveFailures
    <3> DEFINE waiting == IF check THEN Append(abQueue, [kind |-> "check", gen |-> abGen]) ELSE abQueue
    <3>2. /\ [kind |-> "check", gen |-> abGen] \in Tasks /\ [kind |-> "report", gen |-> 0] \in Tasks
      BY <1>2 DEF Tasks
    <3>3. waiting \in Seq(Tasks) /\ \A i \in 1..Len(waiting) : waiting[i].gen <= abGen
      BY <1>2, <3>2
    <3>4. abQueue' \in {waiting, Append(waiting, [kind |-> "report", gen |-> 0])}
      BY <3>1
    <3> HIDE DEF waiting
    <3>5. ASSUME NEW q \in Seq(Tasks), \A i \in 1..Len(q) : q[i].gen <= abGen
          PROVE  LET longer == Append(q, [kind |-> "report", gen |-> 0])
                 IN  longer \in Seq(Tasks) /\ \A i \in 1..Len(longer) : longer[i].gen <= abGen
      BY <1>2, <3>2, <3>5
    <3>6. abQueue' \in Seq(Tasks) /\ \A i \in 1..Len(abQueue') : abQueue'[i].gen <= abGen
      <4>1. CASE abQueue' = waiting
        BY <3>3, <4>1
      <4>2. CASE abQueue' = Append(waiting, [kind |-> "report", gen |-> 0])
        BY <3>3, <3>5, <4>2
      <4> QED BY <3>4, <4>1, <4>2
    <3> QED BY <1>3, <3>6 DEF ObserveFailures
  <2>2. AbuseTypes'
    BY <1>1, <2>1 DEF AbuseTypes
  <2> QED BY <1>1, <1>2, <2>1, <2>2, QuietStep
<1>4. CASE NextTask
  <2>1. abList' = abList
    BY <1>4 DEF NextTask
  <2>2. abQueue' = abQueue \/ (abQueue # <<>> /\ abQueue' = Tail(abQueue))
    BY <1>4 DEF NextTask
  <2>3. abQueue' \in Seq(Tasks) /\ \A i \in 1..Len(abQueue') : abQueue'[i].gen <= abGen
    <3>1. CASE abQueue' = abQueue
      BY <1>2, <3>1
    <3>2. CASE abQueue # <<>> /\ abQueue' = Tail(abQueue)
      <4>1. abQueue' \in Seq(Tasks) /\ Len(abQueue') = Len(abQueue) - 1 /\ Len(abQueue) \in Nat
        BY <1>2, <3>2
      <4>2. \A i \in 1..Len(abQueue') : abQueue'[i] = abQueue[i + 1] /\ i + 1 \in 1..Len(abQueue)
        BY <1>2, <3>2, <4>1
      <4> QED BY <1>2, <4>1, <4>2
    <3> QED BY <2>2, <3>1, <3>2
  <2>4. abCalls' = abCalls
        \/ \E at \in {"save", "begin"}, kind \in Kinds, endpoint \in Endpoints, gen \in Nat :
             gen <= abGen /\ abCalls' = [abCalls EXCEPT ![Worker] = Request(at, kind, endpoint, gen)]
    <3>1. CASE abQueue = <<>> \/ abCalls' = abCalls
      BY <1>2, <1>4, <3>1 DEF NextTask, Takes, Kinds, Endpoints
    <3>2. CASE abQueue # <<>> /\ abCalls' # abCalls
      <4>1. Head(abQueue) \in Tasks /\ Head(abQueue).gen <= abGen
        BY <1>2, <3>2
      <4> QED BY <1>2, <1>4, <3>2, <4>1 DEF NextTask, Takes, Kinds, Endpoints, Tasks
    <3> QED BY <3>1, <3>2
  <2>5. CASE abCalls' = abCalls
    <3>1. AbuseTypes'
      BY <1>1, <2>3, <2>5 DEF AbuseTypes
    <3> QED BY <1>1, <1>2, <2>1, <2>3, <2>5, <3>1, QuietStep
  <2>6. ASSUME NEW at \in {"save", "begin"}, NEW kind \in Kinds, NEW endpoint \in Endpoints, NEW gen \in Nat,
               gen <= abGen, abCalls' = [abCalls EXCEPT ![Worker] = Request(at, kind, endpoint, gen)]
        PROVE  AbuseInvariant'
    <3>1. /\ Request(at, kind, endpoint, gen) \in CallRecords /\ Request(at, kind, endpoint, gen).at # "recheck"
          /\ Request(at, kind, endpoint, gen).gen = gen /\ Request(at, kind, endpoint, gen).key = abKey
      BY RequestIsCall
    <3>2. AbuseTypes'
      BY <1>1, <1>2, <2>3, <2>6, <3>1 DEF AbuseTypes
    <3>3. \A c \in Everyone :
             \/ abCalls'[c] = abCalls[c]
             \/ /\ abCalls'[c].at # "recheck"
                /\ abCalls'[c].gen <= abGen /\ (abCalls'[c].gen = abGen => abCalls'[c].key = abKey)
      BY <1>2, <2>6, <3>1
    <3> QED BY <1>1, <1>2, <2>1, <2>3, <3>2, <3>3, QuietStep
  <2> QED BY <2>4, <2>5, <2>6
<1>5. CASE SaveList \/ LoadList
  <2>1. abCalls' = [abCalls EXCEPT ![Worker] = Free] /\ abQueue' = abQueue
    BY <1>5 DEF SaveList, LoadList, Takes
  <2>2. abList' \in {NoKey, abKey}
    <3>1. abCalls[Worker].gen = abGen => abCalls[Worker].key = abKey
      BY <1>2 DEF GenerationsTell
    <3> QED BY <1>2, <1>5, <3>1 DEF SaveList, LoadList, Current
  <2>3. AbuseTypes'
    BY <1>1, <1>2, <2>1, FreeIsCall DEF AbuseTypes
  <2>4. \A c \in Everyone : abCalls'[c] = abCalls[c] \/ abCalls'[c] = Free
    BY <1>2, <2>1
  <2>5. 0 <= abGen /\ abGen # 0
    BY DEF AbuseTypes
  <2> QED BY <1>1, <1>2, <2>1, <2>2, <2>3, <2>4, <2>5, FreeIsCall, QuietStep
<1> QED BY <1>3, <1>4, <1>5

(* Requests of administrators, and what becomes of any request, up to its reservation and after it was sent. *)
LEMMA RequestKeeps ==
    ASSUME AbuseInvariant,
           \/ \E c \in Callers : Ask(c)
           \/ Begin
           \/ \E c \in Everyone : StorageUnavailable(c) \/ Answer(c) \/ Unreachable(c)
    PROVE  AbuseInvariant'
<1> USE DEF AbuseInvariant
<1>1. UNCHANGED <<abUsed, abGen, abKey, abSent, abDay, abQueue, abList>>
  BY DEF Ask, Begin, StorageUnavailable, Answer, Unreachable, abTables, abMemory
<1>2. /\ abCache \in {0, abGen} /\ abList \in {NoKey, abKey} /\ abGen \in Nat /\ Worker \in Everyone
      /\ abKey \in Keys \cup {NoKey}
      /\ abQuota \in [Endpoints -> Quotas] /\ \A e \in Endpoints : abQuota[e].key \in {NoKey, abKey}
      /\ \A e \in Endpoints : abUsed[e] \in Nat
      /\ \A i \in 1..Len(abQueue) : abQueue[i].gen <= abGen
      /\ abCalls \in [Everyone -> CallRecords]
      /\ \A c \in Everyone : abCalls[c].gen <= abGen /\ (abCalls[c].gen = abGen => abCalls[c].key = abKey)
  BY DEF AbuseTypes, AnswersAreOfThisKey, GenerationsTell, Everyone
<1>3. ASSUME NEW c \in Everyone, abCalls' \in [Everyone -> CallRecords],
             \A d \in Everyone : d # c => abCalls'[d] = abCalls[d],
             abCalls'[c].at # "recheck", abCalls'[c].gen <= abGen,
             abCalls'[c].gen = abGen => abCalls'[c].key = abKey,
             abCache' \in {0, abGen},
             abQuota' \in [Endpoints -> Quotas], \A e \in Endpoints : abQuota'[e].key \in {NoKey, abKey}
      PROVE  AbuseInvariant'
  <2>1. AbuseTypes'
    BY <1>1, <1>3 DEF AbuseTypes
  <2>2. \A d \in Everyone :
          \/ abCalls'[d] = abCalls[d]
          \/ /\ abCalls'[d].at # "recheck"
             /\ abCalls'[d].gen <= abGen /\ (abCalls'[d].gen = abGen => abCalls'[d].key = abKey)
    BY <1>3
  <2>3. /\ \A e \in Endpoints : abUsed'[e] >= abUsed[e]
        /\ \A i \in 1..Len(abQueue') : abQueue'[i].gen <= abGen
        /\ abList' \in {NoKey, abKey}
    BY <1>1, <1>2
  <2> QED BY <1>1, <1>3, <2>1, <2>2, <2>3, QuietStep
<1>4. ASSUME NEW c \in Callers, Ask(c)
      PROVE  AbuseInvariant'
  <2>1. UNCHANGED <<abQuota, abCache>>
    BY <1>4 DEF Ask, abMemory
  <2>2. PICK kind \in Kinds, endpoint \in Endpoints :
          abCalls' = [abCalls EXCEPT ![c] = Request("reserve", kind, endpoint, abGen)]
    BY <1>4 DEF Ask, Kinds
  <2>3. c \in Everyone
    BY DEF Everyone
  <2> QED BY <1>2, <1>3, <2>1, <2>2, <2>3, RequestIsCall
<1>5. CASE Begin
  <2>1. abQuota' = abQuota
    BY <1>5 DEF Begin
  <2>2. CASE abCalls' = [abCalls EXCEPT ![Worker].at = "reserve"] /\ UNCHANGED abCache
    <3>1. abCalls' \in [Everyone -> CallRecords] /\ abCalls'[Worker].at = "reserve"
          /\ abCalls'[Worker].gen = abCalls[Worker].gen /\ abCalls'[Worker].key = abCalls[Worker].key
      BY <1>2, <2>2 DEF CallRecords
    <3> QED BY <1>2, <1>3, <2>1, <2>2, <3>1
  <2>3. CASE Settle(Worker, FALSE)
    BY <1>2, <1>3, <2>1, <2>3, SettleEnds
  <2> QED BY <1>5, <2>2, <2>3 DEF Begin
<1>6. ASSUME NEW c \in Everyone, StorageUnavailable(c) \/ Unreachable(c)
      PROVE  AbuseInvariant'
  <2>1. abQuota' = abQuota /\ Settle(c, FALSE)
    BY <1>6 DEF StorageUnavailable, Unreachable
  <2> QED BY <1>2, <1>3, <2>1, SettleEnds
<1>7. ASSUME NEW c \in Everyone, Answer(c)
      PROVE  AbuseInvariant'
  <2>1. PICK ok \in BOOLEAN, level \in {"open", "reserve", "blocked"} :
          LET mine == abCalls[c].key = abKey
          IN  /\ abQuota' = IF mine THEN [abQuota EXCEPT ![abCalls[c].endpoint] = Merged(@, level, abKey)] ELSE abQuota
              /\ Settle(c, ok /\ mine)
    BY <1>7 DEF Answer
  <2>2. PICK good \in BOOLEAN : Settle(c, good)
    BY <2>1
  <2>3. abQuota' \in [Endpoints -> Quotas] /\ \A e \in Endpoints : abQuota'[e].key \in {NoKey, abKey}
    <3>1. \A e \in Endpoints : Merged(abQuota[e], level, abKey) \in Quotas
            /\ Merged(abQuota[e], level, abKey).key \in {NoKey, abKey}
      BY <1>2 DEF Merged, Quotas
    <3> QED BY <1>2, <2>1, <3>1
  <2> QED BY <1>2, <1>3, <2>2, <2>3, SettleEnds
<1> QED BY <1>4, <1>5, <1>6, <1>7

(* A reservation counts a request before it is sent. *)
LEMMA ReserveKeeps ==
    ASSUME AbuseInvariant, NEW c \in Everyone, Reserve(c)
    PROVE  AbuseInvariant'
<1> USE DEF AbuseInvariant
<1>1. UNCHANGED <<abGen, abKey, abSent, abDay, abQueue, abList, abQuota>>
  BY DEF Reserve
<1>2. /\ abCache \in {0, abGen} /\ abList \in {NoKey, abKey} /\ abGen \in Nat
      /\ abQuota \in [Endpoints -> Quotas] /\ \A e \in Endpoints : abQuota[e].key \in {NoKey, abKey}
      /\ abUsed \in [Endpoints -> Nat] /\ abDay \in 0..MaxDays /\ Budget \in Nat
      /\ \A i \in 1..Len(abQueue) : abQueue[i].gen <= abGen
      /\ abCalls \in [Everyone -> CallRecords] /\ abCalls[c].endpoint \in Endpoints
      /\ \A d \in Everyone : abCalls[d].gen <= abGen /\ (abCalls[d].gen = abGen => abCalls[d].key = abKey)
  BY AbuseAssumption DEF AbuseTypes, AnswersAreOfThisKey, GenerationsTell, CallRecords
<1>3. CASE ~Reservable(c)
  <2>1. Settle(c, FALSE) /\ abUsed' = abUsed
    BY <1>3 DEF Reserve
  <2>2. AbuseTypes'
    BY <1>1, <2>1, SettleEnds DEF AbuseTypes
  <2>3. \A d \in Everyone :
          \/ abCalls'[d] = abCalls[d]
          \/ /\ abCalls'[d].at # "recheck"
             /\ abCalls'[d].gen <= abGen /\ (abCalls'[d].gen = abGen => abCalls'[d].key = abKey)
    BY <2>1, SettleEnds
  <2>4. abCache' \in {0, abGen}
    BY <2>1, SettleEnds
  <2>5. \A e \in Endpoints : abUsed'[e] >= abUsed[e]
    BY <1>2, <2>1
  <2> QED BY <1>1, <1>2, <2>1, <2>2, <2>3, <2>4, <2>5, QuietStep
<1>4. CASE Reservable(c)
  <2> DEFINE e == abCalls[c].endpoint
  <2>1. /\ abUsed' = [abUsed EXCEPT ![e] = @ + 1] /\ abCache' = abCache /\ abCalls[c].at = "reserve"
        /\ abCalls' = [abCalls EXCEPT ![c].at = "recheck", ![c].day = abDay]
    BY <1>4 DEF Reserve
  <2>2. /\ abCalls'[c] = [abCalls[c] EXCEPT !.at = "recheck", !.day = abDay]
        /\ \A d \in Everyone : d # c => abCalls'[d] = abCalls[d]
        /\ abCalls' \in [Everyone -> CallRecords]
    <3> HIDE DEF e
    <3>1. abCalls[c] \in CallRecords
      BY <1>2
    <3>2. [abCalls[c] EXCEPT !.at = "recheck", !.day = abDay] \in CallRecords
      BY <1>2, <3>1 DEF CallRecords
    <3>3. abCalls' = [abCalls EXCEPT ![c] = [abCalls[c] EXCEPT !.at = "recheck", !.day = abDay]]
      BY <1>2, <2>1
    <3> QED BY <1>2, <3>2, <3>3
  <2>3. /\ abCalls'[c].at = "recheck" /\ abCalls'[c].day = abDay /\ abCalls'[c].kind = abCalls[c].kind
        /\ abCalls'[c].endpoint = e /\ abCalls'[c].gen = abCalls[c].gen /\ abCalls'[c].key = abCalls[c].key
    BY <1>2, <2>2 DEF CallRecords
  <2>4. AbuseTypes'
    BY <1>1, <1>2, <2>1, <2>2 DEF AbuseTypes
  <2>5. GenerationsTell' /\ AnswersAreOfThisKey'
    BY <1>1, <1>2, <2>1, <2>2, <2>3 DEF GenerationsTell, AnswersAreOfThisKey
  <2>6. CASE ~Automatic(abCalls[c].kind)
    <3>1. \A day \in 0..MaxDays, f \in Endpoints : Reserved(day, f)' \subseteq Reserved(day, f)
      BY <2>2, <2>3, <2>6 DEF Reserved
    <3>2. abUsed' \in [Endpoints -> Nat] /\ \A f \in Endpoints : abUsed'[f] >= abUsed[f]
      BY <1>2, <2>1
    <3> QED BY <1>1, <2>4, <2>5, <3>1, <3>2, CountKept
  <2>7. CASE Automatic(abCalls[c].kind)
    <3>1. abUsed[e] < Budget
      BY <1>4, <2>7 DEF Reservable
    <3>2. c \notin Reserved(abDay, e) /\ Reserved(abDay, e)' = Reserved(abDay, e) \cup {c}
      BY <1>1, <2>1, <2>2, <2>3, <2>7 DEF Reserved
    <3>3. Cardinality(Reserved(abDay, e)') = Cardinality(Reserved(abDay, e)) + 1
          /\ Cardinality(Reserved(abDay, e)) \in Nat
      BY <3>2, ReservedIsFinite, FS_AddElement
    <3>4. \A day \in 0..MaxDays, f \in Endpoints : <<day, f>> # <<abDay, e>> => Reserved(day, f)' = Reserved(day, f)
      BY <2>1, <2>2, <2>3 DEF Reserved
    <3>5. \A day \in 0..MaxDays, f \in Endpoints :
            /\ abSent'[<<day, f>>] = abSent[<<day, f>>] /\ abSent[<<day, f>>] \in Nat
            /\ Cardinality(Reserved(day, f)) \in Nat
      BY <1>1, ReservedIsFinite DEF AbuseTypes
    <3>6. \A day \in 0..MaxDays, f \in Endpoints :
            Spent(day, f)' = IF day = abDay /\ f = e THEN Spent(day, f) + 1 ELSE Spent(day, f)
      <4>1. SUFFICES ASSUME NEW day \in 0..MaxDays, NEW f \in Endpoints
                     PROVE  Spent(day, f)' = IF day = abDay /\ f = e THEN Spent(day, f) + 1 ELSE Spent(day, f)
        OBVIOUS
      <4>2. CASE day = abDay /\ f = e
        <5>1. Reserved(day, f)' = Reserved(abDay, e) \cup {c} /\ Reserved(day, f) = Reserved(abDay, e)
          BY <1>1, <2>3, <3>2, <4>2 DEF Reserved
        <5>2. Cardinality(Reserved(day, f)') = Cardinality(Reserved(day, f)) + 1
          BY <3>2, <3>3, <5>1
        <5> QED BY <3>5, <4>2, <5>2 DEF Spent
      <4>3. CASE ~(day = abDay /\ f = e)
        <5>1. Reserved(day, f)' = Reserved(day, f)
          BY <3>4, <4>3
        <5> QED BY <3>5, <4>3, <5>1 DEF Spent
      <4> QED BY <4>2, <4>3
    <3>7. \A day \in 0..MaxDays, f \in Endpoints : Spent(day, f) \in Nat
      <4>1. SUFFICES ASSUME NEW day \in 0..MaxDays, NEW f \in Endpoints PROVE Spent(day, f) \in Nat
        OBVIOUS
      <4>2. abSent[<<day, f>>] \in Nat /\ Cardinality(Reserved(day, f)) \in Nat
        BY <3>5
      <4> QED BY <4>2 DEF Spent
    <3>8. \A f \in Endpoints : abUsed'[f] = IF f = e THEN abUsed[f] + 1 ELSE abUsed[f]
      BY <1>2, <2>1
    <3>9. \A day \in 0..MaxDays, f \in Endpoints : Spent(day, f)' <= Budget
      <4>1. Spent(abDay, e) <= abUsed[e] /\ abUsed[e] \in Nat
        BY <1>2 DEF ReservationsCount
      <4> HIDE DEF e
      <4> QED BY <1>2, <3>1, <3>6, <3>7, <4>1 DEF ReservationsCount
    <3>10. \A f \in Endpoints : Spent(abDay, f)' <= abUsed'[f]
      <4>1. PICK today \in 0..MaxDays : today = abDay
        BY <1>2
      <4>2. \A f \in Endpoints : Spent(abDay, f)' = Spent(today, f)' /\ Spent(abDay, f) = Spent(today, f)
        BY <1>1, <4>1 DEF Spent, Reserved
      <4>3. \A f \in Endpoints : Spent(today, f) <= abUsed[f] /\ abUsed[f] \in Nat
        BY <1>2, <4>2 DEF ReservationsCount
      <4> HIDE DEF e
      <4>4. \A f \in Endpoints : Spent(today, f)' <= abUsed'[f]
        BY <3>6, <3>7, <3>8, <4>1, <4>3
      <4> QED BY <4>2, <4>4
    <3>11. \A day \in 0..MaxDays, f \in Endpoints : day > abDay' => Spent(day, f)' = 0
      BY <1>1, <1>2, <3>6 DEF ReservationsCount
    <3> QED BY <2>4, <2>5, <3>9, <3>10, <3>11 DEF ReservationsCount
  <2> QED BY <2>6, <2>7
<1> QED BY <1>3, <1>4

(* An automatic request that is sent moves from the reserved to the sent. *)
LEMMA SentIsReserved ==
    ASSUME AbuseTypes, NEW c \in Everyone, Send(c), abCalls[c].key = abKey, Automatic(abCalls[c].kind)
    PROVE  \A d \in 0..MaxDays, f \in Endpoints : Spent(d, f)' = Spent(d, f)
<1>1. /\ abSent \in [(0..MaxDays) \X Endpoints -> Nat]
      /\ abCalls \in [Everyone -> CallRecords] /\ abCalls[c] \in CallRecords
      /\ abCalls[c].endpoint \in Endpoints /\ abCalls[c].day \in 0..MaxDays
  BY DEF AbuseTypes, CallRecords
<1> DEFINE day == abCalls[c].day
           e == abCalls[c].endpoint
<1>2. /\ abCalls' = [abCalls EXCEPT ![c].at = "sent"] /\ abCalls[c].at = "recheck"
      /\ abSent' = [abSent EXCEPT ![<<day, e>>] = @ + 1]
  BY DEF Send
<1>3. abCalls'[c].at = "sent" /\ \A d \in Everyone : d # c => abCalls'[d] = abCalls[d]
  BY <1>1, <1>2 DEF CallRecords
<1>4. c \in Reserved(day, e) /\ Reserved(day, e)' = Reserved(day, e) \ {c}
  BY <1>2, <1>3 DEF Reserved
<1>5. \A d \in 0..MaxDays, f \in Endpoints : <<d, f>> # <<day, e>> => Reserved(d, f)' = Reserved(d, f)
  BY <1>2, <1>3 DEF Reserved
<1>6. \A d \in 0..MaxDays, f \in Endpoints :
        abSent'[<<d, f>>] = IF d = day /\ f = e THEN abSent[<<d, f>>] + 1 ELSE abSent[<<d, f>>]
  BY <1>1, <1>2
<1> HIDE DEF day, e
<1> SUFFICES ASSUME NEW d \in 0..MaxDays, NEW f \in Endpoints PROVE Spent(d, f)' = Spent(d, f)
  OBVIOUS
<1>7. abSent[<<d, f>>] \in Nat /\ Cardinality(Reserved(d, f)) \in Nat /\ IsFiniteSet(Reserved(d, f))
  BY <1>1, ReservedIsFinite
<1>8. CASE d = day /\ f = e
  <2>1. c \in Reserved(d, f) /\ Reserved(d, f)' = Reserved(d, f) \ {c}
    BY <1>2, <1>3, <1>8 DEF Reserved, day, e
  <2>2. Cardinality(Reserved(d, f)') = Cardinality(Reserved(d, f)) - 1
    BY <1>7, <2>1, FS_RemoveElement
  <2>3. abSent'[<<d, f>>] = abSent[<<d, f>>] + 1
    BY <1>6, <1>8
  <2> QED BY <1>7, <2>2, <2>3 DEF Spent
<1>9. CASE ~(d = day /\ f = e)
  <2>1. Reserved(d, f)' = Reserved(d, f) /\ abSent'[<<d, f>>] = abSent[<<d, f>>]
    BY <1>5, <1>6, <1>9
  <2> QED BY <2>1 DEF Spent
<1> QED BY <1>8, <1>9

(* Sending keeps the reservations' count. *)
LEMMA SendKeeps ==
    ASSUME AbuseInvariant, NEW c \in Everyone, Send(c)
    PROVE  AbuseInvariant'
<1> USE DEF AbuseInvariant
<1>1. UNCHANGED <<abUsed, abGen, abKey, abDay, abQueue, abList, abQuota>>
  BY DEF Send, abTables
<1>2. /\ abCache \in {0, abGen} /\ abList \in {NoKey, abKey} /\ abGen \in Nat
      /\ \A e \in Endpoints : abQuota[e].key \in {NoKey, abKey}
      /\ abUsed \in [Endpoints -> Nat] /\ abSent \in [(0..MaxDays) \X Endpoints -> Nat]
      /\ \A i \in 1..Len(abQueue) : abQueue[i].gen <= abGen
      /\ abCalls \in [Everyone -> CallRecords] /\ abCalls[c] \in CallRecords
      /\ abCalls[c].endpoint \in Endpoints /\ abCalls[c].day \in 0..MaxDays
      /\ \A d \in Everyone : abCalls[d].gen <= abGen /\ (abCalls[d].gen = abGen => abCalls[d].key = abKey)
  BY DEF AbuseTypes, AnswersAreOfThisKey, GenerationsTell, CallRecords
<1>3. \A e \in Endpoints : abUsed'[e] >= abUsed[e]
  BY <1>1, <1>2
<1>4. CASE abCalls[c].key # abKey
  <2>1. Settle(c, FALSE) /\ abSent' = abSent
    BY <1>4 DEF Send
  <2>2. AbuseTypes'
    BY <1>1, <2>1, SettleEnds DEF AbuseTypes
  <2>3. \A d \in Everyone :
          \/ abCalls'[d] = abCalls[d]
          \/ /\ abCalls'[d].at # "recheck"
             /\ abCalls'[d].gen <= abGen /\ (abCalls'[d].gen = abGen => abCalls'[d].key = abKey)
    BY <2>1, SettleEnds
  <2>4. abCache' \in {0, abGen}
    BY <2>1, SettleEnds
  <2> QED BY <1>1, <1>2, <1>3, <2>1, <2>2, <2>3, <2>4, QuietStep
<1>5. CASE abCalls[c].key = abKey
  <2>1. /\ abCalls' = [abCalls EXCEPT ![c].at = "sent"] /\ abCache' = abCache /\ abCalls[c].at = "recheck"
        /\ abSent' = IF Automatic(abCalls[c].kind)
                     THEN [abSent EXCEPT ![<<abCalls[c].day, abCalls[c].endpoint>>] = @ + 1] ELSE abSent
    BY <1>5 DEF Send
  <2>2. /\ abCalls' \in [Everyone -> CallRecords] /\ abCalls'[c].at = "sent"
        /\ abCalls'[c].gen = abCalls[c].gen /\ abCalls'[c].key = abCalls[c].key
        /\ \A d \in Everyone : d # c => abCalls'[d] = abCalls[d]
    BY <1>2, <2>1 DEF CallRecords
  <2>3. AbuseTypes'
    BY <1>1, <1>2, <2>1, <2>2 DEF AbuseTypes
  <2>4. CASE ~Automatic(abCalls[c].kind)
    <3>1. abSent' = abSent
      BY <2>1, <2>4
    <3>2. \A d \in Everyone :
            \/ abCalls'[d] = abCalls[d]
            \/ /\ abCalls'[d].at # "recheck"
               /\ abCalls'[d].gen <= abGen /\ (abCalls'[d].gen = abGen => abCalls'[d].key = abKey)
      BY <1>2, <2>2
    <3> QED BY <1>1, <1>2, <1>3, <2>1, <2>3, <3>1, <3>2, QuietStep
  <2>5. CASE Automatic(abCalls[c].kind)
    <3>1. \A d \in 0..MaxDays, f \in Endpoints : Spent(d, f)' = Spent(d, f)
      BY <1>5, <2>5, SentIsReserved
    <3>2. ReservationsCount'
      <4>1. PICK today \in 0..MaxDays : today = abDay
        BY DEF AbuseTypes
      <4>2. \A f \in Endpoints : Spent(abDay, f)' = Spent(today, f)' /\ Spent(abDay, f) = Spent(today, f)
        BY <1>1, <4>1 DEF Spent, Reserved
      <4> QED BY <1>1, <3>1, <4>1, <4>2 DEF ReservationsCount
    <3>3. GenerationsTell' /\ AnswersAreOfThisKey'
      BY <1>1, <1>2, <2>1, <2>2 DEF GenerationsTell, AnswersAreOfThisKey
    <3> QED BY <2>3, <3>2, <3>3
  <2> QED BY <2>4, <2>5
<1> QED BY <1>4, <1>5

-----------------------------------------------------------------------------
(* New settings and restarts: whatever is under way is of an older generation. *)
LEMMA SettingsKeep ==
    ASSUME AbuseInvariant, ChangeSettings \/ Restart
    PROVE  AbuseInvariant'
<1> USE DEF AbuseInvariant
<1>1. UNCHANGED <<abUsed, abSent, abDay>> /\ abGen' = abGen + 1
  BY DEF ChangeSettings, Restart, abTables
<1>2. abList' = NoKey /\ abQueue' = <<>> /\ abCache' = 0
  BY DEF ChangeSettings, Restart, Configure
<1>3. /\ abGen \in Nat \ {0} /\ abUsed \in [Endpoints -> Nat] /\ abCalls \in [Everyone -> CallRecords]
      /\ abKey \in Keys \cup {NoKey}
      /\ abQuota \in [Endpoints -> Quotas] /\ \A e \in Endpoints : abQuota[e].key \in {NoKey, abKey}
      /\ \A c \in Everyone : abCalls[c] \in CallRecords /\ abCalls[c].gen \in Nat /\ abCalls[c].gen <= abGen
  BY DEF AbuseTypes, AnswersAreOfThisKey, GenerationsTell, CallRecords
<1>4. abKey' \in Keys \cup {NoKey}
  BY <1>3 DEF ChangeSettings, Restart, Configure
<1>5. abQuota' \in [Endpoints -> Quotas] /\ \A e \in Endpoints : abQuota'[e].key \in {NoKey, abKey'}
  <2>1. abQuota' = [e \in Endpoints |-> UnknownQuota] \/ (abQuota' = abQuota /\ abKey' = abKey)
    BY DEF ChangeSettings, Restart, Configure
  <2>2. UnknownQuota \in Quotas /\ UnknownQuota.key = NoKey
    BY DEF UnknownQuota, Quotas
  <2> QED BY <1>3, <2>1, <2>2
<1>6. /\ abCalls' \in [Everyone -> CallRecords]
      /\ \A c \in Everyone : abCalls'[c] = abCalls[c] \/ abCalls'[c] = Free
  <2>1. abCalls' = abCalls \/ abCalls' = [c \in Everyone |-> Free]
    BY DEF ChangeSettings, Restart, Everyone
  <2> QED BY <1>3, <2>1, FreeIsCall
<1>7. AbuseTypes'
  BY <1>1, <1>2, <1>3, <1>4, <1>5, <1>6 DEF AbuseTypes
<1>8. GenerationsTell'
  <2>1. \A c \in Everyone : abCalls'[c].gen < abGen'
    BY <1>1, <1>3, <1>6, FreeIsCall
  <2>2. \A c \in Everyone : abCalls'[c].gen \in Nat
    BY <1>6 DEF CallRecords
  <2>3. abGen' \in Nat /\ Len(abQueue') = 0
    BY <1>1, <1>2, <1>3
  <2> QED BY <2>1, <2>2, <2>3 DEF GenerationsTell
<1>9. ReservationsCount'
  <2>1. \A day \in 0..MaxDays, e \in Endpoints : Reserved(day, e)' \subseteq Reserved(day, e)
    BY <1>6, FreeIsCall DEF Reserved
  <2>2. abUsed' \in [Endpoints -> Nat] /\ \A e \in Endpoints : abUsed'[e] >= abUsed[e]
    BY <1>1, <1>3
  <2> QED BY <1>1, <2>1, <2>2, CountKept
<1>10. AnswersAreOfThisKey'
  BY <1>2, <1>5 DEF AnswersAreOfThisKey
<1> QED BY <1>7, <1>8, <1>9, <1>10

(* Time: the next day's reservations start from nothing. *)
LEMMA TimeKeeps ==
    ASSUME AbuseInvariant, NextDay \/ Elapse \/ ListExpires
    PROVE  AbuseInvariant'
<1> USE DEF AbuseInvariant
<1>1. UNCHANGED <<abGen, abKey, abSent, abQueue, abCalls>>
  BY DEF NextDay, Elapse, ListExpires, abMemory
<1>2. /\ abCache \in {0, abGen} /\ abList \in {NoKey, abKey} /\ abGen \in Nat
      /\ abQuota \in [Endpoints -> Quotas] /\ \A e \in Endpoints : abQuota[e].key \in {NoKey, abKey}
      /\ abUsed \in [Endpoints -> Nat] /\ abDay \in 0..MaxDays /\ MaxDays \in Nat
      /\ \A i \in 1..Len(abQueue) : abQueue[i].gen <= abGen
  BY AbuseAssumption DEF AbuseTypes, AnswersAreOfThisKey, GenerationsTell
<1>3. CASE NextDay
  <2>1. abDay' = abDay + 1 /\ abDay' \in 0..MaxDays /\ abUsed' = [e \in Endpoints |-> 0]
        /\ UNCHANGED <<abQuota, abList, abCache>>
    BY <1>2, <1>3 DEF NextDay, abMemory
  <2>2. AbuseTypes'
    BY <1>1, <2>1 DEF AbuseTypes
  <2>3. \A day \in 0..MaxDays, e \in Endpoints : Spent(day, e)' = Spent(day, e)
    <3>1. \A day \in 0..MaxDays, e \in Endpoints : Reserved(day, e)' = Reserved(day, e)
      BY <1>1 DEF Reserved
    <3> QED BY <1>1, <3>1 DEF Spent
  <2>4. ReservationsCount'
    <3>1. PICK morrow \in 0..MaxDays : morrow = abDay'
      BY <2>1
    <3>2. \A e \in Endpoints : Spent(abDay, e)' = Spent(morrow, e)'
      BY <3>1 DEF Spent, Reserved
    <3>3. morrow > abDay
      BY <1>2, <2>1, <3>1
    <3>4. \A e \in Endpoints : Spent(morrow, e) = 0
      BY <3>3 DEF ReservationsCount
    <3>5. \A day \in 0..MaxDays : day > morrow => day > abDay
      BY <1>2, <3>3
    <3>6. \A e \in Endpoints : Spent(abDay, e)' <= abUsed'[e]
      BY <2>1, <2>3, <3>2, <3>4
    <3>7. \A day \in 0..MaxDays, e \in Endpoints : Spent(day, e)' <= Budget
      BY <2>3 DEF ReservationsCount
    <3>8. \A day \in 0..MaxDays, e \in Endpoints : day > abDay' => Spent(day, e)' = 0
      BY <2>3, <3>1, <3>5 DEF ReservationsCount
    <3> QED BY <3>6, <3>7, <3>8 DEF ReservationsCount
  <2>5. GenerationsTell' /\ AnswersAreOfThisKey'
    BY <1>1, <2>1 DEF GenerationsTell, AnswersAreOfThisKey
  <2> QED BY <2>2, <2>4, <2>5
<1>4. CASE Elapse \/ ListExpires
  <2>1. abUsed' = abUsed /\ abDay' = abDay
    BY <1>4 DEF Elapse, ListExpires
  <2>2. abList' \in {NoKey, abKey} /\ abCache' \in {0, abGen}
    BY <1>2, <1>4 DEF Elapse, ListExpires
  <2>3. abQuota' \in [Endpoints -> Quotas] /\ \A e \in Endpoints : abQuota'[e].key \in {NoKey, abKey}
    <3>1. abQuota' = abQuota \/ abQuota' = [e \in Endpoints |-> UnknownQuota]
      BY <1>4 DEF Elapse, ListExpires
    <3>2. UnknownQuota \in Quotas /\ UnknownQuota.key = NoKey
      BY DEF UnknownQuota, Quotas
    <3> QED BY <1>2, <3>1, <3>2
  <2>4. AbuseTypes'
    BY <1>1, <2>1, <2>3 DEF AbuseTypes
  <2>5. \A e \in Endpoints : abUsed'[e] >= abUsed[e]
    BY <1>2, <2>1
  <2> QED BY <1>1, <1>2, <2>1, <2>2, <2>3, <2>4, <2>5, QuietStep
<1> QED BY <1>3, <1>4

LEMMA AbuseInvariantStep == AbuseInvariant /\ [AbuseNext]_abVars => AbuseInvariant'
<1> SUFFICES ASSUME AbuseInvariant, [AbuseNext]_abVars PROVE AbuseInvariant'
  OBVIOUS
<1>1. CASE UNCHANGED abVars
  <2>1. UNCHANGED <<abUsed, abGen, abKey, abSent, abDay, abQueue, abCalls, abList, abCache, abQuota>>
    BY <1>1 DEF abVars, abTables, abMemory
  <2>2. \A day \in 0..MaxDays, e \in Endpoints : Reserved(day, e)' \subseteq Reserved(day, e)
    BY <2>1 DEF Reserved
  <2>3. AbuseTypes'
    BY <2>1 DEF AbuseInvariant, AbuseTypes
  <2>4. \A e \in Endpoints : abUsed'[e] >= abUsed[e]
    BY <2>1 DEF AbuseInvariant, AbuseTypes
  <2>5. ReservationsCount'
    BY <2>1, <2>2, <2>3, <2>4, CountKept DEF AbuseInvariant, AbuseTypes
  <2>6. GenerationsTell' /\ AnswersAreOfThisKey'
    BY <2>1 DEF AbuseInvariant, GenerationsTell, AnswersAreOfThisKey
  <2> QED BY <2>3, <2>5, <2>6 DEF AbuseInvariant
<1>2. CASE ObserveFailures \/ NextTask \/ SaveList \/ LoadList
  BY <1>2, WorkerKeeps
<1>3. CASE \/ \E c \in Callers : Ask(c)
           \/ Begin
           \/ \E c \in Everyone : StorageUnavailable(c) \/ Answer(c) \/ Unreachable(c)
  BY <1>3, RequestKeeps
<1>4. CASE \E c \in Everyone : Reserve(c) \/ Send(c)
  BY <1>4, ReserveKeeps, SendKeeps
<1>5. CASE ChangeSettings \/ Restart
  BY <1>5, SettingsKeep
<1>6. CASE NextDay \/ Elapse \/ ListExpires
  BY <1>6, TimeKeeps
<1> QED BY <1>1, <1>2, <1>3, <1>4, <1>5, <1>6 DEF AbuseNext, Everyone

(* No more automatic requests go out on a day's reservations than its budget,  *)
(* and a blacklist, a reputation or a quota in use was obtained with the       *)
(* present key and settings, however a change of the key or a restart falls    *)
(* between a request, its reservation and its answer (abuseipdb.cpp,           *)
(* AutomationStore::reserve, AbuseIpdbClient::perform and configure).          *)
THEOREM ClientKeepsItsKey == AbuseSpec => []ClientKeepsToItsKey
<1>1. AbuseInvariant => ClientKeepsToItsKey
  <2> SUFFICES ASSUME AbuseInvariant PROVE ClientKeepsToItsKey
    OBVIOUS
  <2>1. DOMAIN abSent = (0..MaxDays) \X Endpoints
    BY DEF AbuseInvariant, AbuseTypes
  <2>2. ASSUME NEW day \in 0..MaxDays, NEW e \in Endpoints PROVE abSent[<<day, e>>] <= Budget
    <3>1. Cardinality(Reserved(day, e)) \in Nat /\ abSent[<<day, e>>] \in Nat /\ Budget \in Nat
      BY ReservedIsFinite, AbuseAssumption DEF AbuseInvariant, AbuseTypes
    <3>2. abSent[<<day, e>>] + Cardinality(Reserved(day, e)) <= Budget
      BY DEF AbuseInvariant, ReservationsCount, Spent
    <3> QED BY <3>1, <3>2
  <2>3. BudgetKept
    BY <2>1, <2>2 DEF BudgetKept
  <2> QED BY <2>3 DEF AbuseInvariant, ClientKeepsToItsKey
<1> QED BY <1>1, AbuseInvariantInit, AbuseInvariantStep, PTL DEF AbuseSpec

-----------------------------------------------------------------------------
(* Requests that were counted and are not reserved yet. *)
Waiting(calls, endpoint) == {c \in Everyone : calls[c].at = "reserve" /\ calls[c].endpoint = endpoint}

RequestsCount ==
    /\ \A e \in Endpoints : abUsed[e] + Cardinality(Waiting(abCalls, e)) <= abCount
    /\ \A day \in 0..MaxDays, e \in Endpoints : Spent(day, e) <= MaxRequests

ScheduledHaveKeys(calls) == \A c \in Everyone : calls[c].kind = "scheduled" => calls[c].key \in Keys

AbuseBounds ==
    /\ abSaved \subseteq Keys /\ abTried \subseteq Keys /\ abLoad \in BOOLEAN /\ abPending \in BOOLEAN
    /\ Len(abQueue) <= MaxQueue /\ abGen <= MaxChanges + 1 /\ abCount \in 0..MaxRequests
    /\ ScheduledHaveKeys(abCalls) /\ RequestsCount

LEMMA WaitingIsFinite ==
    ASSUME NEW calls, NEW e
    PROVE  IsFiniteSet(Waiting(calls, e)) /\ Cardinality(Waiting(calls, e)) \in Nat
<1>1. IsFiniteSet(Callers \cup {Worker}) BY AbuseAssumption, FS_AddElement
<1>2. Waiting(calls, e) \in SUBSET (Callers \cup {Worker}) BY DEF Waiting, Everyone
<1>3. IsFiniteSet(Waiting(calls, e)) BY <1>1, <1>2, FS_Subset
<1> QED BY <1>3, FS_CardinalityType

(* How many wait, when one more or none comes. *)
LEMMA WaitingGrows ==
    ASSUME NEW calls, NEW after, NEW e, NEW c,
           Waiting(after, e) \subseteq Waiting(calls, e) \cup {c}
    PROVE  Cardinality(Waiting(after, e)) <= Cardinality(Waiting(calls, e)) + 1
<1> DEFINE old == Waiting(calls, e)
           new == Waiting(after, e)
<1>1. IsFiniteSet(old) /\ Cardinality(old) \in Nat /\ IsFiniteSet(new) /\ Cardinality(new) \in Nat BY WaitingIsFinite
<1>2. new \in SUBSET (old \cup {c}) OBVIOUS
<1> HIDE DEF old, new
<1>3. IsFiniteSet(old \cup {c}) /\ Cardinality(old \cup {c}) \in {Cardinality(old), Cardinality(old) + 1}
  BY <1>1, FS_AddElement
<1>4. Cardinality(new) <= Cardinality(old \cup {c}) BY <1>2, <1>3, FS_Subset
<1> QED BY <1>1, <1>3, <1>4 DEF old, new

LEMMA WaitingShrinks ==
    ASSUME NEW calls, NEW after, NEW e, Waiting(after, e) \subseteq Waiting(calls, e)
    PROVE  Cardinality(Waiting(after, e)) <= Cardinality(Waiting(calls, e))
<1> DEFINE old == Waiting(calls, e)
           new == Waiting(after, e)
<1>1. IsFiniteSet(old) BY WaitingIsFinite
<1>2. new \in SUBSET old OBVIOUS
<1> HIDE DEF old, new
<1>3. Cardinality(new) <= Cardinality(old) BY <1>1, <1>2, FS_Subset
<1> QED BY <1>3 DEF old, new

LEMMA WaitingLeaves ==
    ASSUME NEW calls, NEW after, NEW e, NEW c \in Waiting(calls, e),
           Waiting(after, e) \subseteq Waiting(calls, e) \ {c}
    PROVE  Cardinality(Waiting(after, e)) + 1 <= Cardinality(Waiting(calls, e))
<1> DEFINE old == Waiting(calls, e)
           new == Waiting(after, e)
<1>1. IsFiniteSet(old) /\ Cardinality(old) \in Nat /\ Cardinality(new) \in Nat BY WaitingIsFinite
<1>2. c \in old /\ new \in SUBSET (old \ {c}) OBVIOUS
<1> HIDE DEF old, new
<1>3. IsFiniteSet(old \ {c}) /\ Cardinality(old \ {c}) = Cardinality(old) - 1 BY <1>1, <1>2, FS_RemoveElement
<1>4. Cardinality(new) <= Cardinality(old \ {c}) BY <1>2, <1>3, FS_Subset
<1> QED BY <1>1, <1>3, <1>4 DEF old, new

-----------------------------------------------------------------------------
(* What a step does with the requests: each is ended, or goes one step on. *)
LEMMA SettleSteps ==
    ASSUME AbuseInvariant, ScheduledHaveKeys(abCalls), NEW c \in Everyone, NEW ok \in BOOLEAN, Settle(c, ok)
    PROVE  /\ ScheduledHaveKeys(abCalls') /\ \A e \in Endpoints : Waiting(abCalls', e) \subseteq Waiting(abCalls, e)
           /\ \A day \in 0..MaxDays, e \in Endpoints : Reserved(day, e)' \subseteq Reserved(day, e)
           /\ abPending' \in {abPending, FALSE}
<1>1. abCalls \in [Everyone -> CallRecords] BY DEF AbuseInvariant, AbuseTypes
<1>2. abCalls' = [abCalls EXCEPT ![c] = Free] \/ abCalls' = [abCalls EXCEPT ![c] = [abCalls[c] EXCEPT !.at = "save"]]
  BY DEF Settle
<1>3. /\ \A d \in Everyone : d # c => abCalls'[d] = abCalls[d]
      /\ abCalls'[c] = Free \/ abCalls'[c] = [abCalls[c] EXCEPT !.at = "save"]
  BY <1>1, <1>2
<1>4. /\ abCalls'[c].at # "reserve" /\ abCalls'[c].at # "recheck"
      /\ abCalls'[c].kind = "scheduled" => abCalls[c].kind = "scheduled" /\ abCalls'[c].key = abCalls[c].key
  BY <1>1, <1>3 DEF Free, CallRecords
<1>5. ScheduledHaveKeys(abCalls') BY <1>3, <1>4 DEF ScheduledHaveKeys
<1>6. \A e \in Endpoints : Waiting(abCalls', e) \subseteq Waiting(abCalls, e) BY <1>3, <1>4 DEF Waiting
<1>7. \A day \in 0..MaxDays, e \in Endpoints : Reserved(day, e)' \subseteq Reserved(day, e) BY <1>3, <1>4 DEF Reserved
<1>8. abPending' \in {abPending, FALSE} BY DEF Settle
<1> QED BY <1>5, <1>6, <1>7, <1>8

(* A step that neither counts, reserves nor sends a request. *)
LEMMA QuietBounds ==
    ASSUME AbuseInvariant, AbuseInvariant', AbuseBounds,
           abSaved' \subseteq Keys, abTried' \subseteq Keys, abLoad' \in BOOLEAN, abPending' \in BOOLEAN,
           Len(abQueue') <= MaxQueue, abGen' <= MaxChanges + 1, abCount' = abCount, abSent' = abSent,
           ScheduledHaveKeys(abCalls'), \A e \in Endpoints : abUsed'[e] <= abUsed[e],
           \A e \in Endpoints : Waiting(abCalls', e) \subseteq Waiting(abCalls, e),
           \A day \in 0..MaxDays, e \in Endpoints : Reserved(day, e)' \subseteq Reserved(day, e)
    PROVE  AbuseBounds'
<1>1. \A e \in Endpoints : abUsed'[e] + Cardinality(Waiting(abCalls', e)) <= abCount'
  <2> TAKE e \in Endpoints
  <2>1. Cardinality(Waiting(abCalls', e)) <= Cardinality(Waiting(abCalls, e)) BY WaitingShrinks
  <2>2. Cardinality(Waiting(abCalls', e)) \in Nat /\ Cardinality(Waiting(abCalls, e)) \in Nat BY WaitingIsFinite
  <2>3. abUsed[e] \in Nat /\ abUsed'[e] \in Nat /\ abCount \in Nat /\ abUsed'[e] <= abUsed[e] /\ abCount' = abCount
    BY DEF AbuseInvariant, AbuseTypes, AbuseBounds
  <2>4. abUsed[e] + Cardinality(Waiting(abCalls, e)) <= abCount BY DEF AbuseBounds, RequestsCount
  <2> QED BY <2>1, <2>2, <2>3, <2>4
<1>2. \A day \in 0..MaxDays, e \in Endpoints : Spent(day, e)' <= MaxRequests
  <2> TAKE day \in 0..MaxDays, e \in Endpoints
  <2>1. AbuseTypes BY DEF AbuseInvariant
  <2>2. Spent(day, e) \in Nat /\ Spent(day, e)' \in Nat /\ Spent(day, e)' <= Spent(day, e) BY <2>1, SpentShrinks
  <2>3. Spent(day, e) <= MaxRequests BY DEF AbuseBounds, RequestsCount
  <2> QED BY <2>2, <2>3, AbuseAssumption
<1>3. RequestsCount' BY <1>1, <1>2 DEF RequestsCount
<1> QED BY <1>3 DEF AbuseBounds

(* A day's requests are within the count; those of other days do not become more. *)
LEMMA CountedBounds ==
    ASSUME AbuseInvariant, AbuseInvariant', AbuseBounds,
           UNCHANGED <<abSaved, abLoad, abQueue, abGen, abDay>>,
           abTried' \subseteq Keys, abPending' \in BOOLEAN, abCount' \in 0..MaxRequests, ScheduledHaveKeys(abCalls'),
           \A e \in Endpoints : abUsed'[e] + Cardinality(Waiting(abCalls', e)) <= abCount',
           \A day \in 0..MaxDays, e \in Endpoints : day # abDay => Spent(day, e)' <= Spent(day, e)
    PROVE  AbuseBounds'
<1>1. \A day \in 0..MaxDays, e \in Endpoints : Spent(day, e)' <= MaxRequests
  <2> TAKE day \in 0..MaxDays, e \in Endpoints
  <2>0. Spent(day, e)' \in Nat /\ Spent(day, e) \in Nat /\ MaxRequests \in Nat
    <3>1. abSent[<<day, e>>] \in Nat /\ abSent'[<<day, e>>] \in Nat BY DEF AbuseInvariant, AbuseTypes
    <3>2. Cardinality(Reserved(day, e)) \in Nat BY ReservedIsFinite
    <3>3. Cardinality(Reserved(day, e)') \in Nat
      <4>1. Reserved(day, e)' \in SUBSET (Callers \cup {Worker}) BY DEF Reserved, Everyone
      <4>2. IsFiniteSet(Callers \cup {Worker}) BY AbuseAssumption, FS_AddElement
      <4> HIDE DEF Reserved
      <4> QED BY <4>1, <4>2, FS_Subset, FS_CardinalityType
    <3> DEFINE now == Cardinality(Reserved(day, e))
               then == Cardinality(Reserved(day, e)')
    <3>4. Spent(day, e) = abSent[<<day, e>>] + now /\ Spent(day, e)' = abSent'[<<day, e>>] + then BY DEF Spent
    <3>5. now \in Nat /\ then \in Nat BY <3>2, <3>3
    <3> HIDE DEF now, then
    <3> QED BY <3>1, <3>4, <3>5, AbuseAssumption
  <2>1. CASE day # abDay
    <3>1. Spent(day, e)' <= Spent(day, e) /\ Spent(day, e) <= MaxRequests BY <2>1 DEF AbuseBounds, RequestsCount
    <3> QED BY <2>0, <3>1
  <2>2. CASE day = abDay
    <3>1. Spent(day, e)' <= abUsed'[e]
      <4>1. Spent(abDay, e)' <= abUsed'[e] BY DEF AbuseInvariant, ReservationsCount
      <4>2. Spent(abDay, e)' = Spent(day, e)' BY <2>2 DEF Spent, Reserved
      <4> QED BY <4>1, <4>2
    <3>2. abUsed'[e] + Cardinality(Waiting(abCalls', e)) <= abCount' OBVIOUS
    <3>3. abUsed'[e] \in Nat /\ Cardinality(Waiting(abCalls', e)) \in Nat
      BY WaitingIsFinite DEF AbuseInvariant, AbuseTypes
    <3> QED BY <2>0, <3>1, <3>2, <3>3
  <2> QED BY <2>1, <2>2
<1>2. RequestsCount' BY <1>1 DEF RequestsCount
<1> QED BY <1>2 DEF AbuseBounds

LEMMA AbuseBoundsInit == AbuseInit => AbuseBounds
<1> SUFFICES ASSUME AbuseInit PROVE AbuseBounds
  OBVIOUS
<1>1. AbuseTypes /\ ReservationsCount BY AbuseInvariantInit DEF AbuseInvariant
<1>2. \A c \in Everyone : abCalls[c] = Free BY DEF AbuseInit, Everyone
<1>3. \A e \in Endpoints : abUsed[e] + Cardinality(Waiting(abCalls, e)) <= abCount
  <2> TAKE e \in Endpoints
  <2>1. Waiting(abCalls, e) = {} BY <1>2, FreeIsCall DEF Waiting
  <2>2. Cardinality(Waiting(abCalls, e)) = 0 BY <2>1, FS_EmptySet
  <2> QED BY <2>2 DEF AbuseInit
<1>4. \A day \in 0..MaxDays, e \in Endpoints : Spent(day, e) <= MaxRequests
  <2> TAKE day \in 0..MaxDays, e \in Endpoints
  <2>1. Reserved(day, e) = {} BY <1>2, FreeIsCall DEF Reserved
  <2>2. Cardinality(Reserved(day, e)) = 0 BY <2>1, FS_EmptySet
  <2>3. abSent[<<day, e>>] = 0 BY DEF AbuseInit
  <2> QED BY <2>2, <2>3, AbuseAssumption DEF Spent
<1>5. ScheduledHaveKeys(abCalls)
  <2>1. Free.kind = "load" BY DEF Free
  <2> QED BY <1>2, <2>1 DEF ScheduledHaveKeys
<1>6. Len(abQueue) <= MaxQueue /\ abGen <= MaxChanges + 1 /\ abCount \in 0..MaxRequests
  BY AbuseAssumption DEF AbuseInit
<1> QED BY <1>3, <1>4, <1>5, <1>6 DEF AbuseInit, AbuseBounds, RequestsCount

(* Tasks are queued while there is room, and scheduled requests begin with a key. *)
LEMMA WorkerBounds ==
    ASSUME AbuseInvariant, AbuseInvariant', AbuseBounds, ObserveFailures \/ NextTask \/ SaveList \/ LoadList
    PROVE  AbuseBounds'
<1>1. /\ UNCHANGED <<abUsed, abTried, abGen, abKey, abSent, abDay, abCount>>
      /\ abPending' \in BOOLEAN /\ abLoad' \in BOOLEAN
  BY DEF ObserveFailures, NextTask, SaveList, LoadList, abTables, AbuseBounds
<1>2. /\ abQueue \in Seq(Tasks) /\ abCalls \in [Everyone -> CallRecords] /\ Worker \in Everyone
      /\ MaxQueue \in Nat /\ abKey \in Keys \cup {NoKey} /\ abUsed \in [Endpoints -> Nat]
      /\ abCalls[Worker] \in CallRecords
  BY AbuseAssumption DEF AbuseInvariant, AbuseTypes, Everyone
<1>3. Len(abQueue') <= MaxQueue
  <2>1. CASE ObserveFailures
    <3>1. PICK report \in BOOLEAN, check \in BOOLEAN :
            LET waiting == IF check THEN Append(abQueue, [kind |-> "check", gen |-> abGen]) ELSE abQueue
                reported == report /\ Len(waiting) < MaxQueue
            IN  /\ check => Len(abQueue) < MaxQueue
                /\ abQueue' = IF reported THEN Append(waiting, [kind |-> "report", gen |-> 0]) ELSE waiting
      BY <2>1 DEF ObserveFailures
    <3> DEFINE waiting == IF check THEN Append(abQueue, [kind |-> "check", gen |-> abGen]) ELSE abQueue
    <3>2. [kind |-> "check", gen |-> abGen] \in Tasks
      BY DEF AbuseInvariant, AbuseTypes, Tasks
    <3>3. waiting \in Seq(Tasks) /\ Len(waiting) <= MaxQueue
      BY <1>2, <3>1, <3>2 DEF AbuseBounds
    <3>4. abQueue' = waiting \/ (Len(waiting) < MaxQueue /\ abQueue' = Append(waiting, [kind |-> "report", gen |-> 0]))
      BY <3>1
    <3> HIDE DEF waiting
    <3> QED BY <1>2, <3>3, <3>4
  <2>2. CASE NextTask
    <3>1. abQueue' = abQueue \/ (abQueue # <<>> /\ abQueue' = Tail(abQueue)) BY <2>2 DEF NextTask
    <3> QED BY <1>2, <3>1 DEF AbuseBounds
  <2>3. CASE SaveList \/ LoadList
    BY <2>3 DEF SaveList, LoadList, AbuseBounds
  <2> QED BY <2>1, <2>2, <2>3
<1>4. \/ abCalls' = abCalls
      \/ abCalls' = [abCalls EXCEPT ![Worker] = Free]
      \/ \E at \in {"save", "begin"} : \E kind, endpoint, gen :
           /\ kind = "scheduled" => abKey # NoKey
           /\ abCalls' = [abCalls EXCEPT ![Worker] = Request(at, kind, endpoint, gen)]
  <2>1. CASE ObserveFailures BY <2>1 DEF ObserveFailures
  <2>2. CASE NextTask
    <3>1. CASE abQueue = <<>> BY <2>2, <3>1 DEF NextTask, Takes
    <3>2. CASE abQueue # <<>>
      <4>1. Head(abQueue).kind # "scheduled"
        <5>1. Head(abQueue) \in Tasks BY <1>2, <3>2
        <5> QED BY <5>1 DEF Tasks
      <4> QED BY <2>2, <4>1 DEF NextTask, Takes
    <3> QED BY <3>1, <3>2
  <2>3. CASE SaveList \/ LoadList BY <2>3 DEF SaveList, LoadList, Takes
  <2> QED BY <2>1, <2>2, <2>3
<1>5. /\ \A c \in Everyone : c # Worker => abCalls'[c] = abCalls[c]
      /\ abCalls' = abCalls \/ (abCalls'[Worker].at \in {"free", "save", "begin"}
                                /\ (abCalls'[Worker].kind = "scheduled" => abCalls'[Worker].key \in Keys))
  <2>1. CASE abCalls' = abCalls BY <2>1
  <2>2. CASE abCalls' = [abCalls EXCEPT ![Worker] = Free] BY <1>2, <2>2 DEF Free
  <2>3. ASSUME NEW at \in {"save", "begin"}, NEW kind, NEW endpoint, NEW gen, kind = "scheduled" => abKey # NoKey,
               abCalls' = [abCalls EXCEPT ![Worker] = Request(at, kind, endpoint, gen)]
        PROVE  abCalls'[Worker].at \in {"save", "begin"} /\ (abCalls'[Worker].kind = "scheduled" => abCalls'[Worker].key \in Keys)
               /\ \A c \in Everyone : c # Worker => abCalls'[c] = abCalls[c]
    BY <1>2, <2>3 DEF Request
  <2> QED BY <1>4, <2>1, <2>2, <2>3
<1>6. ScheduledHaveKeys(abCalls')
  BY <1>5 DEF AbuseBounds, ScheduledHaveKeys
<1>7. \A e \in Endpoints : Waiting(abCalls', e) \subseteq Waiting(abCalls, e)
  BY <1>5 DEF Waiting
<1>8. \A day \in 0..MaxDays, e \in Endpoints : Reserved(day, e)' \subseteq Reserved(day, e)
  BY <1>5 DEF Reserved
<1>9. abSaved' \subseteq Keys
  <2>1. CASE SaveList
    <3>1. abCalls[Worker].key \in Keys BY <1>2, <2>1 DEF SaveList, AbuseBounds, ScheduledHaveKeys
    <3> QED BY <2>1, <3>1 DEF SaveList, AbuseBounds
  <2>2. CASE ObserveFailures \/ NextTask \/ LoadList
    BY <2>2 DEF ObserveFailures, NextTask, LoadList, abTables, AbuseBounds
  <2> QED BY <2>1, <2>2
<1>10. /\ abTried' \subseteq Keys /\ abGen' <= MaxChanges + 1 /\ abCount' = abCount /\ abSent' = abSent
       /\ \A e \in Endpoints : abUsed'[e] <= abUsed[e]
  BY <1>1, <1>2 DEF AbuseBounds
<1> QED BY <1>1, <1>3, <1>6, <1>7, <1>8, <1>9, <1>10, QuietBounds

(* A request is counted when it is asked for: one more waits. *)
LEMMA AskedBounds ==
    ASSUME AbuseInvariant, AbuseInvariant', AbuseBounds, NEW c \in Everyone, NEW call,
           UNCHANGED <<abTables, abLoad, abQueue, abGen, abDay, abSent>>, abPending' \in BOOLEAN,
           abCount < MaxRequests, abCount' = abCount + 1,
           abCalls' = [abCalls EXCEPT ![c] = call], call.at = "reserve", call.kind = "scheduled" => call.key \in Keys
    PROVE  AbuseBounds'
<1>1. /\ abCalls \in [Everyone -> CallRecords] /\ abUsed \in [Endpoints -> Nat]
      /\ abUsed' = abUsed /\ abTried' = abTried /\ abSaved' = abSaved
  BY DEF AbuseInvariant, AbuseTypes, abTables
<1>2. abCount' \in 0..MaxRequests /\ abCount \in Nat BY AbuseAssumption DEF AbuseBounds
<1>3. abCalls'[c] = call /\ \A d \in Everyone : d # c => abCalls'[d] = abCalls[d] BY <1>1
<1>4. ScheduledHaveKeys(abCalls') BY <1>3 DEF AbuseBounds, ScheduledHaveKeys
<1>5. \A e \in Endpoints : abUsed'[e] + Cardinality(Waiting(abCalls', e)) <= abCount'
  <2> TAKE e \in Endpoints
  <2>1. Waiting(abCalls', e) \subseteq Waiting(abCalls, e) \cup {c} BY <1>3 DEF Waiting
  <2>2. Cardinality(Waiting(abCalls', e)) <= Cardinality(Waiting(abCalls, e)) + 1 BY <2>1, WaitingGrows
  <2>3. Cardinality(Waiting(abCalls', e)) \in Nat /\ Cardinality(Waiting(abCalls, e)) \in Nat BY WaitingIsFinite
  <2>4. abUsed[e] \in Nat /\ abUsed'[e] = abUsed[e] BY <1>1
  <2>5. abUsed[e] + Cardinality(Waiting(abCalls, e)) <= abCount BY DEF AbuseBounds, RequestsCount
  <2> QED BY <1>2, <2>2, <2>3, <2>4, <2>5
<1>6. \A day \in 0..MaxDays, e \in Endpoints : Spent(day, e)' <= Spent(day, e)
  <2>1. AbuseTypes BY DEF AbuseInvariant
  <2> TAKE day \in 0..MaxDays, e \in Endpoints
  <2>2. Reserved(day, e)' \subseteq Reserved(day, e) BY <1>3 DEF Reserved
  <2> QED BY <2>1, <2>2, SpentShrinks
<1>7. abTried' \subseteq Keys BY <1>1 DEF AbuseBounds
<1> QED BY <1>1, <1>2, <1>4, <1>5, <1>6, <1>7, CountedBounds

(* Reserving moves a request from those that wait to those in use. *)
LEMMA ReserveBounds ==
    ASSUME AbuseInvariant, AbuseInvariant', AbuseBounds, NEW c \in Everyone, Reserve(c)
    PROVE  AbuseBounds'
<1>1. /\ abCalls \in [Everyone -> CallRecords] /\ abUsed \in [Endpoints -> Nat] /\ abCalls[c] \in CallRecords
      /\ abCalls[c].endpoint \in Endpoints /\ abDay \in 0..MaxDays
  BY DEF AbuseInvariant, AbuseTypes, CallRecords
<1>2. /\ UNCHANGED <<abSaved, abLoad, abQueue, abGen, abDay, abCount, abSent>> /\ abCalls[c].at = "reserve"
      /\ abTried' \in {abTried, abTried \cup {abCalls[c].key}}
      /\ abTried' = abTried \/ abCalls[c].kind = "scheduled"
  BY DEF Reserve
<1>3. abTried' \subseteq Keys
  BY <1>2 DEF AbuseBounds, ScheduledHaveKeys
<1>4. CASE ~Reservable(c)
  <2>1. Settle(c, FALSE) /\ abUsed' = abUsed BY <1>4 DEF Reserve
  <2>2. ScheduledHaveKeys(abCalls) BY DEF AbuseBounds
  <2>3. /\ ScheduledHaveKeys(abCalls') /\ \A e \in Endpoints : Waiting(abCalls', e) \subseteq Waiting(abCalls, e)
        /\ \A day \in 0..MaxDays, e \in Endpoints : Reserved(day, e)' \subseteq Reserved(day, e)
        /\ abPending' \in {abPending, FALSE}
    BY <2>1, <2>2, SettleSteps
  <2>4. /\ abSaved' \subseteq Keys /\ abLoad' \in BOOLEAN /\ abPending' \in BOOLEAN /\ Len(abQueue') <= MaxQueue
        /\ abGen' <= MaxChanges + 1 /\ \A e \in Endpoints : abUsed'[e] <= abUsed[e]
    <3>1. abPending' \in BOOLEAN BY Zenon, <2>3 DEF AbuseBounds
    <3>2. /\ abSaved' = abSaved /\ abLoad' = abLoad /\ abQueue' = abQueue /\ abGen' = abGen BY <1>2
    <3>3. abSaved' \subseteq Keys /\ abLoad' \in BOOLEAN BY Zenon, <3>2 DEF AbuseBounds
    <3>4. Len(abQueue') <= MaxQueue /\ abGen' <= MaxChanges + 1 BY <3>2 DEF AbuseBounds
    <3>5. \A e \in Endpoints : abUsed'[e] <= abUsed[e] BY <1>1, <2>1
    <3> QED BY <3>1, <3>3, <3>4, <3>5
  <2> QED BY <1>2, <1>3, <2>3, <2>4, QuietBounds
<1>5. CASE Reservable(c)
  <2> DEFINE f == abCalls[c].endpoint
  <2>1. /\ abUsed' = [abUsed EXCEPT ![f] = @ + 1] /\ abPending' = abPending
        /\ abCalls' = [abCalls EXCEPT ![c] = [abCalls[c] EXCEPT !.at = "recheck", !.day = abDay]]
    BY <1>1, <1>5 DEF Reserve
  <2>2. /\ abCalls'[c].at = "recheck" /\ abCalls'[c].day = abDay /\ abCalls'[c].kind = abCalls[c].kind
        /\ abCalls'[c].key = abCalls[c].key /\ abCalls'[c].endpoint = f
        /\ \A d \in Everyone : d # c => abCalls'[d] = abCalls[d]
    <3>1. LET later == [abCalls[c] EXCEPT !.at = "recheck", !.day = abDay]
          IN  later.at = "recheck" /\ later.day = abDay /\ later.kind = abCalls[c].kind /\ later.key = abCalls[c].key
              /\ later.endpoint = abCalls[c].endpoint
      BY <1>1 DEF CallRecords
    <3>2. abCalls'[c] = [abCalls[c] EXCEPT !.at = "recheck", !.day = abDay] BY <1>1, <2>1
    <3>3. \A d \in Everyone : d # c => abCalls'[d] = abCalls[d] BY <1>1, <2>1
    <3> QED BY <3>1, <3>2, <3>3
  <2>3. \A e \in Endpoints : abUsed'[e] = IF e = f THEN abUsed[e] + 1 ELSE abUsed[e] BY <1>1, <2>1
  <2>4. c \in Waiting(abCalls, f) /\ Waiting(abCalls', f) \subseteq Waiting(abCalls, f) \ {c}
    BY <1>2, <2>2 DEF Waiting
  <2>5. \A e \in Endpoints : Waiting(abCalls', e) \subseteq Waiting(abCalls, e) BY <2>2 DEF Waiting
  <2>6. ScheduledHaveKeys(abCalls') BY <2>2 DEF AbuseBounds, ScheduledHaveKeys
  <2> HIDE DEF f
  <2>7. \A e \in Endpoints : abUsed'[e] + Cardinality(Waiting(abCalls', e)) <= abCount'
    <3> TAKE e \in Endpoints
    <3>1. Cardinality(Waiting(abCalls', e)) \in Nat /\ Cardinality(Waiting(abCalls, e)) \in Nat BY WaitingIsFinite
    <3>2. abUsed[e] + Cardinality(Waiting(abCalls, e)) <= abCount BY DEF AbuseBounds, RequestsCount
    <3>3. abUsed[e] \in Nat /\ abCount \in Nat /\ abCount' = abCount BY <1>1, <1>2 DEF AbuseBounds
    <3>4. CASE e = f
      <4>1. Cardinality(Waiting(abCalls', e)) + 1 <= Cardinality(Waiting(abCalls, e)) BY <2>4, <3>4, WaitingLeaves
      <4>2. abUsed'[e] = abUsed[e] + 1 BY <2>3, <3>4
      <4> QED BY <3>1, <3>2, <3>3, <4>1, <4>2
    <3>5. CASE e # f
      <4>1. Cardinality(Waiting(abCalls', e)) <= Cardinality(Waiting(abCalls, e)) BY <2>5, WaitingShrinks
      <4>2. abUsed'[e] = abUsed[e] BY <2>3, <3>5
      <4> QED BY <3>1, <3>2, <3>3, <4>1, <4>2
    <3> QED BY <3>4, <3>5
  <2>8. \A day \in 0..MaxDays, e \in Endpoints : day # abDay => Spent(day, e)' <= Spent(day, e)
    <3>1. AbuseTypes BY DEF AbuseInvariant
    <3> TAKE day \in 0..MaxDays, e \in Endpoints
    <3>2. day # abDay => Reserved(day, e)' \subseteq Reserved(day, e) BY <2>2 DEF Reserved
    <3>3. abSent'[<<day, e>>] = abSent[<<day, e>>] BY <1>2
    <3> QED BY <3>1, <3>2, <3>3, SpentShrinks
  <2>9. abPending' \in BOOLEAN /\ abCount' \in 0..MaxRequests BY <1>2, <2>1 DEF AbuseBounds
  <2> QED BY <1>2, <1>3, <2>6, <2>7, <2>8, <2>9, CountedBounds
<1> QED BY <1>4, <1>5

LEMMA RequestBounds ==
    ASSUME AbuseInvariant, AbuseInvariant', AbuseBounds,
           \/ \E c \in Callers : Ask(c)
           \/ Begin
           \/ \E c \in Everyone : StorageUnavailable(c) \/ Answer(c) \/ Unreachable(c)
    PROVE  AbuseBounds'
<1>0. ScheduledHaveKeys(abCalls) BY DEF AbuseBounds
<1>1. ASSUME NEW c \in Everyone, NEW ok \in BOOLEAN, Settle(c, ok),
             UNCHANGED <<abTables, abKey, abGen, abList, abLoad, abQueue, abDay, abCount, abSent>>
      PROVE  AbuseBounds'
  <2>1. /\ ScheduledHaveKeys(abCalls') /\ \A e \in Endpoints : Waiting(abCalls', e) \subseteq Waiting(abCalls, e)
        /\ \A day \in 0..MaxDays, e \in Endpoints : Reserved(day, e)' \subseteq Reserved(day, e)
        /\ abPending' \in {abPending, FALSE}
    BY <1>0, <1>1, SettleSteps
  <2>2. abUsed \in [Endpoints -> Nat] BY DEF AbuseInvariant, AbuseTypes
  <2>3. /\ abSaved' \subseteq Keys /\ abTried' \subseteq Keys /\ abLoad' \in BOOLEAN /\ abPending' \in BOOLEAN
        /\ Len(abQueue') <= MaxQueue
        /\ abGen' <= MaxChanges + 1 /\ \A e \in Endpoints : abUsed'[e] <= abUsed[e]
    <3>1. abPending' \in BOOLEAN BY Zenon, <2>1 DEF AbuseBounds
    <3>2. /\ UNCHANGED <<abSaved, abTried, abLoad, abQueue, abGen, abUsed>> BY <1>1 DEF abTables
    <3>3. abSaved' \subseteq Keys /\ abTried' \subseteq Keys /\ abLoad' \in BOOLEAN BY Zenon, <3>2 DEF AbuseBounds
    <3>4. Len(abQueue') <= MaxQueue /\ abGen' <= MaxChanges + 1 BY <3>2 DEF AbuseBounds
    <3>5. \A e \in Endpoints : abUsed'[e] <= abUsed[e] BY <2>2, <3>2
    <3> QED BY <3>1, <3>3, <3>4, <3>5
  <2> QED BY <1>1, <2>1, <2>3, QuietBounds
<1>2. ASSUME NEW c \in Callers, Ask(c) PROVE AbuseBounds'
  <2>1. PICK kind \in {"manual", "probe"}, endpoint \in Endpoints :
          abCalls' = [abCalls EXCEPT ![c] = Request("reserve", kind, endpoint, abGen)]
    BY <1>2 DEF Ask
  <2>2. /\ UNCHANGED <<abTables, abLoad, abQueue, abGen, abDay, abSent, abPending>>
        /\ abCount < MaxRequests /\ abCount' = abCount + 1
    BY <1>2 DEF Ask, abMemory
  <2> DEFINE call == Request("reserve", kind, endpoint, abGen)
  <2>3. call.at = "reserve" /\ call.kind # "scheduled" BY DEF Request
  <2>4. c \in Everyone /\ abPending' \in BOOLEAN BY <2>2 DEF Everyone, AbuseBounds
  <2> HIDE DEF call
  <2> QED BY <2>1, <2>2, <2>3, <2>4, AskedBounds DEF call
<1>3. CASE Begin
  <2>1. Worker \in Everyone BY DEF Everyone
  <2>2. UNCHANGED <<abTables, abKey, abGen, abList, abLoad, abQueue, abDay, abSent>> BY <1>3 DEF Begin
  <2>3. CASE Settle(Worker, FALSE) /\ abCount' = abCount BY <1>1, <2>1, <2>2, <2>3
  <2>4. CASE /\ abCount < MaxRequests /\ abCount' = abCount + 1 /\ abPending' = abPending
             /\ abCalls' = [abCalls EXCEPT ![Worker].at = "reserve"]
    <3> DEFINE call == [abCalls[Worker] EXCEPT !.at = "reserve"]
    <3>1. abCalls[Worker] \in CallRecords BY <2>1 DEF AbuseInvariant, AbuseTypes
    <3>2. call.at = "reserve" /\ (call.kind = "scheduled" => call.key \in Keys)
      <4>1. call.at = "reserve" /\ call.kind = abCalls[Worker].kind /\ call.key = abCalls[Worker].key
        BY <3>1 DEF CallRecords
      <4> QED BY <1>0, <2>1, <4>1 DEF ScheduledHaveKeys
    <3>3. abCalls' = [abCalls EXCEPT ![Worker] = call] BY <2>4
    <3>4. abPending' \in BOOLEAN BY <2>4 DEF AbuseBounds
    <3> HIDE DEF call
    <3> QED BY <2>1, <2>2, <2>4, <3>2, <3>3, <3>4, AskedBounds
  <2> QED BY <1>3, <2>3, <2>4 DEF Begin
<1>4. ASSUME NEW c \in Everyone, StorageUnavailable(c) \/ Answer(c) \/ Unreachable(c) PROVE AbuseBounds'
  <2>1. /\ UNCHANGED <<abTables, abKey, abGen, abList, abLoad, abQueue, abDay, abCount, abSent>>
        /\ \E ok \in BOOLEAN : Settle(c, ok)
    BY <1>4 DEF StorageUnavailable, Answer, Unreachable
  <2> QED BY <1>1, <2>1
<1> QED BY <1>2, <1>3, <1>4

LEMMA SendBounds ==
    ASSUME AbuseInvariant, AbuseInvariant', AbuseBounds, NEW c \in Everyone, Send(c)
    PROVE  AbuseBounds'
<1>1. /\ abCalls \in [Everyone -> CallRecords] /\ abUsed \in [Endpoints -> Nat] /\ abCalls[c] \in CallRecords
      /\ AbuseTypes
  BY DEF AbuseInvariant, AbuseTypes
<1>2. /\ UNCHANGED <<abTables, abSaved, abTried, abUsed, abLoad, abQueue, abGen, abDay, abCount>>
      /\ abCalls[c].at = "recheck"
  BY DEF Send, abTables
<1>3. ScheduledHaveKeys(abCalls) BY DEF AbuseBounds
<1>4. /\ ScheduledHaveKeys(abCalls') /\ \A e \in Endpoints : Waiting(abCalls', e) \subseteq Waiting(abCalls, e)
      /\ \A day \in 0..MaxDays, e \in Endpoints : Reserved(day, e)' \subseteq Reserved(day, e)
      /\ abPending' \in {abPending, FALSE}
  <2>1. CASE Settle(c, FALSE) BY <1>3, <2>1, SettleSteps
  <2>2. CASE abCalls' = [abCalls EXCEPT ![c].at = "sent"] /\ abPending' = abPending
    <3>1. /\ abCalls'[c].at = "sent" /\ abCalls'[c].kind = abCalls[c].kind /\ abCalls'[c].key = abCalls[c].key
          /\ \A d \in Everyone : d # c => abCalls'[d] = abCalls[d]
      BY <1>1, <2>2 DEF CallRecords
    <3>2. ScheduledHaveKeys(abCalls') BY <1>3, <3>1 DEF ScheduledHaveKeys
    <3>3. \A e \in Endpoints : Waiting(abCalls', e) \subseteq Waiting(abCalls, e) BY <3>1 DEF Waiting
    <3>4. \A day \in 0..MaxDays, e \in Endpoints : Reserved(day, e)' \subseteq Reserved(day, e) BY <3>1 DEF Reserved
    <3> QED BY <2>2, <3>2, <3>3, <3>4
  <2> QED BY <2>1, <2>2 DEF Send
<1>5. /\ abSaved' \subseteq Keys /\ abTried' \subseteq Keys /\ abLoad' \in BOOLEAN /\ abPending' \in BOOLEAN
      /\ Len(abQueue') <= MaxQueue /\ abCount' \in 0..MaxRequests /\ abCount' = abCount
      /\ abGen' <= MaxChanges + 1 /\ \A e \in Endpoints : abUsed'[e] <= abUsed[e]
  <2>1. abPending' \in BOOLEAN BY Zenon, <1>4 DEF AbuseBounds
  <2>2. /\ UNCHANGED <<abSaved, abTried, abLoad, abQueue, abGen, abUsed, abCount>> BY <1>2
  <2>3. abSaved' \subseteq Keys /\ abTried' \subseteq Keys /\ abLoad' \in BOOLEAN BY Zenon, <2>2 DEF AbuseBounds
  <2>4. Len(abQueue') <= MaxQueue /\ abGen' <= MaxChanges + 1 /\ abCount' \in 0..MaxRequests BY <2>2 DEF AbuseBounds
  <2>5. \A e \in Endpoints : abUsed'[e] <= abUsed[e] BY <1>1, <2>2
  <2> QED BY <2>1, <2>2, <2>3, <2>4, <2>5
<1>6. CASE abSent' = abSent
  BY <1>4, <1>5, <1>6, QuietBounds
<1>7. CASE Automatic(abCalls[c].kind) /\ abCalls[c].key = abKey
  <2>1. \A e \in Endpoints : abUsed'[e] + Cardinality(Waiting(abCalls', e)) <= abCount'
    <3> TAKE e \in Endpoints
    <3>1. Cardinality(Waiting(abCalls', e)) \in Nat /\ Cardinality(Waiting(abCalls, e)) \in Nat BY WaitingIsFinite
    <3>2. abUsed[e] + Cardinality(Waiting(abCalls, e)) <= abCount BY DEF AbuseBounds, RequestsCount
    <3>3. abUsed[e] \in Nat /\ abUsed'[e] = abUsed[e] /\ abCount \in Nat /\ abCount' = abCount
      BY <1>1, <1>2 DEF AbuseBounds
    <3>4. Cardinality(Waiting(abCalls', e)) <= Cardinality(Waiting(abCalls, e)) BY <1>4, WaitingShrinks
    <3> QED BY <3>1, <3>2, <3>3, <3>4
  <2>2. \A day \in 0..MaxDays, e \in Endpoints : Spent(day, e)' = Spent(day, e)
    BY <1>1, <1>7, SentIsReserved
  <2>3. \A day \in 0..MaxDays, e \in Endpoints : Spent(day, e) \in Nat
    <3> TAKE day \in 0..MaxDays, e \in Endpoints
    <3>1. abSent[<<day, e>>] \in Nat /\ Cardinality(Reserved(day, e)) \in Nat BY <1>1, ReservedIsFinite DEF AbuseTypes
    <3> QED BY <3>1 DEF Spent
  <2>4. \A day \in 0..MaxDays, e \in Endpoints : day # abDay => Spent(day, e)' <= Spent(day, e) BY <2>2, <2>3
  <2> QED BY <1>2, <1>4, <1>5, <2>1, <2>4, CountedBounds
<1> QED BY <1>6, <1>7 DEF Send

LEMMA RestBounds ==
    ASSUME AbuseInvariant, AbuseInvariant', AbuseBounds,
           ChangeSettings \/ Restart \/ NextDay \/ Elapse \/ ListExpires \/ UNCHANGED abVars
    PROVE  AbuseBounds'
<1>1. /\ abCalls \in [Everyone -> CallRecords] /\ abUsed \in [Endpoints -> Nat] /\ abGen \in Nat \ {0}
      /\ {MaxQueue, MaxChanges} \subseteq Nat
  BY AbuseAssumption DEF AbuseInvariant, AbuseTypes
<1>2. abCount' = abCount /\ abSent' = abSent
  BY DEF ChangeSettings, Restart, NextDay, Elapse, ListExpires, abVars, abTables, abMemory
<1>3. abCalls' = abCalls \/ abCalls' = [d \in Everyone |-> Free]
  BY DEF ChangeSettings, Restart, NextDay, Elapse, ListExpires, abVars, abTables, abMemory, Everyone
<1>4. \A c \in Everyone : abCalls'[c] = abCalls[c] \/ abCalls'[c] = Free BY <1>3
<1>5. Free.at = "free" /\ Free.kind = "load" BY DEF Free
<1>6. /\ ScheduledHaveKeys(abCalls') /\ \A e \in Endpoints : Waiting(abCalls', e) \subseteq Waiting(abCalls, e)
      /\ \A day \in 0..MaxDays, e \in Endpoints : Reserved(day, e)' \subseteq Reserved(day, e)
  BY <1>4, <1>5 DEF AbuseBounds, ScheduledHaveKeys, Waiting, Reserved
<1>7. abUsed' = abUsed \/ abUsed' = [e \in Endpoints |-> 0]
  BY DEF ChangeSettings, Restart, NextDay, Elapse, ListExpires, abVars, abTables, abMemory
<1>8. \A e \in Endpoints : abUsed'[e] <= abUsed[e] BY <1>1, <1>7
<1>9. abGen' = abGen \/ (abGen <= MaxChanges /\ abGen' = abGen + 1)
  BY DEF ChangeSettings, Restart, NextDay, Elapse, ListExpires, abVars, abTables, abMemory
<1>10. abGen' <= MaxChanges + 1 BY <1>1, <1>9 DEF AbuseBounds
<1>11. abQueue' \in {abQueue, <<>>} /\ abLoad' \in {abLoad, TRUE} /\ abPending' \in {abPending, FALSE}
       /\ abSaved' \subseteq abSaved /\ abTried' \in {abTried, {}}
  BY DEF ChangeSettings, Restart, NextDay, Elapse, ListExpires, Configure, abVars, abTables, abMemory
<1>12. /\ Len(abQueue') <= MaxQueue /\ abLoad' \in BOOLEAN /\ abPending' \in BOOLEAN
       /\ abSaved' \subseteq Keys /\ abTried' \subseteq Keys
  <2>1. abPending' \in BOOLEAN /\ abLoad' \in BOOLEAN BY Zenon, <1>11 DEF AbuseBounds
  <2>2. abSaved' \subseteq Keys /\ abTried' \subseteq Keys BY <1>11 DEF AbuseBounds
  <2>3. Len(abQueue') <= MaxQueue BY <1>1, <1>11 DEF AbuseBounds
  <2> QED BY <2>1, <2>2, <2>3
<1> QED BY <1>2, <1>6, <1>8, <1>10, <1>12, QuietBounds

LEMMA AbuseBoundsStep == AbuseInvariant /\ AbuseInvariant' /\ AbuseBounds /\ [AbuseNext]_abVars => AbuseBounds'
<1> SUFFICES ASSUME AbuseInvariant, AbuseInvariant', AbuseBounds, [AbuseNext]_abVars PROVE AbuseBounds'
  OBVIOUS
<1>1. CASE ObserveFailures \/ NextTask \/ SaveList \/ LoadList BY <1>1, WorkerBounds
<1>2. CASE \/ \E c \in Callers : Ask(c)
           \/ Begin
           \/ \E c \in Everyone : StorageUnavailable(c) \/ Answer(c) \/ Unreachable(c)
  BY <1>2, RequestBounds
<1>3. CASE \E c \in Everyone : Reserve(c) \/ Send(c) BY <1>3, ReserveBounds, SendBounds
<1>4. CASE ChangeSettings \/ Restart \/ NextDay \/ Elapse \/ ListExpires \/ UNCHANGED abVars BY <1>4, RestBounds
<1> QED BY <1>1, <1>2, <1>3, <1>4 DEF AbuseNext, Everyone

(* What is counted stays within the bounds: no more is reserved on a day than was asked for (AutomationStore::reserve). *)
THEOREM AbuseTypesHold == AbuseSpec => []AbuseTypeOK
<1>1. AbuseInvariant /\ AbuseBounds => AbuseTypeOK
  <2> SUFFICES ASSUME AbuseInvariant, AbuseBounds PROVE AbuseTypeOK
    OBVIOUS
  <2>1. AbuseTypes /\ AnswersAreOfThisKey BY DEF AbuseInvariant
  <2>2. abUsed \in [Endpoints -> 0..MaxRequests]
    <3>1. abUsed \in [Endpoints -> Nat] /\ abCount \in Nat /\ abCount <= MaxRequests /\ MaxRequests \in Nat
      BY <2>1, AbuseAssumption DEF AbuseTypes, AbuseBounds
    <3>2. ASSUME NEW e \in Endpoints PROVE abUsed[e] \in 0..MaxRequests
      <4>1. abUsed[e] + Cardinality(Waiting(abCalls, e)) <= abCount BY DEF AbuseBounds, RequestsCount
      <4>2. abUsed[e] \in Nat /\ Cardinality(Waiting(abCalls, e)) \in Nat BY <3>1, WaitingIsFinite
      <4> QED BY <3>1, <4>1, <4>2
    <3> QED BY <3>1, <3>2
  <2>3. abSent \in [(0..MaxDays) \X Endpoints -> 0..MaxRequests]
    <3>1. abSent \in [(0..MaxDays) \X Endpoints -> Nat] /\ MaxRequests \in Nat BY <2>1, AbuseAssumption DEF AbuseTypes
    <3>2. ASSUME NEW day \in 0..MaxDays, NEW e \in Endpoints PROVE abSent[<<day, e>>] \in 0..MaxRequests
      <4>1. abSent[<<day, e>>] + Cardinality(Reserved(day, e)) <= MaxRequests
        BY DEF AbuseBounds, RequestsCount, Spent
      <4>2. abSent[<<day, e>>] \in Nat /\ Cardinality(Reserved(day, e)) \in Nat BY <3>1, ReservedIsFinite
      <4> QED BY <3>1, <4>1, <4>2
    <3> QED BY <3>1, <3>2
  <2>4. abGen \in 1..MaxChanges + 1 /\ abCache \in 0..MaxChanges + 1
    <3>1. abGen \in Nat \ {0} /\ abGen <= MaxChanges + 1 /\ abCache \in {0, abGen} /\ MaxChanges \in Nat
      BY <2>1, AbuseAssumption DEF AbuseTypes, AbuseBounds, AnswersAreOfThisKey
    <3> QED BY <3>1
  <2>5. abList \in Keys \cup {NoKey} BY <2>1 DEF AbuseTypes, AnswersAreOfThisKey
  <2>6. \A i \in DOMAIN abQueue : abQueue[i] \in [kind : {"check", "report"}, gen : Nat]
    <3>1. abQueue \in Seq(Tasks) BY <2>1 DEF AbuseTypes
    <3>2. DOMAIN abQueue = 1..Len(abQueue) /\ \A i \in 1..Len(abQueue) : abQueue[i] \in Tasks BY <3>1
    <3> QED BY <3>2 DEF Tasks
  <2>7. abQuota \in [Endpoints -> [level : {"open", "reserve", "blocked"}, key : Keys \cup {NoKey}]]
    BY <2>1 DEF AbuseTypes, Quotas
  <2>8. abCalls \in [{Worker} \cup Callers ->
         [at : {"free", "begin", "reserve", "recheck", "sent", "save"}, kind : Kinds, endpoint : Endpoints,
          key : Keys \cup {NoKey}, gen : Nat, day : 0..MaxDays]]
    BY <2>1 DEF AbuseTypes, CallRecords, Everyone
  <2> QED BY <2>1, <2>2, <2>3, <2>4, <2>5, <2>6, <2>7, <2>8 DEF AbuseTypes, AbuseBounds, AbuseTypeOK
<1> QED BY <1>1, AbuseBoundsInit, AbuseBoundsStep, AbuseInvariantInit, AbuseInvariantStep, PTL DEF AbuseSpec

-----------------------------------------------------------------------------
(*****************************************************************************)
(* Connections of a service, for any number of listeners, of connections,    *)
(* and any capacity.                                                         *)
(*****************************************************************************)

Handling == {"asking", "asleep", "posting"}
Queued == {c \in Clients : lnConn[c] = "queued"}
InSession == {c \in Clients : lnConn[c] \in {"checking", "open"}}

(* An accepted connection is in the hands of one accepting thread. *)
HandsHold ==
    /\ \A p \in Ports : lnAcceptor[p].at \in Handling =>
          lnAcceptor[p].connection \in Clients /\ lnConn[lnAcceptor[p].connection] = "accepted"
    /\ \A p, q \in Ports :
          /\ lnAcceptor[p].at \in Handling /\ lnAcceptor[q].at \in Handling
          /\ lnAcceptor[p].connection = lnAcceptor[q].connection
          => p = q
    /\ \A c \in Clients : lnConn[c] = "accepted" =>
          \E p \in Ports : lnAcceptor[p].at \in Handling /\ lnAcceptor[p].connection = c

(* It is registered when it is given a place, and as long as it has a worker or waits for one. *)
RegistryFits ==
    /\ \A c \in lnRegistry : lnConn[c] # "none"
    /\ \A c \in Clients : lnConn[c] \in {"queued", "checking", "open"} => c \in lnRegistry
    /\ \A p \in Ports : lnAcceptor[p].at \in Handling =>
          (lnAcceptor[p].connection \in lnRegistry <=> lnAcceptor[p].at = "posting")

(* The queue has each connection that waits for a worker once. *)
QueueFits ==
    /\ Len(lnQueue) = Cardinality(Queued)
    /\ \A i \in 1..Len(lnQueue) : lnQueue[i] \in Queued
    /\ \A i, j \in 1..Len(lnQueue) : lnQueue[i] = lnQueue[j] => i = j

(* Only open sessions use the network, and none waits once the stop has reached it. *)
NetworkFits ==
    \A c \in Clients :
        /\ lnConn[c] # "open" => lnIo[c] = NoOperation
        /\ lnStop[c] = "reached" => lnIo[c][1] # "waiting"

(* Where the main thread is tells what the accepting threads may still be doing. *)
MainFits ==
    /\ lnStopping <=> lnMain \notin {"starting", "serving", "stopping"}
    /\ lnMain \in {"joining acceptors", "cancelling", "joining workers", "returned", "threw"} =>
          \A p \in Ports : lnAcceptor[p].at # "asleep"
    /\ lnMain \in {"cancelling", "joining workers", "returned", "threw"} =>
          \A p \in Ports : lnAcceptor[p].at \in {"unstarted", "ended"}

PlacesKept == Cardinality(Listed) <= MaxConnections

ListenersInvariant ==
    /\ ListenersTypeOK
    /\ HandsHold /\ RegistryFits /\ QueueFits /\ NetworkFits /\ MainFits
    /\ PlacesKept /\ NoLostWakeup /\ StopReachesAll

(* The steps of the three kinds of threads. *)
PortStep(p) ==
    \/ Accept(p) \/ AcceptFails(p) \/ SeesStop(p) \/ Post(p) \/ PostFails(p) \/ StartThread(p)
    \/ \E outTime \in BOOLEAN : AskCapacity(p, outTime)

ClientStep(c) ==
    \/ PeerAllowed(c) \/ PeerRefused(c) \/ SessionEnds(c) \/ NotifyCapacity(c)
    \/ Execute(c) \/ Complete(c) \/ OperationTimesOut(c) \/ OperationFails(c) \/ CancelWait(c) \/ RequestStop(c)
    \/ \E op \in Operations : Call(c, op)

MainStep ==
    ThreadFails \/ FindReason \/ SetStopping \/ CloseListeners \/ JoinAcceptors \/ AllRequested \/ JoinWorkers

(* Each step is one of an accepting thread, a session, the pool or the main thread. *)
LEMMA StepsOfListeners ==
    ASSUME [ListenersNext]_lnVars
    PROVE  \/ \E p \in Ports : PortStep(p)
           \/ \E c \in Clients : ClientStep(c)
           \/ TakeWork \/ MainStep
           \/ UNCHANGED lnVars
BY DEF ListenersNext, PortStep, ClientStep, MainStep

(* What a step does to threads and connections, point by point. *)

HandsTo(p, at, c) ==
    /\ lnAcceptor'[p] = [at |-> at, connection |-> c]
    /\ \A q \in Ports \ {p} : lnAcceptor'[q] = lnAcceptor[q]

LivesOn(c, life) ==
    /\ lnConn'[c] = life
    /\ \A d \in Clients \ {c} : lnConn'[d] = lnConn[d]

AllAwake ==
    \A p \in Ports :
        /\ lnAcceptor'[p].connection = lnAcceptor[p].connection
        /\ lnAcceptor'[p].at = IF lnAcceptor[p].at = "asleep" THEN "asking" ELSE lnAcceptor[p].at

LEMMA AcceptingPoint ==
    ASSUME ListenersTypeOK, NEW p \in Ports,
           NEW at \in {"unstarted", "accepting", "asking", "asleep", "posting", "ended"},
           NEW c \in Clients \cup {NoClient}, Accepting(p, at, c)
    PROVE  /\ HandsTo(p, at, c)
           /\ lnAcceptor' \in [Ports -> [at : {"unstarted", "accepting", "asking", "asleep", "posting", "ended"},
                                         connection : Clients \cup {NoClient}]]
<1> DEFINE row == [at |-> at, connection |-> c]
           A == [at : {"unstarted", "accepting", "asking", "asleep", "posting", "ended"},
                 connection : Clients \cup {NoClient}]
<1>1. row \in A OBVIOUS
<1>2. lnAcceptor \in [Ports -> A] BY DEF ListenersTypeOK
<1>3. lnAcceptor' = [lnAcceptor EXCEPT ![p] = row] BY DEF Accepting
<1> HIDE DEF A, row
<1>4. lnAcceptor' \in [Ports -> A] /\ lnAcceptor'[p] = row
      /\ \A q \in Ports \ {p} : lnAcceptor'[q] = lnAcceptor[q]
  BY <1>1, <1>2, <1>3
<1> QED BY <1>4 DEF A, row, HandsTo

LEMMA BecomesPoint ==
    ASSUME ListenersTypeOK, NEW c \in Clients,
           NEW life \in {"none", "accepted", "queued", "checking", "open", "released", "over"}, Becomes(c, life)
    PROVE  /\ LivesOn(c, life)
           /\ lnConn' \in [Clients -> {"none", "accepted", "queued", "checking", "open", "released", "over"}]
BY DEF ListenersTypeOK, Becomes, LivesOn

LEMMA AwakePoint ==
    ASSUME ListenersTypeOK, lnAcceptor' = Awake(lnAcceptor)
    PROVE  /\ AllAwake
           /\ lnAcceptor' \in [Ports -> [at : {"unstarted", "accepting", "asking", "asleep", "posting", "ended"},
                                         connection : Clients \cup {NoClient}]]
<1> DEFINE A == [at : {"unstarted", "accepting", "asking", "asleep", "posting", "ended"},
                 connection : Clients \cup {NoClient}]
<1>1. ASSUME NEW p \in Ports
      PROVE  /\ lnAcceptor'[p] \in A
             /\ lnAcceptor'[p].connection = lnAcceptor[p].connection
             /\ lnAcceptor'[p].at = IF lnAcceptor[p].at = "asleep" THEN "asking" ELSE lnAcceptor[p].at
  <2>1. lnAcceptor[p] \in A BY DEF ListenersTypeOK
  <2>2. lnAcceptor'[p] = IF lnAcceptor[p].at = "asleep" THEN [lnAcceptor[p] EXCEPT !.at = "asking"] ELSE lnAcceptor[p]
    BY DEF Awake
  <2> QED BY <2>1, <2>2
<1>2. lnAcceptor' = [p \in Ports |-> lnAcceptor'[p]] BY DEF Awake
<1> HIDE DEF A
<1>3. lnAcceptor' \in [Ports -> A] BY <1>1, <1>2
<1> QED BY <1>1, <1>3 DEF AllAwake, A

(* A session's network operation goes on or is raised, which releases its connection. *)
NetworkStages == {"idle", "called", "waiting"} \X (Operations \cup {"none"})

IoBecomes(c) ==
    /\ lnIo' \in [Clients -> NetworkStages]
    /\ \A d \in Clients \ {c} : lnIo'[d] = lnIo[d]

Operates(c) ==
    /\ UNCHANGED <<mainVars, lnFailed, lnAcceptor, poolVars, lnFaults>>
    /\ IoBecomes(c)
    /\ \/ lnConn' = lnConn
       \/ lnConn[c] = "open" /\ Becomes(c, "released")
    /\ lnConn'[c] # "open" => lnIo'[c] = NoOperation
    /\ lnStop' \in [Clients -> {"no", "flagged", "reached"}]
    /\ \A d \in Clients \ {c} : lnStop'[d] = lnStop[d]
    /\ lnStop[c] = "reached" => lnStop'[c] = "reached"
    /\ lnStop'[c] = "reached" => lnIo'[c][1] # "waiting"

(* An operation goes on for one session. *)
LEMMA PerformsPoint ==
    ASSUME ListenersTypeOK, NEW c \in Clients,
           NEW stage \in {"idle", "called", "waiting"}, NEW op \in Operations \cup {"none"}, Performs(c, stage, op)
    PROVE  /\ IoBecomes(c)
           /\ lnIo'[c] = <<stage, op>> /\ lnIo'[c][1] = stage
           /\ lnConn' = lnConn /\ lnAcceptor' = lnAcceptor
<1> DEFINE io == <<stage, op>>
<1>1. io \in NetworkStages BY DEF NetworkStages
<1>2. io[1] = stage OBVIOUS
<1> HIDE DEF io
<1>3. lnIo \in [Clients -> NetworkStages] BY DEF ListenersTypeOK, NetworkStages
<1>4. lnIo' = [lnIo EXCEPT ![c] = io] /\ lnConn' = lnConn /\ lnAcceptor' = lnAcceptor BY DEF Performs, io
<1>5. lnIo' \in [Clients -> NetworkStages] /\ lnIo'[c] = io /\ \A d \in Clients \ {c} : lnIo'[d] = lnIo[d]
  BY <1>1, <1>3, <1>4
<1> QED BY <1>2, <1>4, <1>5 DEF IoBecomes, io

(* An operation that raises ends its session. *)
LEMMA RaisesPoint ==
    ASSUME ListenersTypeOK, NEW c \in Clients, Raises(c)
    PROVE  /\ IoBecomes(c)
           /\ lnIo'[c] = NoOperation /\ lnIo'[c][1] = "idle"
           /\ Becomes(c, "released") /\ lnConn'[c] = "released" /\ lnAcceptor' = lnAcceptor
<1>1. NoOperation \in NetworkStages /\ NoOperation[1] = "idle" BY DEF NetworkStages, NoOperation
<1>2. lnIo \in [Clients -> NetworkStages] BY DEF ListenersTypeOK, NetworkStages
<1>3. lnIo' = [lnIo EXCEPT ![c] = NoOperation] /\ Becomes(c, "released") /\ lnAcceptor' = lnAcceptor
  BY DEF Raises, ReleaseConnection
<1>4. lnConn'[c] = "released" BY <1>3, BecomesPoint DEF LivesOn
<1>5. lnIo' \in [Clients -> NetworkStages] /\ lnIo'[c] = NoOperation /\ \A d \in Clients \ {c} : lnIo'[d] = lnIo[d]
  BY <1>1, <1>2, <1>3
<1> QED BY <1>1, <1>3, <1>4, <1>5 DEF IoBecomes

(* Once a stop has reached a session, it does not begin to wait. *)
LEMMA SessionOperates ==
    ASSUME ListenersTypeOK, NetworkFits, NEW c \in Clients, lnConn[c] = "open",
           UNCHANGED <<mainVars, lnFailed, poolVars, lnStop, lnFaults>>,
           \/ Raises(c)
           \/ \E stage \in {"idle", "called"}, op \in Operations \cup {"none"} : Performs(c, stage, op)
           \/ \E op \in Operations \cup {"none"} : ~Stopped(c) /\ Performs(c, "waiting", op)
    PROVE  Operates(c)
<1>1. lnStop' = lnStop /\ lnStop \in [Clients -> {"no", "flagged", "reached"}] BY DEF ListenersTypeOK
<1>2. CASE Raises(c) BY <1>1, <1>2, RaisesPoint DEF Operates
<1>3. ASSUME NEW stage \in {"idle", "called", "waiting"}, NEW op \in Operations \cup {"none"},
             Performs(c, stage, op), stage = "waiting" => ~Stopped(c)
      PROVE Operates(c)
  BY <1>1, <1>3, PerformsPoint DEF Operates, Stopped
<1> QED BY <1>2, <1>3

(* So does every step of a session that concerns the network, its end, or a stop. *)
LEMMA NetworkSteps ==
    ASSUME ListenersTypeOK, NetworkFits, NEW c \in Clients,
           \/ Execute(c) \/ Complete(c) \/ OperationTimesOut(c) \/ OperationFails(c)
           \/ CancelWait(c) \/ SessionEnds(c) \/ RequestStop(c)
           \/ \E op \in Operations : Call(c, op)
    PROVE  Operates(c)
<1>0. /\ lnIo[c][1] \in {"idle", "called", "waiting"} /\ lnIo[c][2] \in Operations \cup {"none"}
      /\ lnIo \in [Clients -> NetworkStages] /\ lnStop \in [Clients -> {"no", "flagged", "reached"}]
      /\ NoOperation[1] = "idle"
  BY DEF ListenersTypeOK, NetworkStages, NoOperation
<1>1. lnIo[c][1] \in {"called", "waiting"} => lnConn[c] = "open" BY <1>0 DEF NetworkFits
<1>2. CASE Execute(c) BY <1>0, <1>1, <1>2, SessionOperates DEF Execute, SameForSession
<1>3. CASE Complete(c) BY <1>0, <1>1, <1>3, SessionOperates DEF Complete, SameForSession, Returns
<1>4. CASE OperationTimesOut(c) BY <1>0, <1>1, <1>4, SessionOperates DEF OperationTimesOut, SameForSession, Returns
<1>5. CASE OperationFails(c) BY <1>0, <1>1, <1>5, SessionOperates DEF OperationFails, SameForSession
<1>6. CASE CancelWait(c)
  <2>1. /\ lnStop' = [lnStop EXCEPT ![c] = "reached"] /\ UNCHANGED <<mainVars, lnFailed, poolVars, lnFaults>>
        /\ IF lnIo[c][1] = "waiting" THEN Raises(c) ELSE UNCHANGED <<lnIo, lnConn, lnAcceptor>>
    BY <1>6 DEF CancelWait
  <2>2. /\ lnStop' \in [Clients -> {"no", "flagged", "reached"}] /\ lnStop'[c] = "reached"
        /\ \A d \in Clients \ {c} : lnStop'[d] = lnStop[d]
    BY <1>0, <2>1
  <2>3. CASE lnIo[c][1] = "waiting" BY <1>1, <2>1, <2>2, <2>3, RaisesPoint DEF Operates
  <2>4. CASE lnIo[c][1] # "waiting"
    BY <1>0, <2>1, <2>2, <2>4 DEF Operates, IoBecomes, NetworkFits
  <2> QED BY <2>3, <2>4
<1>7. CASE SessionEnds(c)
  <2>1. /\ lnConn[c] = "open" /\ lnIo[c] = NoOperation /\ Becomes(c, "released") /\ lnAcceptor' = lnAcceptor
        /\ lnIo' = lnIo /\ lnStop' = lnStop
        /\ UNCHANGED <<mainVars, lnFailed, poolVars, lnFaults>>
    BY <1>7 DEF SessionEnds, ReleaseConnection, ioVars
  <2>2. lnConn'[c] = "released" BY <2>1, BecomesPoint DEF LivesOn
  <2> QED BY <1>0, <2>1, <2>2 DEF Operates, IoBecomes
<1>8. CASE RequestStop(c)
  <2>1. /\ lnStop' = [lnStop EXCEPT ![c] = "flagged"] /\ lnStop[c] = "no"
        /\ UNCHANGED <<mainVars, lnFailed, lnAcceptor, poolVars, lnConn, lnIo, lnFaults>>
    BY <1>8 DEF RequestStop, Stopped
  <2>2. /\ lnStop' \in [Clients -> {"no", "flagged", "reached"}] /\ lnStop'[c] = "flagged"
        /\ \A d \in Clients \ {c} : lnStop'[d] = lnStop[d]
    BY <1>0, <2>1
  <2> QED BY <1>0, <2>1, <2>2 DEF Operates, IoBecomes, NetworkFits
<1>9. ASSUME NEW op \in Operations, Call(c, op) PROVE Operates(c)
  BY <1>9, SessionOperates DEF Call, SameForSession
<1> QED BY <1>2, <1>3, <1>4, <1>5, <1>6, <1>7, <1>8, <1>9

(* An accepting thread with a connection in its hands gives it up, gets a place for it, or sleeps. *)
LetsGo(p) ==
    /\ LivesOn(lnAcceptor[p].connection, "over")
    /\ \E at \in {"ended", "accepting"} : HandsTo(p, at, NoClient)

PutsDown(p) == lnRegistry' = Listed /\ LetsGo(p)

GetsPlace(p) ==
    /\ HasCapacity /\ lnRegistry' = Listed \cup {lnAcceptor[p].connection} /\ lnConn' = lnConn
    /\ HandsTo(p, "posting", lnAcceptor[p].connection)

FallsAsleep(p) ==
    /\ ~HasCapacity /\ ~lnStopping /\ lnRegistry' = Listed /\ lnConn' = lnConn
    /\ HandsTo(p, "asleep", lnAcceptor[p].connection)

(* What the predicate of wait_for decides. *)
LEMMA AskOutcomes ==
    ASSUME ListenersTypeOK, HandsHold, NEW p \in Ports, NEW outTime \in BOOLEAN, AskCapacity(p, outTime)
    PROVE  /\ lnAcceptor[p].at \in {"asking", "asleep"} /\ lnAcceptor[p].connection \in Clients
           /\ UNCHANGED <<mainVars, lnFailed, lnQueue, ioVars, lnFaults>>
           /\ PutsDown(p) \/ GetsPlace(p) \/ FallsAsleep(p)
<1> DEFINE c == lnAcceptor[p].connection
<1>1. /\ lnAcceptor[p].at \in {"asking", "asleep"} /\ UNCHANGED <<mainVars, lnFailed, lnQueue, ioVars, lnFaults>>
      /\ c \in Clients /\ c \in Clients \cup {NoClient} /\ NoClient \in Clients \cup {NoClient}
  BY DEF AskCapacity, HandsHold, Handling
<1>2. \/ /\ Becomes(c, "over") /\ lnRegistry' = Listed
         /\ Accepting(p, "ended", NoClient) \/ Accepting(p, "accepting", NoClient)
      \/ HasCapacity /\ Accepting(p, "posting", c) /\ lnRegistry' = Listed \cup {c} /\ lnConn' = lnConn
      \/ ~HasCapacity /\ ~lnStopping /\ Accepting(p, "asleep", c) /\ lnRegistry' = Listed /\ lnConn' = lnConn
  BY DEF AskCapacity, Ended
<1> HIDE DEF c
<1>3. CASE /\ Becomes(c, "over") /\ lnRegistry' = Listed
           /\ Accepting(p, "ended", NoClient) \/ Accepting(p, "accepting", NoClient)
  <2>1. LivesOn(c, "over") BY <1>1, <1>3, BecomesPoint
  <2>2. HandsTo(p, "ended", NoClient) \/ HandsTo(p, "accepting", NoClient) BY <1>1, <1>3, AcceptingPoint
  <2> QED BY <1>1, <1>3, <2>1, <2>2 DEF PutsDown, LetsGo, c
<1>4. CASE HasCapacity /\ Accepting(p, "posting", c) /\ lnRegistry' = Listed \cup {c} /\ lnConn' = lnConn
  BY <1>1, <1>4, AcceptingPoint DEF GetsPlace, c
<1>5. CASE ~HasCapacity /\ ~lnStopping /\ Accepting(p, "asleep", c) /\ lnRegistry' = Listed /\ lnConn' = lnConn
  BY <1>1, <1>5, AcceptingPoint DEF FallsAsleep, c
<1> QED BY <1>2, <1>3, <1>4, <1>5 DEF c

(* The life of connections and the hands of threads, whatever else a step does. *)
TakesUp(p, c) ==
    /\ lnAcceptor[p].at = "accepting" /\ lnConn[c] = "none"
    /\ LivesOn(c, "accepted") /\ HandsTo(p, "asking", c) /\ lnRegistry' = lnRegistry /\ lnQueue' = lnQueue

IdlesOn(p) ==
    /\ lnAcceptor[p].at \in {"unstarted", "accepting"} /\ lnConn' = lnConn
    /\ \E at \in {"accepting", "ended"} : HandsTo(p, at, NoClient)
    /\ lnRegistry' = lnRegistry /\ lnQueue' = lnQueue

Posts(p) ==
    /\ lnAcceptor[p].at = "posting" /\ LivesOn(lnAcceptor[p].connection, "queued") /\ HandsTo(p, "accepting", NoClient)
    /\ lnRegistry' = lnRegistry /\ lnQueue' = Append(lnQueue, lnAcceptor[p].connection)

DropsPosted(p) ==
    /\ lnAcceptor[p].at = "posting" /\ LetsGo(p) /\ lnFailed'
    /\ lnRegistry' = lnRegistry /\ lnQueue' = lnQueue

Asks(p) ==
    /\ lnAcceptor[p].at \in {"asking", "asleep"} /\ lnQueue' = lnQueue
    /\ PutsDown(p) \/ GetsPlace(p) \/ FallsAsleep(p)

Begins(c) ==
    /\ lnQueue # <<>> /\ c = Head(lnQueue) /\ lnQueue' = Tail(lnQueue)
    /\ LivesOn(c, "checking") /\ lnAcceptor' = lnAcceptor /\ lnRegistry' = lnRegistry

GoesOn(c) ==
    /\ \/ lnConn[c] = "checking" /\ LivesOn(c, "open")
       \/ lnConn[c] \in {"checking", "open"} /\ LivesOn(c, "released")
    /\ lnAcceptor' = lnAcceptor /\ lnRegistry' = lnRegistry /\ lnQueue' = lnQueue

Notifies(c) ==
    /\ lnConn[c] = "released" /\ LivesOn(c, "over")
    /\ AllAwake /\ lnRegistry' = lnRegistry /\ lnQueue' = lnQueue

LivesSame ==
    /\ lnConn' = lnConn /\ lnRegistry' = lnRegistry /\ lnQueue' = lnQueue
    /\ lnAcceptor' = lnAcceptor \/ AllAwake

Moves ==
    \/ \E p \in Ports : \/ \E c \in Clients : TakesUp(p, c)
                        \/ IdlesOn(p) \/ Posts(p) \/ DropsPosted(p) \/ Asks(p)
    \/ \E c \in Clients : Begins(c) \/ GoesOn(c) \/ Notifies(c)
    \/ LivesSame

(* Every step moves connections in one of these ways. *)
LEMMA StepsMove ==
    ASSUME ListenersTypeOK, HandsHold, QueueFits, NetworkFits, [ListenersNext]_lnVars
    PROVE  Moves
<1> USE DEF mainVars, poolVars, ioVars, workVars, Moves
<1>0. NoClient \in Clients \cup {NoClient} /\ \A c \in Clients : c \in Clients \cup {NoClient} OBVIOUS
<1>1. ASSUME NEW p \in Ports, PortStep(p) PROVE Moves
  <2>1. CASE Accept(p)
    <3>1. PICK c \in Clients : lnConn[c] = "none" /\ Becomes(c, "accepted") /\ Accepting(p, "asking", c)
      BY <2>1 DEF Accept
    <3> QED BY <1>0, <2>1, <3>1, AcceptingPoint, BecomesPoint DEF Accept, TakesUp
  <2>2. CASE AcceptFails(p) \/ SeesStop(p)
    <3>1. lnAcceptor[p].at = "accepting" /\ Accepting(p, "ended", NoClient) /\ UNCHANGED <<lnConn, poolVars>>
      BY <2>2 DEF AcceptFails, SeesStop, Ended
    <3> QED BY <1>0, <3>1, AcceptingPoint DEF IdlesOn
  <2>3. CASE StartThread(p)
    <3>1. lnAcceptor[p].at = "unstarted" /\ Accepting(p, "accepting", NoClient) /\ UNCHANGED <<lnConn, poolVars>>
      BY <2>3 DEF StartThread
    <3> QED BY <1>0, <3>1, AcceptingPoint DEF IdlesOn
  <2>4. CASE Post(p)
    <3>1. lnAcceptor[p].connection \in Clients BY <2>4 DEF Post, HandsHold, Handling
    <3> QED BY <1>0, <2>4, <3>1, AcceptingPoint, BecomesPoint DEF Post, Posts
  <2>5. CASE PostFails(p)
    <3>1. lnAcceptor[p].connection \in Clients BY <2>5 DEF PostFails, HandsHold, Handling
    <3>2. Accepting(p, "ended", NoClient) /\ lnFailed' BY <2>5 DEF PostFails, Ended
    <3> QED BY <1>0, <2>5, <3>1, <3>2, AcceptingPoint, BecomesPoint DEF PostFails, DropsPosted, LetsGo
  <2>6. ASSUME NEW outTime \in BOOLEAN, AskCapacity(p, outTime) PROVE Moves
    BY <2>6, AskOutcomes DEF Asks
  <2> QED BY <1>1, <2>1, <2>2, <2>3, <2>4, <2>5, <2>6 DEF PortStep
<1>2. ASSUME NEW c \in Clients, ClientStep(c) PROVE Moves
  <2>1. CASE PeerAllowed(c) BY <2>1, BecomesPoint DEF PeerAllowed, GoesOn
  <2>2. CASE PeerRefused(c) BY <2>2, BecomesPoint DEF PeerRefused, ReleaseConnection, GoesOn
  <2>3. CASE NotifyCapacity(c) BY <2>3, BecomesPoint, AwakePoint DEF NotifyCapacity, Notifies
  <2>4. ASSUME Operates(c) PROVE Moves
    BY <2>4, BecomesPoint DEF Operates, GoesOn, LivesSame
  <2> QED BY <1>2, <2>1, <2>2, <2>3, <2>4, NetworkSteps DEF ClientStep
<1>3. CASE TakeWork
  <2>1. Head(lnQueue) \in Clients BY <1>3, HeadTailProperties DEF TakeWork, ListenersTypeOK
  <2> QED BY <1>3, <2>1, BecomesPoint DEF TakeWork, Begins
<1>4. CASE MainStep
  <2>1. CASE CloseListeners BY <2>1, AwakePoint DEF CloseListeners, LivesSame
  <2> QED BY <1>4, <2>1 DEF MainStep, ThreadFails, FindReason, SetStopping, JoinAcceptors, AllRequested,
                JoinWorkers, LivesSame
<1>5. CASE UNCHANGED lnVars BY <1>5 DEF lnVars, LivesSame
<1> QED BY <1>1, <1>2, <1>3, <1>4, <1>5, StepsOfListeners

-----------------------------------------------------------------------------
(* Each part of the invariant is kept. *)

(* A connection changes hands only by the thread that holds it. *)
LEMMA HandsHoldStep ==
    ASSUME ListenersTypeOK, HandsHold, QueueFits, Moves
    PROVE  HandsHold'
<1> USE DEF HandsHold, Handling
<1>0. NoClient \notin Clients BY ListenersAssumption DEF NoClient, Clients
<1>1. ASSUME NEW p \in Ports, NEW c \in Clients, TakesUp(p, c) PROVE HandsHold'
  BY <1>1 DEF TakesUp, HandsTo, LivesOn
<1>2. ASSUME NEW p \in Ports, IdlesOn(p) PROVE HandsHold'
  BY <1>2 DEF IdlesOn, HandsTo
<1>3. ASSUME NEW p \in Ports, Posts(p) PROVE HandsHold'
  BY <1>3 DEF Posts, HandsTo, LivesOn
<1>4. ASSUME NEW p \in Ports, lnAcceptor[p].at \in Handling, LetsGo(p) PROVE HandsHold'
  BY <1>4 DEF LetsGo, HandsTo, LivesOn
<1>5. ASSUME NEW p \in Ports, lnAcceptor[p].at \in Handling, GetsPlace(p) \/ FallsAsleep(p) PROVE HandsHold'
  BY <1>5 DEF GetsPlace, FallsAsleep, HandsTo
<1>6. ASSUME NEW c \in Clients, Begins(c) PROVE HandsHold'
  <2>1. lnConn[c] = "queued"
    <3>1. lnQueue \in Seq(Clients) /\ lnQueue # <<>> BY <1>6 DEF Begins, ListenersTypeOK
    <3>2. 1 \in 1 .. Len(lnQueue) /\ Head(lnQueue) = lnQueue[1] BY <3>1
    <3> QED BY <1>6, <3>2 DEF Begins, QueueFits, Queued
  <2> QED BY <1>6, <2>1 DEF Begins, LivesOn
<1>7. ASSUME NEW c \in Clients, GoesOn(c) PROVE HandsHold' BY <1>7 DEF GoesOn, LivesOn
<1>8. ASSUME NEW c \in Clients, Notifies(c) PROVE HandsHold' BY <1>8 DEF Notifies, LivesOn, AllAwake
<1>9. CASE LivesSame BY <1>9 DEF LivesSame, AllAwake
<1> QED BY <1>1, <1>2, <1>3, <1>4, <1>5, <1>6, <1>7, <1>8, <1>9 DEF Moves, Asks, PutsDown, DropsPosted

(* Places are given and forgotten with the connections they are for. *)
LEMMA RegistryFitsStep ==
    ASSUME ListenersTypeOK, HandsHold, RegistryFits, QueueFits, Moves
    PROVE  RegistryFits'
<1> USE DEF HandsHold, Handling, RegistryFits
<1>0. lnRegistry \subseteq Clients BY DEF ListenersTypeOK
<1>1. ASSUME NEW p \in Ports, NEW c \in Clients, TakesUp(p, c) PROVE RegistryFits'
  BY <1>0, <1>1 DEF TakesUp, HandsTo, LivesOn
<1>2. ASSUME NEW p \in Ports, IdlesOn(p) PROVE RegistryFits'
  BY <1>2 DEF IdlesOn, HandsTo
<1>3. ASSUME NEW p \in Ports, Posts(p) PROVE RegistryFits'
  BY <1>0, <1>3 DEF Posts, HandsTo, LivesOn
<1>4. ASSUME NEW p \in Ports, DropsPosted(p) PROVE RegistryFits'
  BY <1>0, <1>4 DEF DropsPosted, LetsGo, HandsTo, LivesOn
<1>5. ASSUME NEW p \in Ports, Asks(p) PROVE RegistryFits'
  <2>1. CASE PutsDown(p) BY <1>0, <1>5, <2>1 DEF Asks, PutsDown, LetsGo, HandsTo, LivesOn, Listed, Alive
  <2>2. CASE GetsPlace(p) BY <1>5, <2>2 DEF Asks, GetsPlace, HandsTo, Listed, Alive
  <2>3. CASE FallsAsleep(p) BY <1>5, <2>3 DEF Asks, FallsAsleep, HandsTo, Listed, Alive
  <2> QED BY <1>5, <2>1, <2>2, <2>3 DEF Asks
<1>6. ASSUME NEW c \in Clients, Begins(c) PROVE RegistryFits'
  <2>1. lnConn[c] = "queued"
    <3>1. lnQueue \in Seq(Clients) /\ lnQueue # <<>> BY <1>6 DEF Begins, ListenersTypeOK
    <3>2. 1 \in 1 .. Len(lnQueue) /\ Head(lnQueue) = lnQueue[1] BY <3>1
    <3> QED BY <1>6, <3>2 DEF Begins, QueueFits, Queued
  <2> QED BY <1>0, <1>6, <2>1 DEF Begins, LivesOn
<1>7. ASSUME NEW c \in Clients, GoesOn(c) PROVE RegistryFits' BY <1>0, <1>7 DEF GoesOn, LivesOn
<1>8. ASSUME NEW c \in Clients, Notifies(c) PROVE RegistryFits' BY <1>0, <1>8 DEF Notifies, LivesOn, AllAwake
<1>9. CASE LivesSame BY <1>9 DEF LivesSame, AllAwake
<1> QED BY <1>1, <1>2, <1>3, <1>4, <1>5, <1>6, <1>7, <1>8, <1>9 DEF Moves

(* Connections can be counted. *)
LEMMA ClientsFinite == IsFiniteSet(Clients) /\ \A S \in SUBSET Clients : IsFiniteSet(S) /\ Cardinality(S) \in Nat
<1>1. IsFiniteSet(Clients) BY FS_Interval, ListenersAssumption DEF Clients
<1> QED BY <1>1, FS_Subset, FS_CardinalityType

(* Whoever begins was in the queue. *)
LEMMA BeginsQueued ==
    ASSUME ListenersTypeOK, QueueFits, NEW c \in Clients, Begins(c)
    PROVE  /\ lnQueue \in Seq(Clients) /\ lnQueue # <<>> /\ c = lnQueue[1] /\ lnConn[c] = "queued" /\ c \in Queued
           /\ lnQueue' = Tail(lnQueue) /\ Len(lnQueue') = Len(lnQueue) - 1 /\ Len(lnQueue) \in Nat \ {0}
           /\ \A i \in 1 .. Len(lnQueue') : lnQueue'[i] = lnQueue[i + 1]
<1>1. lnQueue \in Seq(Clients) /\ lnQueue # <<>> BY DEF Begins, ListenersTypeOK
<1>2. 1 \in 1 .. Len(lnQueue) /\ Head(lnQueue) = lnQueue[1] BY <1>1
<1>3. lnConn[c] = "queued" /\ c \in Queued BY <1>2 DEF Begins, QueueFits, Queued
<1>4. lnQueue' = Tail(lnQueue) BY DEF Begins
<1>5. Len(lnQueue) \in Nat \ {0} /\ Len(Tail(lnQueue)) = Len(lnQueue) - 1
      /\ \A i \in 1 .. Len(Tail(lnQueue)) : Tail(lnQueue)[i] = lnQueue[i + 1]
  BY <1>1
<1> QED BY <1>1, <1>2, <1>3, <1>4, <1>5 DEF Begins

LEMMA QueueSame ==
    ASSUME QueueFits, lnQueue' = lnQueue, Queued' = Queued
    PROVE  QueueFits'
BY DEF QueueFits

(* The queue is joined at its end and left at its head. *)
LEMMA QueueFitsStep ==
    ASSUME ListenersTypeOK, HandsHold, QueueFits, Moves
    PROVE  QueueFits'
<1>1. ASSUME NEW p \in Ports, NEW c \in Clients, TakesUp(p, c) PROVE QueueFits'
  <2>1. Queued' = Queued BY <1>1 DEF TakesUp, LivesOn, Queued
  <2> QED BY <1>1, <2>1, QueueSame DEF TakesUp
<1>2. ASSUME NEW p \in Ports, IdlesOn(p) PROVE QueueFits' BY <1>2, QueueSame DEF IdlesOn, Queued
<1>3. ASSUME NEW p \in Ports, Posts(p) PROVE QueueFits'
  <2> DEFINE c == lnAcceptor[p].connection
  <2>1. c \in Clients /\ lnConn[c] = "accepted" BY <1>3 DEF Posts, HandsHold, Handling
  <2>2. LivesOn(c, "queued") /\ lnQueue' = Append(lnQueue, c) BY <1>3 DEF Posts
  <2>3. lnQueue \in Seq(Clients) BY DEF ListenersTypeOK
  <2> HIDE DEF c
  <2>4. c \notin Queued /\ Queued' = Queued \cup {c} BY <2>1, <2>2 DEF LivesOn, Queued
  <2>5. Cardinality(Queued') = Cardinality(Queued) + 1
    <3>1. Queued \in SUBSET Clients BY DEF Queued
    <3> QED BY <2>4, <3>1, ClientsFinite, FS_AddElement
  <2>6. /\ Len(lnQueue) \in Nat /\ Len(lnQueue') = Len(lnQueue) + 1
        /\ \A i \in 1 .. Len(lnQueue) : lnQueue'[i] = lnQueue[i]
        /\ lnQueue'[Len(lnQueue) + 1] = c
    BY <2>1, <2>2, <2>3
  <2>7. \A i \in 1 .. Len(lnQueue') : i \in 1 .. Len(lnQueue) \/ i = Len(lnQueue) + 1 BY <2>6
  <2> QED BY <2>4, <2>5, <2>6, <2>7 DEF QueueFits
<1>4. ASSUME NEW p \in Ports, lnAcceptor[p].at \in Handling, LetsGo(p), lnQueue' = lnQueue PROVE QueueFits'
  <2>1. lnAcceptor[p].connection \in Clients /\ lnConn[lnAcceptor[p].connection] = "accepted" BY <1>4 DEF HandsHold
  <2>2. Queued' = Queued BY <1>4, <2>1 DEF LetsGo, LivesOn, Queued
  <2> QED BY <1>4, <2>2, QueueSame
<1>5. ASSUME NEW p \in Ports, Asks(p) PROVE QueueFits'
  <2>1. CASE PutsDown(p) BY <1>4, <1>5, <2>1 DEF Asks, PutsDown, Handling
  <2>2. CASE lnConn' = lnConn BY <1>5, <2>2, QueueSame DEF Asks, Queued
  <2> QED BY <1>5, <2>1, <2>2 DEF Asks, GetsPlace, FallsAsleep
<1>6. ASSUME NEW c \in Clients, Begins(c) PROVE QueueFits'
  <2>1. c \in Queued /\ Queued' = Queued \ {c} BY <1>6, BeginsQueued DEF Begins, LivesOn, Queued
  <2>2. Cardinality(Queued') = Cardinality(Queued) - 1
    <3>1. Queued \in SUBSET Clients BY DEF Queued
    <3> QED BY <2>1, <3>1, ClientsFinite, FS_RemoveElement
  <2>3. \A i \in 1 .. Len(lnQueue') : i + 1 \in 1 .. Len(lnQueue) /\ i + 1 # 1 /\ 1 \in 1 .. Len(lnQueue)
    BY <1>6, BeginsQueued
  <2>4. c = lnQueue[1] /\ \A i \in 1 .. Len(lnQueue') : lnQueue'[i] = lnQueue[i + 1] BY <1>6, BeginsQueued
  <2>5. Len(lnQueue') = Cardinality(Queued') BY <1>6, <2>2, BeginsQueued DEF QueueFits
  <2>6. \A i \in 1 .. Len(lnQueue') : lnQueue'[i] \in Queued' BY <2>1, <2>3, <2>4 DEF QueueFits
  <2>7. \A i, j \in 1 .. Len(lnQueue') : lnQueue'[i] = lnQueue'[j] => i = j
    BY <2>3, <2>4 DEF QueueFits
  <2> QED BY <2>5, <2>6, <2>7 DEF QueueFits
<1>7. ASSUME NEW c \in Clients, GoesOn(c) \/ Notifies(c) PROVE QueueFits'
  <2>1. Queued' = Queued BY <1>7 DEF GoesOn, Notifies, LivesOn, Queued
  <2> QED BY <1>7, <2>1, QueueSame DEF GoesOn, Notifies
<1>8. CASE LivesSame BY <1>8, QueueSame DEF LivesSame, Queued
<1> QED BY <1>1, <1>2, <1>3, <1>4, <1>5, <1>6, <1>7, <1>8 DEF Moves, DropsPosted, Handling

LEMMA FaultType == ASSUME ListenersTypeOK, Fault PROVE lnFaults' \in 0..MaxListenFaults
<1>1. lnFaults \in 0..MaxListenFaults BY DEF ListenersTypeOK
<1> QED BY <1>1, ListenersAssumption DEF Fault

(* Every step keeps the types. *)
LEMMA ListenersTypeStep ==
    ASSUME ListenersTypeOK, HandsHold, QueueFits, NetworkFits, [ListenersNext]_lnVars
    PROVE  ListenersTypeOK'
<1> USE DEF mainVars, poolVars, ioVars, workVars
<1>0. NoClient \in Clients \cup {NoClient} /\ \A c \in Clients : c \in Clients \cup {NoClient} OBVIOUS
<1>1. ASSUME NEW p \in Ports, PortStep(p) PROVE ListenersTypeOK'
  <2>1. CASE Accept(p)
    <3>1. PICK c \in Clients : lnConn[c] = "none" /\ Becomes(c, "accepted") /\ Accepting(p, "asking", c)
      BY <2>1 DEF Accept
    <3> QED BY <1>0, <2>1, <3>1, AcceptingPoint, BecomesPoint DEF Accept, ListenersTypeOK
  <2>2. CASE AcceptFails(p) BY <1>0, <2>2, AcceptingPoint, FaultType DEF AcceptFails, Ended, ListenersTypeOK
  <2>3. CASE SeesStop(p) BY <1>0, <2>3, AcceptingPoint DEF SeesStop, Ended, ListenersTypeOK
  <2>4. CASE Post(p)
    <3>1. lnAcceptor[p].connection \in Clients BY <2>4 DEF Post, HandsHold, Handling
    <3>2. lnQueue \in Seq(Clients) BY DEF ListenersTypeOK
    <3>3. lnQueue' \in Seq(Clients) BY <2>4, <3>1, <3>2, AppendProperties DEF Post
    <3> QED BY <1>0, <2>4, <3>1, <3>3, AcceptingPoint, BecomesPoint DEF Post, ListenersTypeOK
  <2>5. CASE PostFails(p)
    <3>1. lnAcceptor[p].connection \in Clients BY <2>5 DEF PostFails, HandsHold, Handling
    <3> QED BY <1>0, <2>5, <3>1, AcceptingPoint, BecomesPoint, FaultType DEF PostFails, Ended, ListenersTypeOK
  <2>6. CASE StartThread(p) BY <1>0, <2>6, AcceptingPoint DEF StartThread, ArrivesAt, ListenersTypeOK
  <2>7. ASSUME NEW outTime \in BOOLEAN, AskCapacity(p, outTime) PROVE ListenersTypeOK'
    <3>1. lnAcceptor[p].connection \in Clients BY <2>7, AskOutcomes
    <3>2. lnRegistry' \in SUBSET Clients
      <4>1. lnRegistry' = Listed \/ lnRegistry' = Listed \cup {lnAcceptor[p].connection} BY <2>7 DEF AskCapacity
      <4>2. Listed \in SUBSET Clients BY DEF Listed, ListenersTypeOK
      <4> QED BY <3>1, <4>1, <4>2
    <3>3. /\ lnConn' \in [Clients -> {"none", "accepted", "queued", "checking", "open", "released", "over"}]
          /\ lnAcceptor' \in [Ports -> [at : {"unstarted", "accepting", "asking", "asleep", "posting", "ended"},
                                        connection : Clients \cup {NoClient}]]
      <4>1. Becomes(lnAcceptor[p].connection, "over") \/ lnConn' = lnConn BY <2>7 DEF AskCapacity
      <4>2. \/ Accepting(p, "ended", NoClient) \/ Accepting(p, "accepting", NoClient)
            \/ Accepting(p, "posting", lnAcceptor[p].connection) \/ Accepting(p, "asleep", lnAcceptor[p].connection)
        BY <2>7 DEF AskCapacity, Ended
      <4> QED BY <1>0, <3>1, <4>1, <4>2, AcceptingPoint, BecomesPoint DEF ListenersTypeOK
    <3> QED BY <2>7, <3>2, <3>3 DEF AskCapacity, ListenersTypeOK
  <2> QED BY <1>1, <2>1, <2>2, <2>3, <2>4, <2>5, <2>6, <2>7 DEF PortStep
<1>2. ASSUME NEW c \in Clients, ClientStep(c) PROVE ListenersTypeOK'
  <2>1. CASE PeerAllowed(c) BY <2>1, BecomesPoint DEF PeerAllowed, ListenersTypeOK
  <2>2. CASE PeerRefused(c) BY <2>2, BecomesPoint DEF PeerRefused, ReleaseConnection, ListenersTypeOK
  <2>3. CASE NotifyCapacity(c) BY <2>3, BecomesPoint, AwakePoint DEF NotifyCapacity, ListenersTypeOK
  <2>4. ASSUME Operates(c) PROVE ListenersTypeOK'
    BY <2>4, BecomesPoint DEF Operates, IoBecomes, NetworkStages, ListenersTypeOK
  <2> QED BY <1>2, <2>1, <2>2, <2>3, <2>4, NetworkSteps DEF ClientStep
<1>3. CASE TakeWork
  <2>1. Head(lnQueue) \in Clients /\ lnQueue' \in Seq(Clients) BY <1>3, HeadTailProperties DEF TakeWork, ListenersTypeOK
  <2> QED BY <1>3, <2>1, BecomesPoint DEF TakeWork, ListenersTypeOK
<1>4. CASE MainStep
  <2>1. CASE CloseListeners BY <2>1, AwakePoint DEF CloseListeners, ArrivesAt, ListenersTypeOK
  <2>2. CASE ThreadFails BY <2>2, FaultType DEF ThreadFails, ArrivesAt, ListenersTypeOK
  <2>3. CASE FindReason \/ SetStopping BY <2>3 DEF FindReason, SetStopping, ArrivesAt, ListenersTypeOK, Cancelling
  <2>4. CASE JoinAcceptors \/ AllRequested \/ JoinWorkers
    BY <2>4 DEF JoinAcceptors, AllRequested, JoinWorkers, ArrivesAt, ListenersTypeOK
  <2> QED BY <1>4, <2>1, <2>2, <2>3, <2>4 DEF MainStep
<1>5. CASE UNCHANGED lnVars BY <1>5 DEF lnVars, ListenersTypeOK
<1> QED BY <1>1, <1>2, <1>3, <1>4, <1>5, StepsOfListeners

(* What waits in the network is an open session that no stop has reached. *)
LEMMA NetworkFitsStep ==
    ASSUME ListenersTypeOK, HandsHold, QueueFits, NetworkFits, [ListenersNext]_lnVars
    PROVE  NetworkFits'
<1>1. ASSUME UNCHANGED <<lnConn, ioVars>> PROVE NetworkFits' BY <1>1 DEF NetworkFits, ioVars
<1>2. ASSUME NEW p \in Ports, PortStep(p) PROVE NetworkFits'
  <2>1. UNCHANGED ioVars
    BY <1>2 DEF PortStep, Accept, AcceptFails, SeesStop, Post, PostFails, StartThread, AskCapacity, workVars
  <2>2. ASSUME NEW c \in Clients, NEW life \in {"accepted", "queued", "over"}, lnConn[c] # "open", Becomes(c, life)
        PROVE  NetworkFits'
    <3>1. lnConn'[c] # "open" /\ \A d \in Clients \ {c} : lnConn'[d] = lnConn[d]
      BY <2>2, BecomesPoint DEF LivesOn
    <3> QED BY <2>1, <2>2, <3>1 DEF NetworkFits, ioVars
  <2>3. lnAcceptor[p].at \in Handling =>
           lnAcceptor[p].connection \in Clients /\ lnConn[lnAcceptor[p].connection] = "accepted"
    BY DEF HandsHold
  <2>4. CASE Accept(p) BY <2>2, <2>4 DEF Accept
  <2>5. CASE Post(p) \/ PostFails(p) BY <2>2, <2>3, <2>5 DEF Post, PostFails, Handling
  <2>6. ASSUME NEW outTime \in BOOLEAN, AskCapacity(p, outTime) PROVE NetworkFits'
    <3>1. Becomes(lnAcceptor[p].connection, "over") \/ lnConn' = lnConn BY <2>6 DEF AskCapacity
    <3>2. lnAcceptor[p].at \in Handling BY <2>6, AskOutcomes DEF Handling
    <3> QED BY <1>1, <2>1, <2>2, <2>3, <3>1, <3>2
  <2>7. CASE AcceptFails(p) \/ SeesStop(p) \/ StartThread(p)
    BY <1>1, <2>1, <2>7 DEF AcceptFails, SeesStop, StartThread, workVars
  <2> QED BY <1>2, <2>4, <2>5, <2>6, <2>7 DEF PortStep
<1>3. ASSUME NEW c \in Clients, ClientStep(c) PROVE NetworkFits'
  <2>1. ASSUME Operates(c) PROVE NetworkFits'
    <3>1. \A d \in Clients \ {c} : lnConn'[d] = lnConn[d] /\ lnIo'[d] = lnIo[d] /\ lnStop'[d] = lnStop[d]
      BY <2>1, BecomesPoint DEF Operates, IoBecomes, LivesOn
    <3> QED BY <2>1, <3>1 DEF Operates, NetworkFits
  <2>2. ASSUME lnConn[c] # "open", UNCHANGED ioVars, PeerAllowed(c) \/ PeerRefused(c) \/ NotifyCapacity(c)
        PROVE  NetworkFits'
    <3>1. \A d \in Clients \ {c} : lnConn'[d] = lnConn[d]
      BY <2>2, BecomesPoint DEF PeerAllowed, PeerRefused, NotifyCapacity, ReleaseConnection, LivesOn
    <3> QED BY <2>2, <3>1 DEF NetworkFits, ioVars
  <2> QED BY <1>3, <2>1, <2>2, NetworkSteps DEF ClientStep, PeerAllowed, PeerRefused, NotifyCapacity
<1>4. CASE TakeWork
  <2>1. PICK c \in Clients : lnConn[c] = "queued" /\ LivesOn(c, "checking")
    <3>1. Head(lnQueue) \in Clients BY <1>4, HeadTailProperties DEF TakeWork, ListenersTypeOK
    <3>2. Begins(Head(lnQueue)) BY <1>4, <3>1, BecomesPoint DEF TakeWork, Begins, poolVars
    <3> QED BY <3>1, <3>2, BeginsQueued DEF Begins
  <2> QED BY <1>4, <2>1 DEF NetworkFits, TakeWork, ioVars, LivesOn
<1>5. CASE MainStep
  BY <1>1, <1>5 DEF MainStep, ThreadFails, FindReason, SetStopping, CloseListeners, JoinAcceptors, AllRequested,
                JoinWorkers, workVars
<1>6. CASE UNCHANGED lnVars BY <1>1, <1>6 DEF lnVars, ioVars
<1> QED BY <1>2, <1>3, <1>4, <1>5, <1>6, StepsOfListeners

(* A thread may fall asleep only before the stop, and is awake or gone after it. *)
LEMMA MainFitsStep ==
    ASSUME ListenersTypeOK, HandsHold, QueueFits, NetworkFits, MainFits, [ListenersNext]_lnVars
    PROVE  MainFits'
<1> USE DEF mainVars, workVars
<1>1. ASSUME UNCHANGED <<lnMain, lnStopping>>, lnAcceptor' = lnAcceptor \/ AllAwake PROVE MainFits'
  BY <1>1 DEF MainFits, AllAwake
<1>2. ASSUME NEW p \in Ports, PortStep(p) PROVE MainFits'
  <2>1. ASSUME UNCHANGED <<lnMain, lnStopping>>, NEW at, NEW c, HandsTo(p, at, c), at = "asleep" => ~lnStopping,
               lnAcceptor[p].at \notin {"unstarted", "ended"}
        PROVE  MainFits'
    <3>1. lnAcceptor'[p].at = at /\ \A q \in Ports \ {p} : lnAcceptor'[q].at = lnAcceptor[q].at BY <2>1 DEF HandsTo
    <3>2. lnMain \notin {"cancelling", "joining workers", "returned", "threw"} BY <2>1 DEF MainFits
    <3>3. lnMain = "joining acceptors" => at # "asleep" BY <2>1 DEF MainFits
    <3>4. \A q \in Ports : lnMain = "joining acceptors" => lnAcceptor'[q].at # "asleep"
      BY <3>1, <3>3 DEF MainFits
    <3> QED BY <2>1, <3>2, <3>4 DEF MainFits
  <2>2. CASE Accept(p)
    <3>1. PICK c \in Clients : Accepting(p, "asking", c) BY <2>2 DEF Accept
    <3>2. HandsTo(p, "asking", c) BY <3>1, AcceptingPoint
    <3> QED BY <2>1, <2>2, <3>2 DEF Accept
  <2>3. CASE AcceptFails(p) \/ SeesStop(p) \/ Post(p) \/ PostFails(p)
    <3>1. HandsTo(p, "ended", NoClient) \/ HandsTo(p, "accepting", NoClient)
      BY <2>3, AcceptingPoint DEF AcceptFails, SeesStop, Post, PostFails, Ended
    <3> QED BY <2>1, <2>3, <3>1 DEF AcceptFails, SeesStop, Post, PostFails
  <2>4. ASSUME NEW outTime \in BOOLEAN, AskCapacity(p, outTime) PROVE MainFits'
    BY <2>1, <2>4, AskOutcomes DEF PutsDown, LetsGo, GetsPlace, FallsAsleep
  <2>5. CASE StartThread(p)
    <3>1. HandsTo(p, "accepting", NoClient) BY <2>5, AcceptingPoint DEF StartThread
    <3>2. lnMain = "starting" /\ lnMain' \in {"starting", "serving"} /\ lnStopping' = lnStopping
      BY <2>5 DEF StartThread, ArrivesAt
    <3> QED BY <3>1, <3>2 DEF MainFits
  <2> QED BY <1>2, <2>2, <2>3, <2>4, <2>5 DEF PortStep
<1>3. ASSUME NEW c \in Clients, ClientStep(c) PROVE MainFits'
  <2>1. CASE NotifyCapacity(c) BY <1>1, <2>1, AwakePoint DEF NotifyCapacity
  <2> QED BY <1>1, <1>3, <2>1, NetworkSteps DEF ClientStep, Operates, PeerAllowed, PeerRefused, ReleaseConnection
<1>4. CASE TakeWork BY <1>1, <1>4 DEF TakeWork
<1>5. CASE MainStep
  <2> USE DEF ArrivesAt, MainFits
  <2>1. CASE ThreadFails BY <2>1 DEF ThreadFails
  <2>2. CASE FindReason BY <2>2 DEF FindReason
  <2>3. CASE SetStopping BY <2>3 DEF SetStopping
  <2>4. CASE CloseListeners
    <3>1. \A p \in Ports : lnAcceptor'[p].at # "asleep" BY <2>4, AwakePoint DEF CloseListeners, AllAwake
    <3> QED BY <2>4, <3>1 DEF CloseListeners
  <2>5. CASE JoinAcceptors BY <2>5 DEF JoinAcceptors
  <2>6. CASE AllRequested BY <2>6 DEF AllRequested
  <2>7. CASE JoinWorkers BY <2>7 DEF JoinWorkers
  <2> QED BY <1>5, <2>1, <2>2, <2>3, <2>4, <2>5, <2>6, <2>7 DEF MainStep
<1>6. CASE UNCHANGED lnVars BY <1>1, <1>6 DEF lnVars
<1> QED BY <1>2, <1>3, <1>4, <1>5, <1>6, StepsOfListeners

(* Only a place that is given adds to what the registry counts. *)
LEMMA ListedMoves ==
    ASSUME ListenersTypeOK, HandsHold, RegistryFits, QueueFits, Moves
    PROVE  \/ Listed' \subseteq Listed
           \/ \E c \in Clients : HasCapacity /\ Listed' \subseteq Listed \cup {c}
<1> USE DEF Listed, Alive
<1>1. ASSUME NEW p \in Ports, NEW c \in Clients, TakesUp(p, c) PROVE Listed' \subseteq Listed
  <2>1. c \notin lnRegistry BY <1>1 DEF TakesUp, RegistryFits
  <2> QED BY <1>1, <2>1 DEF TakesUp, LivesOn, ListenersTypeOK
<1>2. ASSUME NEW p \in Ports, IdlesOn(p) PROVE Listed' \subseteq Listed BY <1>2 DEF IdlesOn
<1>3. ASSUME NEW p \in Ports, Posts(p) PROVE Listed' \subseteq Listed
  <2>1. lnAcceptor[p].connection \in Clients /\ lnConn[lnAcceptor[p].connection] = "accepted"
    BY <1>3 DEF Posts, HandsHold, Handling
  <2> QED BY <1>3, <2>1 DEF Posts, LivesOn, ListenersTypeOK
<1>4. ASSUME NEW p \in Ports, lnAcceptor[p].at \in Handling, LetsGo(p), lnRegistry' \in {lnRegistry, Listed}
      PROVE  Listed' \subseteq Listed
  BY <1>4 DEF LetsGo, LivesOn, ListenersTypeOK
<1>5. ASSUME NEW p \in Ports, Asks(p)
      PROVE  \/ Listed' \subseteq Listed
             \/ \E c \in Clients : HasCapacity /\ Listed' \subseteq Listed \cup {c}
  <2>1. CASE PutsDown(p) BY <1>4, <1>5, <2>1 DEF Asks, PutsDown, Handling
  <2>2. CASE GetsPlace(p)
    <3>1. lnAcceptor[p].connection \in Clients BY <1>5 DEF Asks, HandsHold, Handling
    <3> QED BY <2>2, <3>1 DEF GetsPlace
  <2>3. CASE FallsAsleep(p) BY <2>3 DEF FallsAsleep
  <2> QED BY <1>5, <2>1, <2>2, <2>3 DEF Asks
<1>6. ASSUME NEW c \in Clients, Begins(c) PROVE Listed' \subseteq Listed
  BY <1>6, BeginsQueued DEF Begins, LivesOn, ListenersTypeOK
<1>7. ASSUME NEW c \in Clients, GoesOn(c) \/ Notifies(c) PROVE Listed' \subseteq Listed
  BY <1>7 DEF GoesOn, Notifies, LivesOn, ListenersTypeOK
<1>8. CASE LivesSame BY <1>8 DEF LivesSame
<1> QED BY <1>1, <1>2, <1>3, <1>4, <1>5, <1>6, <1>7, <1>8 DEF Moves, DropsPosted, Handling

LEMMA PlacesKeptStep ==
    ASSUME ListenersTypeOK, HandsHold, RegistryFits, QueueFits, PlacesKept, Moves
    PROVE  PlacesKept'
<1>1. Listed \in SUBSET Clients /\ IsFiniteSet(Listed) /\ Cardinality(Listed) \in Nat
  <2>1. Listed \in SUBSET Clients BY DEF Listed, ListenersTypeOK
  <2> QED BY <2>1, ClientsFinite
<1>2. MaxConnections \in Nat BY ListenersAssumption
<1>3. CASE Listed' \subseteq Listed
  <2>1. Cardinality(Listed') <= Cardinality(Listed) /\ IsFiniteSet(Listed') BY <1>1, <1>3, FS_Subset
  <2>2. Cardinality(Listed') \in Nat BY <2>1, FS_CardinalityType
  <2> QED BY <1>1, <1>2, <2>1, <2>2 DEF PlacesKept
<1>4. ASSUME NEW c \in Clients, HasCapacity, Listed' \subseteq Listed \cup {c} PROVE PlacesKept'
  <2>1. /\ IsFiniteSet(Listed \cup {c}) /\ Cardinality(Listed \cup {c}) \in Nat
        /\ Cardinality(Listed \cup {c}) <= Cardinality(Listed) + 1
    <3>1. Listed \cup {c} \in SUBSET Clients BY <1>1
    <3> QED BY <1>1, <3>1, FS_AddElement, ClientsFinite
  <2>2. Cardinality(Listed') <= Cardinality(Listed \cup {c}) /\ IsFiniteSet(Listed') BY <1>4, <2>1, FS_Subset
  <2>3. Cardinality(Listed') \in Nat BY <2>2, FS_CardinalityType
  <2>4. Cardinality(Listed) < MaxConnections BY <1>4 DEF HasCapacity
  <2> QED BY <1>1, <1>2, <2>1, <2>2, <2>3, <2>4 DEF PlacesKept
<1> QED BY <1>3, <1>4, ListedMoves

(* What is raised stays raised. *)
LEMMA FlagsStay ==
    ASSUME ListenersTypeOK, NetworkFits, [ListenersNext]_lnVars
    PROVE  /\ lnFailed => lnFailed'
           /\ lnStopping => lnStopping'
           /\ \A c \in Clients : lnStop[c] = "reached" => lnStop'[c] = "reached"
<1> DEFINE Stay == /\ lnFailed => lnFailed'
                   /\ lnStopping => lnStopping'
                   /\ \A c \in Clients : lnStop[c] = "reached" => lnStop'[c] = "reached"
<1> USE DEF mainVars, workVars, ioVars
<1>1. ASSUME NEW p \in Ports, PortStep(p) PROVE Stay
  <2>1. lnStopping' = lnStopping /\ lnStop' = lnStop
    BY <1>1 DEF PortStep, Accept, AcceptFails, SeesStop, Post, PostFails, StartThread, AskCapacity
  <2>2. lnFailed => lnFailed'
    BY <1>1 DEF PortStep, Accept, AcceptFails, SeesStop, Post, PostFails, StartThread, AskCapacity
  <2> QED BY <2>1, <2>2
<1>2. ASSUME NEW c \in Clients, ClientStep(c) PROVE Stay
  <2>1. ASSUME Operates(c) PROVE Stay
    <3>1. \A d \in Clients : d = c \/ d \in Clients \ {c} OBVIOUS
    <3> QED BY <2>1, <3>1 DEF Operates
  <2> QED BY <1>2, <2>1, NetworkSteps DEF ClientStep, PeerAllowed, PeerRefused, NotifyCapacity
<1>3. CASE TakeWork \/ MainStep
  <2>1. lnFailed' = lnFailed /\ lnStop' = lnStop
    BY <1>3 DEF TakeWork, MainStep, ThreadFails, FindReason, SetStopping, CloseListeners, JoinAcceptors, AllRequested,
                JoinWorkers
  <2>2. lnStopping => lnStopping'
    BY <1>3 DEF TakeWork, MainStep, ThreadFails, FindReason, SetStopping, CloseListeners, JoinAcceptors, AllRequested,
                JoinWorkers
  <2> QED BY <2>1, <2>2
<1>4. CASE UNCHANGED lnVars BY <1>4 DEF lnVars
<1> QED BY <1>1, <1>2, <1>3, <1>4, StepsOfListeners

(* A connection that was released goes only with the announcement. *)
LEMMA ReleasedStays ==
    ASSUME ListenersTypeOK, HandsHold, QueueFits, Moves, NEW c \in Clients, lnConn[c] = "released"
    PROVE  lnConn'[c] = "released" \/ Notifies(c)
<1>1. ASSUME NEW d \in Clients, NEW life, LivesOn(d, life), lnConn[d] # "released" PROVE lnConn'[c] = "released"
  BY <1>1 DEF LivesOn
<1>2. \A p \in Ports : lnAcceptor[p].at \in Handling =>
         lnAcceptor[p].connection \in Clients /\ lnConn[lnAcceptor[p].connection] # "released"
  BY DEF HandsHold
<1>3. \A d \in Clients : Begins(d) => lnConn[d] # "released" BY BeginsQueued
<1>4. ASSUME NEW d \in Clients, Notifies(d) PROVE lnConn'[c] = "released" \/ Notifies(c)
  BY <1>4 DEF Notifies, LivesOn
<1> QED BY <1>1, <1>2, <1>3, <1>4
      DEF Moves, TakesUp, IdlesOn, Posts, DropsPosted, Asks, PutsDown, LetsGo, GetsPlace, FallsAsleep, Begins,
          GoesOn, LivesSame, Handling

(* A step after which nothing is released and nothing has failed frees no place. *)
LEMMA ListedStays ==
    ASSUME ListenersTypeOK, HandsHold, RegistryFits, QueueFits, Moves, ~lnFailed', \A c \in Clients : lnConn'[c] # "released"
    PROVE  Listed \subseteq Listed'
<1> USE DEF Listed, Alive
<1>1. ASSUME NEW p \in Ports, NEW c \in Clients, TakesUp(p, c) PROVE Listed \subseteq Listed'
  BY <1>1 DEF TakesUp, LivesOn, ListenersTypeOK
<1>2. ASSUME NEW p \in Ports, IdlesOn(p) PROVE Listed \subseteq Listed' BY <1>2 DEF IdlesOn
<1>3. ASSUME NEW p \in Ports, Posts(p) PROVE Listed \subseteq Listed'
  BY <1>3 DEF Posts, LivesOn, ListenersTypeOK
<1>4. ASSUME NEW p \in Ports, Asks(p) PROVE Listed \subseteq Listed'
  <2>1. CASE PutsDown(p)
    <3>1. lnAcceptor[p].connection \in Clients /\ lnAcceptor[p].connection \notin lnRegistry
      BY <1>4 DEF Asks, HandsHold, RegistryFits, Handling
    <3> QED BY <2>1, <3>1 DEF PutsDown, LetsGo, LivesOn, ListenersTypeOK
  <2>2. CASE GetsPlace(p) \/ FallsAsleep(p) BY <2>2 DEF GetsPlace, FallsAsleep
  <2> QED BY <1>4, <2>1, <2>2 DEF Asks
<1>5. ASSUME NEW c \in Clients, Begins(c) PROVE Listed \subseteq Listed'
  BY <1>5 DEF Begins, LivesOn, ListenersTypeOK
<1>6. ASSUME NEW c \in Clients, GoesOn(c) PROVE Listed \subseteq Listed'
  <2>1. lnConn'[c] = "open" /\ \A d \in Clients \ {c} : lnConn'[d] = lnConn[d] BY <1>6 DEF GoesOn, LivesOn
  <2> QED BY <1>6, <2>1 DEF GoesOn, ListenersTypeOK
<1>7. ASSUME NEW c \in Clients, Notifies(c) PROVE Listed \subseteq Listed'
  BY <1>7 DEF Notifies, LivesOn, ListenersTypeOK
<1>8. CASE LivesSame BY <1>8 DEF LivesSame
<1>9. \A p \in Ports : ~DropsPosted(p) BY DEF DropsPosted
<1> QED BY <1>1, <1>2, <1>3, <1>4, <1>5, <1>6, <1>7, <1>8, <1>9 DEF Moves

(* A place that becomes free is announced: whoever sleeps meanwhile is woken. *)
LEMMA NoLostWakeupStep ==
    ASSUME ListenersTypeOK, HandsHold, RegistryFits, QueueFits, NetworkFits, MainFits, NoLostWakeup,
           ListenersTypeOK', MainFits', [ListenersNext]_lnVars
    PROVE  NoLostWakeup'
<1> SUFFICES ASSUME NEW p \in Ports, lnAcceptor'[p].at = "asleep", ~lnFailed', lnMain' # "notifying",
                    \A c \in Clients : lnConn'[c] # "released"
             PROVE  ~HasCapacity' /\ ~lnStopping'
  BY DEF NoLostWakeup
<1>1. ~lnStopping'
  BY DEF MainFits, ListenersTypeOK
<1>2. Moves BY StepsMove
<1>3. CASE lnAcceptor[p].at # "asleep"
  <2>1. Asks(p) /\ FallsAsleep(p)
    <3>1. ASSUME NEW q \in Ports, NEW at, NEW c, HandsTo(q, at, c), at # "asleep" PROVE FALSE
      BY <1>3, <3>1 DEF HandsTo
    <3>2. ~AllAwake /\ lnAcceptor' # lnAcceptor BY <1>3 DEF AllAwake
    <3>3. ASSUME NEW q \in Ports \ {p}, NEW at, NEW c, HandsTo(q, at, c) PROVE FALSE BY <1>3, <3>3 DEF HandsTo
    <3> QED BY <1>2, <3>1, <3>2, <3>3
          DEF Moves, TakesUp, IdlesOn, Posts, DropsPosted, Asks, PutsDown, LetsGo, GetsPlace, FallsAsleep, Begins,
              GoesOn, Notifies, LivesSame
  <2>2. Listed' = Listed BY <2>1 DEF FallsAsleep, Listed, Alive
  <2> QED BY <1>1, <2>1, <2>2 DEF FallsAsleep, HasCapacity
<1>4. CASE lnAcceptor[p].at = "asleep"
  <2>1. ~lnFailed /\ ~lnStopping BY <1>1, FlagsStay
  <2>2. lnMain # "notifying" BY <2>1 DEF MainFits
  <2>3. ASSUME NEW c \in Clients, lnConn[c] = "released" PROVE FALSE
    <3>1. ~Notifies(c) BY <1>4 DEF Notifies, AllAwake
    <3> QED BY <1>2, <2>3, <3>1, ReleasedStays
  <2>4. ~HasCapacity BY <1>4, <2>1, <2>2, <2>3 DEF NoLostWakeup
  <2>5. Listed \subseteq Listed' BY <1>2, ListedStays
  <2>6. Listed' \in SUBSET Clients BY DEF Listed, ListenersTypeOK
  <2>7. /\ IsFiniteSet(Listed') /\ Cardinality(Listed') \in Nat
        /\ IsFiniteSet(Listed) /\ Cardinality(Listed) \in Nat /\ Cardinality(Listed) <= Cardinality(Listed')
    <3>1. IsFiniteSet(Listed') /\ Cardinality(Listed') \in Nat BY <2>6, ClientsFinite
    <3>2. Cardinality(Listed) <= Cardinality(Listed') /\ IsFiniteSet(Listed) BY <2>5, <3>1, FS_Subset
    <3> QED BY <3>1, <3>2, FS_CardinalityType
  <2>8. ~HasCapacity' BY <2>4, <2>7, ListenersAssumption DEF HasCapacity
  <2> QED BY <1>1, <2>8
<1> QED BY <1>3, <1>4

(* Once every accepting thread has ended, no connection comes to life. *)
LEMMA NoneComes ==
    ASSUME ListenersTypeOK, HandsHold, QueueFits, Moves,
           \A p \in Ports : lnAcceptor[p].at \in {"unstarted", "ended"}, NEW c \in Clients
    PROVE  /\ lnConn[c] # "accepted"
           /\ Alive(c)' => Alive(c)
           /\ lnConn[c] \in {"none", "over"} => lnConn'[c] = lnConn[c]
<1>1. \A p \in Ports : lnAcceptor[p].at \notin Handling /\ lnAcceptor[p].at # "accepting" BY DEF Handling
<1>2. lnConn[c] # "accepted" BY <1>1 DEF HandsHold
<1>3. ASSUME NEW d \in Clients, Begins(d) \/ GoesOn(d) \/ Notifies(d)
      PROVE  (Alive(c)' => Alive(c)) /\ (lnConn[c] \in {"none", "over"} => lnConn'[c] = lnConn[c])
  <2>1. Begins(d) => lnConn[d] = "queued" BY BeginsQueued
  <2>2. /\ lnConn[d] \in {"queued", "checking", "open", "released"} /\ \A e \in Clients \ {d} : lnConn'[e] = lnConn[e]
        /\ lnConn[d] = "released" => lnConn'[d] = "over"
    BY <1>3, <2>1 DEF Begins, GoesOn, Notifies, LivesOn
  <2> QED BY <2>2 DEF Alive
<1>4. ASSUME lnConn' = lnConn
      PROVE  (Alive(c)' => Alive(c)) /\ (lnConn[c] \in {"none", "over"} => lnConn'[c] = lnConn[c])
  BY <1>4 DEF Alive
<1>5. \/ \E d \in Clients : Begins(d) \/ GoesOn(d) \/ Notifies(d)
      \/ lnConn' = lnConn
  BY <1>1 DEF Moves, TakesUp, IdlesOn, Posts, DropsPosted, Asks, LivesSame, Handling
<1> QED BY <1>2, <1>3, <1>4, <1>5

(* What has become of the main thread. *)
LEMMA MainMoves ==
    ASSUME ListenersTypeOK, NetworkFits, [ListenersNext]_lnVars
    PROVE  /\ lnMain' = "joining workers" =>
                \/ lnMain = "joining workers" /\ lnReason' = lnReason
                \/ JoinAcceptors /\ lnReason \notin Cancelling /\ lnReason' = lnReason
                \/ AllRequested
           /\ lnMain' \in {"returned", "threw"} =>
                \/ lnMain' = lnMain
                \/ JoinWorkers
<1> DEFINE Goal == /\ lnMain' = "joining workers" =>
                        \/ lnMain = "joining workers" /\ lnReason' = lnReason
                        \/ JoinAcceptors /\ lnReason \notin Cancelling /\ lnReason' = lnReason
                        \/ AllRequested
                   /\ lnMain' \in {"returned", "threw"} => lnMain' = lnMain \/ JoinWorkers
<1> USE DEF mainVars, workVars, ArrivesAt
<1>1. CASE UNCHANGED <<lnMain, lnReason>> BY <1>1
<1>2. ASSUME NEW p \in Ports, PortStep(p) PROVE Goal
  <2>1. CASE StartThread(p) BY <2>1 DEF StartThread
  <2>2. UNCHANGED <<lnMain, lnReason>> \/ StartThread(p)
    BY <1>2 DEF PortStep, Accept, AcceptFails, SeesStop, Post, PostFails, AskCapacity
  <2> QED BY <1>1, <2>1, <2>2
<1>3. ASSUME NEW c \in Clients, ClientStep(c) PROVE Goal
  <2>1. UNCHANGED <<lnMain, lnReason>>
    BY <1>3, NetworkSteps DEF ClientStep, Operates, PeerAllowed, PeerRefused, NotifyCapacity
  <2> QED BY <1>1, <2>1
<1>4. CASE TakeWork BY <1>1, <1>4 DEF TakeWork
<1>5. CASE MainStep
  <2>1. CASE ThreadFails \/ FindReason \/ SetStopping \/ CloseListeners
    BY <2>1 DEF ThreadFails, FindReason, SetStopping, CloseListeners
  <2>2. CASE JoinAcceptors BY <2>2 DEF JoinAcceptors
  <2>3. CASE AllRequested BY <2>3 DEF AllRequested
  <2>4. CASE JoinWorkers BY <2>4 DEF JoinWorkers
  <2> QED BY <1>5, <2>1, <2>2, <2>3, <2>4 DEF MainStep
<1>6. CASE UNCHANGED lnVars BY <1>1, <1>6 DEF lnVars
<1> QED BY <1>2, <1>3, <1>4, <1>5, <1>6, StepsOfListeners

(* Whoever still lives when the main thread begins to wait was registered, and was told. *)
LEMMA StopReachesAllStep ==
    ASSUME ListenersTypeOK, HandsHold, RegistryFits, QueueFits, NetworkFits, MainFits, StopReachesAll,
           NetworkFits', [ListenersNext]_lnVars
    PROVE  StopReachesAll'
<1>1. Moves BY StepsMove
<1>2. ASSUME lnMain' = "joining workers", lnReason' \in Cancelling, NEW c \in Clients, Alive(c)'
      PROVE  lnStop'[c] = "reached" /\ lnIo'[c][1] # "waiting"
  <2>1. lnStop'[c] = "reached"
    <3>1. CASE lnMain = "joining workers" /\ lnReason' = lnReason
      <4>1. Alive(c) BY <1>1, <1>2, <3>1, NoneComes DEF MainFits
      <4>2. lnStop[c] = "reached" BY <1>2, <3>1, <4>1 DEF StopReachesAll
      <4> QED BY <4>2, FlagsStay
    <3>2. CASE AllRequested
      <4>1. lnMain = "cancelling" /\ (\A d \in Listed : lnStop[d] = "reached") /\ UNCHANGED <<lnConn, lnStop>>
        BY <3>2 DEF AllRequested, workVars, ioVars
      <4>2. lnConn[c] # "accepted" BY <1>1, <4>1, NoneComes DEF MainFits
      <4>3. Alive(c) BY <1>2, <4>1 DEF Alive
      <4>4. c \in Listed BY <4>2, <4>3 DEF Alive, Listed, RegistryFits
      <4> QED BY <4>1, <4>4
    <3> QED BY <1>2, <3>1, <3>2, MainMoves
  <2> QED BY <2>1 DEF NetworkFits
<1>3. ASSUME lnMain' \in {"returned", "threw"}, NEW c \in Clients PROVE lnConn'[c] \in {"none", "over"}
  <2>1. CASE lnMain' = lnMain
    <3>1. lnConn[c] \in {"none", "over"} BY <1>3, <2>1 DEF StopReachesAll
    <3> QED BY <1>1, <1>3, <2>1, <3>1, NoneComes DEF MainFits
  <2>2. CASE JoinWorkers
    <3>1. lnMain = "joining workers" /\ lnQueue = <<>> /\ Busy = {} /\ lnConn' = lnConn BY <2>2 DEF JoinWorkers, workVars
    <3>2. lnConn[c] # "accepted" BY <1>1, <3>1, NoneComes DEF MainFits
    <3>3. lnConn[c] \notin {"checking", "open", "released"} BY <3>1 DEF Busy
    <3>4. Queued = {}
      <4>1. Queued \in SUBSET Clients BY DEF Queued
      <4>2. Cardinality(Queued) = 0 BY <3>1 DEF QueueFits
      <4> QED BY <4>1, <4>2, ClientsFinite, FS_EmptySet
    <3>5. lnConn[c] # "queued" BY <3>4 DEF Queued
    <3> QED BY <3>1, <3>2, <3>3, <3>5 DEF ListenersTypeOK
  <2> QED BY <1>3, <2>1, <2>2, MainMoves
<1> QED BY <1>2, <1>3 DEF StopReachesAll

(* A service that has not started has no connections. *)
LEMMA ListenersInvariantInit == ListenersInit => ListenersInvariant
<1> SUFFICES ASSUME ListenersInit PROVE ListenersInvariant OBVIOUS
<1> USE DEF ListenersInit
<1>1. /\ \A p \in Ports : lnAcceptor[p].at = "unstarted"
      /\ \A c \in Clients : lnConn[c] = "none" /\ lnIo[c] = NoOperation /\ lnStop[c] = "no"
  OBVIOUS
<1>2. ListenersTypeOK
  <2>1. /\ [at |-> "unstarted", connection |-> NoClient]
               \in [at : {"unstarted", "accepting", "asking", "asleep", "posting", "ended"}, connection : Clients \cup {NoClient}]
        /\ NoOperation \in {"idle", "called", "waiting"} \X (Operations \cup {"none"})
        /\ 0 \in 0..MaxListenFaults /\ <<>> \in Seq(Clients)
    BY ListenersAssumption DEF NoOperation
  <2> QED BY <2>1 DEF ListenersTypeOK
<1>3. Queued = {} /\ Listed = {} BY <1>1 DEF Queued, Listed
<1>4. Cardinality({}) = 0 BY FS_EmptySet
<1>5. HandsHold /\ RegistryFits /\ NetworkFits /\ MainFits
  BY <1>1 DEF HandsHold, Handling, RegistryFits, NetworkFits, MainFits
<1>6. QueueFits BY <1>3, <1>4 DEF QueueFits
<1>7. PlacesKept BY <1>3, <1>4, ListenersAssumption DEF PlacesKept
<1>8. NoLostWakeup BY <1>1 DEF NoLostWakeup
<1>9. StopReachesAll BY DEF StopReachesAll
<1> QED BY <1>2, <1>5, <1>6, <1>7, <1>8, <1>9 DEF ListenersInvariant

(* Every step keeps the invariant. *)
LEMMA ListenersInvariantStep == ListenersInvariant /\ [ListenersNext]_lnVars => ListenersInvariant'
<1> SUFFICES ASSUME ListenersInvariant, [ListenersNext]_lnVars PROVE ListenersInvariant' OBVIOUS
<1> USE DEF ListenersInvariant
<1>1. Moves BY StepsMove
<1>2. ListenersTypeOK' BY ListenersTypeStep
<1>3. HandsHold' BY <1>1, HandsHoldStep
<1>4. RegistryFits' BY <1>1, RegistryFitsStep
<1>5. QueueFits' BY <1>1, QueueFitsStep
<1>6. NetworkFits' BY NetworkFitsStep
<1>7. MainFits' BY MainFitsStep
<1>8. PlacesKept' BY <1>1, PlacesKeptStep
<1>9. NoLostWakeup' BY <1>2, <1>7, NoLostWakeupStep
<1>10. StopReachesAll' BY <1>6, StopReachesAllStep
<1> QED BY <1>2, <1>3, <1>4, <1>5, <1>6, <1>7, <1>8, <1>9, <1>10

(* What waits for a worker or has one was given a place of its own. *)
LEMMA WorkersSuffice == ListenersInvariant => CapacityKept
<1> SUFFICES ASSUME ListenersInvariant PROVE CapacityKept OBVIOUS
<1> USE DEF ListenersInvariant
<1>1. Queued \in SUBSET Clients /\ InSession \in SUBSET Clients /\ Listed \in SUBSET Clients
  BY DEF Queued, InSession, Listed, ListenersTypeOK
<1>2. Queued \cap InSession = {} /\ Queued \cup InSession \subseteq Listed
  BY DEF Queued, InSession, Listed, Alive, RegistryFits
<1>3. Cardinality(Queued) + Cardinality(InSession) <= Cardinality(Listed)
  <2>1. Cardinality(Queued \cup InSession) = Cardinality(Queued) + Cardinality(InSession)
    <3>1. Cardinality(Queued \cap InSession) = 0 BY <1>2, FS_EmptySet
    <3>2. /\ IsFiniteSet(Queued) /\ Cardinality(Queued) \in Nat
          /\ IsFiniteSet(InSession) /\ Cardinality(InSession) \in Nat
      BY <1>1, ClientsFinite
    <3>3. Cardinality(Queued \cup InSession)
          = Cardinality(Queued) + Cardinality(InSession) - Cardinality(Queued \cap InSession)
      BY <3>2, FS_Union
    <3> QED BY <3>1, <3>2, <3>3
  <2>2. Cardinality(Queued \cup InSession) <= Cardinality(Listed) BY <1>1, <1>2, ClientsFinite, FS_Subset
  <2> QED BY <2>1, <2>2
<1>4. Cardinality(Listed) <= MaxConnections /\ Len(lnQueue) = Cardinality(Queued) BY DEF PlacesKept, QueueFits
<1>5. Cardinality(Queued) \in Nat /\ Cardinality(InSession) \in Nat /\ Cardinality(Listed) \in Nat /\ MaxConnections \in Nat
  BY <1>1, ClientsFinite, ListenersAssumption
<1>6. Len(lnQueue) + Cardinality(InSession) <= MaxConnections BY <1>3, <1>4, <1>5
<1> QED BY <1>4, <1>6 DEF CapacityKept, InSession

(* For any number of listeners and connections: no more are taken than the
   capacity allows, a place that becomes free is given to whoever waits for it,
   and a stop reaches every session (serve_listeners, request_stop).          *)
THEOREM ConnectionsAreAccountedFor == ListenersSpec => []SessionsAreAccountedFor
<1>1. ListenersInvariant => SessionsAreAccountedFor
  BY WorkersSuffice DEF ListenersInvariant, SessionsAreAccountedFor
<1> QED BY <1>1, ListenersInvariantInit, ListenersInvariantStep, PTL DEF ListenersSpec

(* The variables of the threads, connections and network operations keep their types. *)
THEOREM ListenersTypes == ListenersSpec => []ListenersTypeOK
<1>1. ListenersInvariant => ListenersTypeOK BY DEF ListenersInvariant
<1> QED BY <1>1, ListenersInvariantInit, ListenersInvariantStep, PTL DEF ListenersSpec

-----------------------------------------------------------------------------
(*****************************************************************************)
(* The parts side by side: each behaves as it does alone, moving or not.     *)
(*****************************************************************************)

sideVars == <<moving, edVars, frVars, bkVars, acVars, lgVars, abVars, smVars, obVars, fwVars, lnVars>>

LEMMA EachStartsAlone ==
    Init => /\ moving \in Moving
            /\ EditsInit /\ FirstRunInit /\ BackupInit /\ AcmeInit /\ LogInit
            /\ AbuseInit /\ SmtpInit /\ OutboundInit /\ ForwardingInit /\ ListenersInit
BY Zenon DEF Init

LEMMA EachMovesAlone ==
    [Next]_sideVars =>
        /\ UNCHANGED moving
        /\ [EditsNext]_edVars /\ [FirstRunNext]_frVars /\ [BackupNext]_bkVars /\ [AcmeNext]_acVars /\ [LogNext]_lgVars
        /\ [AbuseNext]_abVars /\ [SmtpNext]_smVars /\ [OutboundNext]_obVars
        /\ [ForwardingNext]_fwVars /\ [ListenersNext]_lnVars
<1> SUFFICES ASSUME [Next]_sideVars
             PROVE  /\ UNCHANGED moving
                    /\ [EditsNext]_edVars /\ [FirstRunNext]_frVars /\ [BackupNext]_bkVars /\ [AcmeNext]_acVars
                    /\ [LogNext]_lgVars /\ [AbuseNext]_abVars /\ [SmtpNext]_smVars /\ [OutboundNext]_obVars
                    /\ [ForwardingNext]_fwVars /\ [ListenersNext]_lnVars
  OBVIOUS
<1>0. \/ UNCHANGED sideVars
      \/ EditsNext /\ Only("edits")
      \/ FirstRunNext /\ Only("first run")
      \/ BackupNext /\ Only("backup")
      \/ AcmeNext /\ Only("acme")
      \/ LogNext /\ Only("logs")
      \/ AbuseNext /\ Only("abuse")
      \/ SmtpNext /\ Only("smtp")
      \/ OutboundNext /\ Only("outbound")
      \/ ForwardingNext /\ Only("forwarding")
      \/ ListenersNext /\ Only("listeners")
  BY Zenon DEF Next
<1>1. CASE UNCHANGED sideVars BY Zenon, <1>1 DEF sideVars
<1>2. CASE EditsNext /\ Only("edits") BY <1>2 DEF Only
<1>3. CASE FirstRunNext /\ Only("first run") BY <1>3 DEF Only
<1>4. CASE BackupNext /\ Only("backup") BY <1>4 DEF Only
<1>5. CASE AcmeNext /\ Only("acme") BY <1>5 DEF Only
<1>6. CASE LogNext /\ Only("logs") BY <1>6 DEF Only
<1>7. CASE AbuseNext /\ Only("abuse") BY <1>7 DEF Only
<1>8. CASE SmtpNext /\ Only("smtp") BY <1>8 DEF Only
<1>9. CASE OutboundNext /\ Only("outbound") BY <1>9 DEF Only
<1>10. CASE ForwardingNext /\ Only("forwarding") BY <1>10 DEF Only
<1>11. CASE ListenersNext /\ Only("listeners") BY <1>11 DEF Only
<1> QED BY Zenon, <1>0, <1>1, <1>2, <1>3, <1>4, <1>5, <1>6, <1>7, <1>8, <1>9, <1>10, <1>11

LEMMA EachBehavesAlone ==
    Spec => /\ [](moving \in Moving)
            /\ EditsSpec /\ FirstRunSpec /\ BackupSpec /\ AcmeSpec /\ LogSpec
            /\ AbuseSpec /\ SmtpSpec /\ OutboundSpec /\ ForwardingSpec /\ ListenersSpec
<1>1. moving \in Moving /\ UNCHANGED moving => (moving \in Moving)'
  OBVIOUS
<1>2. Spec => Init /\ [][Next]_sideVars
  BY DEF Spec, sideVars
<1> QED BY <1>1, <1>2, EachStartsAlone, EachMovesAlone, PTL DEF EditsSpec, FirstRunSpec, BackupSpec, AcmeSpec, LogSpec,
          AbuseSpec, SmtpSpec, OutboundSpec, ForwardingSpec, ListenersSpec

(* Whichever part moves, its variables keep their types, and so do those of the others. *)
THEOREM PartsKeepTheirTypes == Spec => []OperationsTypeOK
<1>1. EditsTypeOK /\ FirstRunTypeOK /\ BackupTypeOK /\ AcmeTypeOK /\ LogTypeOK /\ AbuseTypeOK /\ SmtpTypeOK
      /\ OutboundTypeOK /\ ForwardingTypeOK /\ ListenersTypeOK /\ moving \in Moving => OperationsTypeOK
  BY DEF OperationsTypeOK, Moving
<1> QED BY <1>1, EachBehavesAlone, EditsTypesHold, FirstRunTypesHold, BackupTypes, AcmeTypes, LogTypes, AbuseTypesHold,
          SmtpTypes, OutboundTypes, ForwardingTypes, ListenersTypes, PTL

(* What each part promises alone holds of the parts side by side, as they are *)
(* model-checked: transactions, attempts, certificate jobs, archives, edits,   *)
(* the first start, requests, connections, rules and log pages together.       *)
THEOREM PartsKeepTheirPromises ==
    Spec => /\ [](/\ QueuedIsOneTransaction /\ AttemptIsSafe /\ JobsKeepApart /\ BackupIsOneInstant
                  /\ EditsAreNotLost /\ ServingHasAdmin /\ ClientKeepsToItsKey
                  /\ SessionsAreAccountedFor /\ RoutesFollowTheRules /\ PagesAreExact)
            /\ ActivatedOnEvidence
<1> QED BY EachBehavesAlone, TransactionsAreWhole, AttemptsAreSafe, CertificateJobsKeepApart, BackupsAreOneInstant,
          NoEditIsLost, ServingNeedsAdmin, ClientKeepsItsKey, ConnectionsAreAccountedFor, RoutesAreRight,
          PagesReturnTheLog, DomainsActivateOnEvidence, PTL
=============================================================================
