------------------------------- MODULE Outbound -------------------------------
(***************************************************************************)
(* One attempt of the transfer service to hand a message to another server:  *)
(* directly to the mail exchangers of the domain, one address after another, *)
(* or to the configured relay.  The destination answers as it likes, and the *)
(* connection may end at any point.                                         *)
(***************************************************************************)
EXTENDS Naturals, FiniteSets

CONSTANTS
    Destinations,   \* addresses of the domain's exchangers, in whatever order
    Attempts        \* the most of them tried (32)

ASSUME OutboundAssumption == Attempts \in Nat

VARIABLES
    obMode,         \* direct_tls or smarthost_tls
    obAt,           \* what the attempt waits for
    obHost,         \* the destination it talks to
    obUntried, obTried,
    obEncrypted,
    obResult,       \* how the attempt ended
    obTaken,        \* destinations that took responsibility for the message
    obRefused,      \* destinations that offered an upgrade which then failed
    obClear         \* the envelope given away in the clear: to whom, and after whose failed upgrade

obVars == <<obMode, obAt, obHost, obUntried, obTried, obEncrypted, obResult, obTaken, obRefused, obClear>>

Direct == {"direct_starttls", "direct_required"}
Relay == {"relay_starttls", "relay_implicit", "relay_none"}
NoHost == "none"
Dialog == {"greeting", "EHLO", "STARTTLS", "AUTH", "MAIL FROM", "RCPT TO", "DATA", "final DATA"}
Results == {"none", "delivered", "permanent", "smtp_tls_failed", "delivery_unknown", "deferred"}
Hosts == Destinations \cup {NoHost}

OutboundTypeOK ==
    /\ obMode \in Direct \cup Relay /\ obAt \in Dialog \cup {"next", "ended"}
    /\ obHost \in Hosts /\ obUntried \in SUBSET Destinations /\ obTried \in 0..Attempts
    /\ obEncrypted \in BOOLEAN /\ obResult \in Results
    /\ obTaken \in SUBSET Hosts /\ obRefused \in SUBSET Hosts
    /\ obClear \in SUBSET [host : Hosts, refused : SUBSET Hosts]

(* exchanges and addresses: those that resolve to public addresses. *)
OutboundInit ==
    /\ obMode \in Direct \cup Relay
    /\ obAt = "next" /\ obHost = NoHost
    /\ obUntried \in SUBSET Destinations /\ obTried = 0
    /\ obEncrypted = FALSE /\ obResult = "none"
    /\ obTaken = {} /\ obRefused = {} /\ obClear = {}

History == <<obTaken, obRefused, obClear>>
Tries == <<obUntried, obTried>>
Proceeds(at) == obAt' = at /\ UNCHANGED <<obMode, obHost, Tries, obResult>>
Ends(result) == obAt' = "ended" /\ obResult' = result /\ UNCHANGED <<obMode, obHost, Tries>>

-----------------------------------------------------------------------------
(* The next destination, unless the attempt or its time is over; a relay is the only one. *)
ConnectNext ==
    /\ obAt = "next" /\ obTried < Attempts
    /\ \E host \in obUntried :
         /\ obHost' = host
         /\ obUntried' = IF obMode \in Relay THEN {} ELSE obUntried \ {host}
    /\ obTried' = obTried + 1
    /\ obEncrypted' = (obMode = "relay_implicit")
    /\ obAt' = "greeting"
    /\ UNCHANGED <<obMode, obResult, History>>

(* No destination is left or resolves, or the limit of attempts or time is reached. *)
GivesUp ==
    /\ obAt = "next"
    /\ Ends("deferred")
    /\ UNCHANGED <<obEncrypted, History>>

(* The domain does not exist or takes no mail, or the envelope or the configuration is not acceptable. *)
Undeliverable ==
    /\ obAt = "next" /\ obTried = 0
    /\ Ends("permanent")
    /\ UNCHANGED <<obEncrypted, History>>

-----------------------------------------------------------------------------
(* An error before the final dot: the next address is tried, a relay is the only one. *)
Fails ==
    IF obMode \in Direct THEN Proceeds("next") ELSE Ends("deferred")

Greeting ==
    /\ obAt = "greeting"
    /\ Proceeds("EHLO")
    /\ UNCHANGED <<obEncrypted, History>>

(* The destination offers STARTTLS or not; one that knows no EHLO offers nothing. *)
Upgrade(offered) ==
    CASE obMode = "relay_implicit" \/ obMode = "relay_none" -> "AUTH"
      [] obMode = "relay_starttls" -> IF offered THEN "STARTTLS" ELSE "refused"
      [] obMode = "direct_required" -> IF offered THEN "STARTTLS" ELSE "refused"
      [] OTHER -> IF offered THEN "STARTTLS" ELSE "MAIL FROM"

Ehlo ==
    /\ obAt = "EHLO"
    /\ \E offered \in BOOLEAN :
         IF Upgrade(offered) = "refused" THEN Fails ELSE Proceeds(Upgrade(offered))
    /\ UNCHANGED <<obEncrypted, History>>

Upgraded ==
    /\ obAt = "STARTTLS"
    /\ obEncrypted' = TRUE
    /\ Proceeds(IF obMode \in Relay THEN "AUTH" ELSE "MAIL FROM")
    /\ UNCHANGED History

(* Mutant: after a failed upgrade the next address is tried. *)
TriesNext ==
    /\ obAt = "STARTTLS"
    /\ obRefused' = obRefused \cup {obHost}
    /\ Fails
    /\ UNCHANGED <<obEncrypted, obTaken, obClear>>

(* Refused, a failed handshake, certificate or second EHLO: the attempt is over. *)
UpgradeFails ==
    /\ obAt = "STARTTLS"
    /\ obRefused' = obRefused \cup {obHost}
    /\ Ends(IF obMode \in Direct THEN "smtp_tls_failed" ELSE "deferred")
    /\ UNCHANGED <<obEncrypted, obTaken, obClear>>

(* A relay with a user name takes its password over TLS only. *)
RelayLogin ==
    /\ obAt = "AUTH"
    /\ Proceeds("MAIL FROM")
    /\ UNCHANGED <<obEncrypted, History>>

(* The saved password holds a line break or is too long (invalid_argument). *)
PasswordInvalid ==
    /\ obAt = "AUTH" /\ obEncrypted
    /\ Ends("permanent")
    /\ UNCHANGED <<obEncrypted, History>>

GivesEnvelope ==
    /\ obAt = "MAIL FROM"
    /\ Proceeds("RCPT TO")
    /\ obClear' = IF obEncrypted THEN obClear ELSE obClear \cup {[host |-> obHost, refused |-> obRefused]}
    /\ UNCHANGED <<obEncrypted, obTaken, obRefused>>

Accepted ==
    /\ \/ obAt = "RCPT TO" /\ Proceeds("DATA")
       \/ obAt = "DATA" /\ Proceeds("final DATA")
    /\ UNCHANGED <<obEncrypted, History>>

(* 4xx, an invalid reply, a timeout or the end of the connection; a message  *)
(* without its final dot is not delivered.                                  *)
TemporaryFailure ==
    /\ obAt \in Dialog \ {"STARTTLS", "final DATA"}
    /\ Fails
    /\ UNCHANGED <<obEncrypted, History>>

(* 5xx to the message. *)
Rejected ==
    /\ obAt \in {"MAIL FROM", "RCPT TO", "DATA", "final DATA"}
    /\ Ends("permanent")
    /\ UNCHANGED <<obEncrypted, History>>

(* After the final dot: refused for now, taken, or taken perhaps. *)
Postponed ==
    /\ obAt = "final DATA"
    /\ Fails
    /\ UNCHANGED <<obEncrypted, History>>

Delivered ==
    /\ obAt = "final DATA"
    /\ obTaken' = obTaken \cup {obHost}
    /\ Ends("delivered")
    /\ UNCHANGED <<obEncrypted, obRefused, obClear>>

AnswerLost ==
    /\ obAt = "final DATA"
    /\ obTaken' \in {obTaken, obTaken \cup {obHost}}
    /\ Ends(IF obMode \in Direct THEN "delivery_unknown" ELSE "deferred")
    /\ UNCHANGED <<obEncrypted, obRefused, obClear>>

(* A line of a relay's reply that is too long or holds a bare line feed is a  *)
(* length_error, which the service reports as message_too_large, whatever     *)
(* the relay answers and also when it may have taken the message.            *)
UnreadableReply ==
    /\ obMode \in Relay /\ obAt \in Dialog
    /\ obRefused' = IF obAt = "STARTTLS" THEN obRefused \cup {obHost} ELSE obRefused
    /\ \/ obTaken' = obTaken
       \/ obAt = "final DATA" /\ obTaken' = obTaken \cup {obHost}
    /\ Ends("permanent")
    /\ UNCHANGED <<obEncrypted, obClear>>

OutboundNext ==
    \/ ConnectNext \/ GivesUp \/ Undeliverable \/ Greeting \/ Ehlo \/ Upgraded \/ UpgradeFails \/ RelayLogin \/ PasswordInvalid
    \/ GivesEnvelope \/ Accepted \/ TemporaryFailure \/ Rejected \/ Postponed \/ Delivered \/ AnswerLost \/ UnreadableReply

OutboundSpec == OutboundInit /\ [][OutboundNext]_obVars

-----------------------------------------------------------------------------
(* Within an attempt at most one destination takes the message, and one does *)
(* whenever delivery is reported (deliver_direct: "QUIT/disconnect failures   *)
(* must never queue a duplicate").  Sent directly, a message that somebody    *)
(* may have taken is reported delivered or unknown, never as failed or         *)
(* deferred; of a relay the service does not tell these apart.               *)
TakenOnce ==
    /\ \A a, b \in obTaken : a = b
    /\ obResult = "delivered" => obTaken # {}
    /\ obMode \in Direct /\ obTaken # {} => obResult \in {"delivered", "delivery_unknown"}

(* After an upgrade that was offered and failed no destination of the attempt *)
(* gets the envelope in the clear, and none does when TLS is demanded.       *)
NeverDowngraded ==
    \A x \in obClear : x.refused = {} /\ obMode \in {"direct_starttls", "relay_none"}

(* An attempt over all destinations, whatever they answer and whenever a    *)
(* connection ends: one of them takes the message at most, a direct attempt   *)
(* that says otherwise has not lost it to one, and TLS is never given up for  *)
(* the next destination.                                                    *)
AttemptIsSafe == TakenOnce /\ NeverDowngraded
=============================================================================
