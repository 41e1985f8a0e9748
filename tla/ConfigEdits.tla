---------------------------- MODULE ConfigEdits -----------------------------
(***************************************************************************)
(* The administrators' edits of a running server's configuration file: the  *)
(* settings page (save_settings) and the hosted domains (domains_...).  Every *)
(* form carries the revision of the configuration it was opened with.  Of   *)
(* the settings only those that the DNS evidence of a domain depends on and *)
(* the relay password, kept in a file of its own, are told apart.           *)
(***************************************************************************)
EXTENDS Naturals, FiniteSets

CONSTANTS
    Editors,        \* the requests that may be in progress at once
    Domains,        \* mail domains other than the first
    MaxSecrets,     \* bound: relay password files at a time
    MaxExpiries,        \* bound: times a check's 24 hours run out
    MaxEdits,       \* bound: requests that reach the file
    MaxHandEdits    \* bound: manual edits of the file

ASSUME ConfigEditsAssumption == MaxSecrets \in Nat /\ MaxExpiries \in Nat /\ MaxEdits \in Nat /\ MaxHandEdits \in Nat

VARIABLES
    edFile,         \* the configuration file
    edLock, edCall, \* its lock and the calls of replace_config_file
    edSeen,         \* editor -> the contents the administrator's form shows, NoForm when none is open
    edSecret,       \* editor -> the relay password file its request wrote, 0 for none
    edSecrets,      \* the relay password files that exist
    edDay, edEdits, edHandEdits,
    edTouched       \* the file was edited by hand after the second comparison

edVars == <<edFile, edLock, edCall, edSeen, edSecret, edSecrets, edDay, edEdits, edHandEdits,
            edTouched>>

File == INSTANCE ConfigFile WITH Replacers <- Editors, file <- edFile, lockedBy <- edLock, replacing <- edCall

-----------------------------------------------------------------------------
(* A configuration: mail host settings, the relay password file it names, and *)
(* for every domain its state in the registry, whether a Webmail host name is *)
(* bound to it, and the result of its last DNS check.                        *)
Fingerprints == [host : 0..1, bound : BOOLEAN]
NoEvidence == [ready |-> FALSE, fingerprint |-> [host |-> 0, bound |-> FALSE], day |-> 0]
Evidence == [ready : BOOLEAN, fingerprint : Fingerprints, day : 0..MaxExpiries]
RegistryEntries == [status : {"absent", "pending", "active"}, bound : BOOLEAN, dns : Evidence]
NoForm == [host |-> 2, relay |-> 0, registry |-> <<>>]
NoEntry == [status |-> "absent", bound |-> FALSE, dns |-> NoEvidence]
Configurations == [host : 0..1, relay : 0..MaxSecrets, registry : [Domains -> RegistryEntries]]

EditsTypeOK ==
    /\ edFile \in Configurations /\ edSeen \in [Editors -> Configurations \cup {NoForm}]
    /\ edLock \subseteq Editors /\ Cardinality(edLock) <= 1
    /\ \A e \in Editors :
         /\ edCall[e].at \in {"none", "begun", "compared", "confirmed", "replaced", "refused"}
         /\ {edCall[e].expected, edCall[e].replacement} \subseteq Configurations
    /\ edSecret \in [Editors -> 0..MaxSecrets] /\ edSecrets \subseteq 1..MaxSecrets
    /\ edDay \in 0..MaxExpiries /\ edEdits \in 0..MaxEdits /\ edHandEdits \in 0..MaxHandEdits /\ edTouched \in BOOLEAN

FirstFile == [host |-> 0, relay |-> 0, registry |-> [d \in Domains |-> NoEntry]]

EditsInit ==
    /\ edFile = FirstFile /\ edSeen = [e \in Editors |-> NoForm]
    /\ edLock = {} /\ edCall = [e \in Editors |-> File!NoCall(FirstFile)]
    /\ edSecret = [e \in Editors |-> 0] /\ edSecrets = {}
    /\ edDay = 0 /\ edEdits = 0 /\ edHandEdits = 0 /\ edTouched = FALSE

Entry(c, d) == c.registry[d]
Registered(c, d) == Entry(c, d).status # "absent"
WithEntry(c, d, entry) == [c EXCEPT !.registry[d] = entry]
dns_fingerprint(c, d) == [host |-> c.host, bound |-> Entry(c, d).bound]

(* Mutant: the settings may have changed since the check. *)
AnyFreshEvidence(c, d) == Entry(c, d).dns.ready /\ edDay = Entry(c, d).dns.day

(* can_activate: evidence of the last 24 hours for the settings as they are. *)
can_activate(c, d) ==
    LET evidence == Entry(c, d).dns
    IN  /\ evidence.ready
        /\ edDay = evidence.day
        /\ evidence.fingerprint = dns_fingerprint(c, d)

(* domains_add, _update, _check and _mark_checked, _activate, _remove: what each stores. *)
Added(c, d) == IF Registered(c, d) THEN {} ELSE {WithEntry(c, d, [NoEntry EXCEPT !.status = "pending"])}
Rebound(c, d) ==
    IF ~Registered(c, d) THEN {}
    ELSE {WithEntry(c, d, [Entry(c, d) EXCEPT !.bound = b]) : b \in BOOLEAN}
Checked(c, d) ==
    IF ~Registered(c, d) THEN {}
    ELSE {WithEntry(c, d, [Entry(c, d) EXCEPT !.dns =
             IF ready THEN [ready |-> TRUE, fingerprint |-> dns_fingerprint(c, d), day |-> edDay]
             ELSE NoEvidence]) : ready \in BOOLEAN}
Activated(c, d) ==
    IF Entry(c, d).status = "pending" /\ can_activate(c, d)
    THEN {WithEntry(c, d, [Entry(c, d) EXCEPT !.status = "active"])} ELSE {}
RemovedDomain(c, d) == IF Registered(c, d) THEN {WithEntry(c, d, NoEntry)} ELSE {}

DomainEdits(c) ==
    UNION {Added(c, d) \cup Rebound(c, d) \cup Checked(c, d) \cup Activated(c, d) \cup RemovedDomain(c, d) : d \in Domains}

-----------------------------------------------------------------------------
(* The page is loaded: the form keeps the revision. *)
Open(e) ==
    /\ edSeen[e] = NoForm
    /\ edSeen' = [edSeen EXCEPT ![e] = edFile]
    /\ UNCHANGED <<edFile, edLock, edCall, edSecret, edSecrets, edDay, edEdits, edHandEdits, edTouched>>

(* editable: the revision of the form is that of the file just read. *)
editable(e) ==
    /\ ~File!InCall(e)
    /\ edSeen[e] = edFile
    /\ edEdits < MaxEdits
    /\ edEdits' = edEdits + 1

(* 409: the form must be opened again. *)
Outdated(e) ==
    /\ ~File!InCall(e)
    /\ edSeen[e] \notin {NoForm, edFile}
    /\ edSeen' = [edSeen EXCEPT ![e] = NoForm]
    /\ UNCHANGED <<edFile, edLock, edCall, edSecret, edSecrets, edDay, edEdits, edHandEdits, edTouched>>

(* save_settings: a new password goes to a new file, a removed one keeps its file. *)
SaveSettings(e) ==
    /\ editable(e)
    /\ \E host \in 0..1, relay \in {0, edFile.relay} \cup (1..MaxSecrets \ edSecrets) :
         /\ edSecret' = [edSecret EXCEPT ![e] = IF relay \in edSecrets THEN 0 ELSE relay]
         /\ edSecrets' = edSecrets \cup ({relay} \ {0})
         /\ File!Begin(e, edFile, [edFile EXCEPT !.host = host, !.relay = relay])
    /\ UNCHANGED <<edSeen, edDay, edHandEdits, edTouched>>

(* A domain request; the DNS lookups of a check take place before the call. *)
EditDomain(e) ==
    /\ editable(e)
    /\ \E replacement \in DomainEdits(edFile) : File!Begin(e, edFile, replacement)
    /\ UNCHANGED <<edSeen, edSecret, edSecrets, edDay, edHandEdits, edTouched>>

Replacing(e) ==
    /\ File!Replace(e)
    /\ edTouched' = (edTouched /\ edLock' # {})
    /\ UNCHANGED <<edSecret, edSecrets, edSeen, edDay, edEdits, edHandEdits>>

(* The answer: a refused save removes the password file it wrote (RemoveOnExit). *)
Answered(e) ==
    /\ edCall[e].at \in {"replaced", "refused"}
    /\ edSecrets' = IF edCall[e].at = "refused" THEN edSecrets \ {edSecret[e]} ELSE edSecrets
    /\ edSecret' = [edSecret EXCEPT ![e] = 0]
    /\ File!Forget({e}, FirstFile)
    /\ edSeen' = [edSeen EXCEPT ![e] = NoForm]
    /\ UNCHANGED <<edDay, edEdits, edHandEdits, edTouched>>

(* The admin process dies; password files of its requests stay. *)
AdminCrash ==
    /\ \E e \in Editors : File!InCall(e)
    /\ File!Forget(Editors, FirstFile)
    /\ edSecret' = [e \in Editors |-> 0]
    /\ edTouched' = FALSE
    /\ edSeen' = [e \in Editors |-> NoForm]
    /\ UNCHANGED <<edSecrets, edDay, edEdits, edHandEdits>>

(* External: a text editor. *)
HandEdit ==
    /\ edHandEdits < MaxHandEdits
    /\ edHandEdits' = edHandEdits + 1
    /\ edFile' = [edFile EXCEPT !.host = 1 - @]
    /\ edTouched' = (edTouched \/ \E e \in Editors : edCall[e].at = "confirmed")
    /\ UNCHANGED <<edLock, edCall, edSeen, edSecret, edSecrets, edDay, edEdits>>

CheckExpires ==
    /\ edDay < MaxExpiries
    /\ edDay' = edDay + 1
    /\ UNCHANGED <<edFile, edLock, edCall, edSeen, edSecret, edSecrets, edEdits, edHandEdits, edTouched>>

EditsNext ==
    \/ \E e \in Editors : Open(e) \/ Outdated(e) \/ SaveSettings(e) \/ EditDomain(e) \/ Replacing(e) \/ Answered(e)
    \/ AdminCrash \/ HandEdit \/ CheckExpires

EditsSpec == EditsInit /\ [][EditsNext]_edVars

-----------------------------------------------------------------------------
(* A confirmed request replaces exactly the configuration its administrator's *)
(* form showed, whatever other requests, checks and manual edits did since   *)
(* (only a manual edit between the second comparison and the rename is lost), *)
(* and the relay password file the configuration names is there, although a  *)
(* refused request removes the one it wrote (replace_config_file, save_settings). *)
EditsAreNotLost ==
    /\ \A e \in Editors : edCall[e].at = "confirmed" /\ ~edTouched => edFile = edSeen[e]
    /\ edFile.relay \in {0} \cup edSecrets

(* A domain becomes active only in a configuration that holds evidence of   *)
(* its DNS gathered with the mail host and Webmail binding of that same      *)
(* configuration (can_activate), although hours of edits may lie between.    *)
ActivatedOnEvidence ==
    [][\A d \in Domains :
         LET before == edFile.registry[d]
             after == edFile'.registry[d]
         IN  before.status # "active" /\ after.status = "active" /\ ~edTouched =>
               /\ after.dns.ready
               /\ after.dns.fingerprint = [host |-> edFile'.host, bound |-> after.bound]]_edVars
=============================================================================
