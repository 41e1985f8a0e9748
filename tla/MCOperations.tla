---------------------------- MODULE MCOperations ----------------------------
(***************************************************************************)
(* The parts of the installation that share no state with one another are   *)
(* checked side by side: a behaviour picks one of them at the start, and     *)
(* only that one moves, so that the state spaces add up instead of           *)
(* multiplying.                                                             *)
(***************************************************************************)
EXTENDS ConfigEdits, FirstRun, Backup, Acme, LogFiles, AbuseIpdb, SmtpSession, Outbound, Forwarding, Listeners

VARIABLE moving     \* the part that moves

Moving == {"edits", "first run", "backup", "acme", "logs", "abuse", "smtp", "outbound",
           "forwarding", "listeners"}

(* A part that does not move needs only one of its initial states. *)
OneStart ==
    /\ moving # "first run" => frFile = MissingFile
    /\ moving # "smtp" => ~smSubmission /\ ~smTls
    /\ moving # "outbound" => obMode = "relay_none" /\ obUntried = {}
    /\ moving # "abuse" => abKey = NoKey

Init ==
    /\ moving \in Moving
    /\ EditsInit /\ FirstRunInit /\ BackupInit /\ AcmeInit /\ LogInit /\ AbuseInit /\ SmtpInit /\ OutboundInit
    /\ ForwardingInit /\ ListenersInit
    /\ OneStart

Only(p) ==
    /\ UNCHANGED moving
    /\ p # "edits" => UNCHANGED edVars
    /\ p # "first run" => UNCHANGED frVars
    /\ p # "backup" => UNCHANGED bkVars
    /\ p # "acme" => UNCHANGED acVars
    /\ p # "logs" => UNCHANGED lgVars
    /\ p # "abuse" => UNCHANGED abVars
    /\ p # "smtp" => UNCHANGED smVars
    /\ p # "outbound" => UNCHANGED obVars
    /\ p # "forwarding" => UNCHANGED fwVars
    /\ p # "listeners" => UNCHANGED lnVars

Next ==
    \/ moving = "edits" /\ EditsNext /\ Only("edits")
    \/ moving = "first run" /\ FirstRunNext /\ Only("first run")
    \/ moving = "backup" /\ BackupNext /\ Only("backup")
    \/ moving = "acme" /\ AcmeNext /\ Only("acme")
    \/ moving = "logs" /\ LogNext /\ Only("logs")
    \/ moving = "abuse" /\ AbuseNext /\ Only("abuse")
    \/ moving = "smtp" /\ SmtpNext /\ Only("smtp")
    \/ moving = "outbound" /\ OutboundNext /\ Only("outbound")
    \/ moving = "forwarding" /\ ForwardingNext /\ Only("forwarding")
    \/ moving = "listeners" /\ ListenersNext /\ Only("listeners")

Spec == Init /\ [][Next]_<<moving, edVars, frVars, bkVars, acVars, lgVars, abVars, smVars, obVars,
                            fwVars, lnVars>>

(* Two accounts, one of which is the destination of the rules. *)
Boxes == {<<"b">>, <<"a", "a">>}
ForwardedTo == {<<"b">>}

(* The variables of the part that moves keep their types. *)
OperationsTypeOK ==
    /\ moving \in Moving
    /\ CASE moving = "edits" -> EditsTypeOK [] moving = "first run" -> FirstRunTypeOK
         [] moving = "backup" -> BackupTypeOK [] moving = "acme" -> AcmeTypeOK [] moving = "logs" -> LogTypeOK
         [] moving = "abuse" -> AbuseTypeOK [] moving = "smtp" -> SmtpTypeOK [] moving = "outbound" -> OutboundTypeOK
         [] moving = "forwarding" -> ForwardingTypeOK [] OTHER -> ListenersTypeOK
=============================================================================
