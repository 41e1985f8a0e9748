---------------------------- MODULE MCSupervisor ----------------------------
(* A launcher with two services and three modules.  Release 2 changes one   *)
(* module, release 3 the launcher as well; its launcher may be impossible to *)
(* execute.                                                                 *)
EXTENDS Supervisor, TLC

CONSTANTS ann, bob
MCAdmins == {ann, bob}
Alike == Permutations(MCAdmins)

MCServices == <<"auth", "admin">>
MCKeys == {"max_password_bytes"}
MCModules == {"postplus", "postplus-auth", "postplus-admin"}
Content(postplus, auth, admin) ==
    [f \in MCModules |-> CASE f = "postplus" -> postplus [] f = "postplus-auth" -> auth [] OTHER -> admin]
MCBuild == <<Content(1, 1, 1), Content(1, 1, 2), Content(3, 3, 2)>>
MCUsedBy == [f \in MCModules |-> CASE f = "postplus" -> {} [] f = "postplus-auth" -> {"auth"}
                                  [] OTHER -> {"admin"}]
MCHandEdit == 9

(* How a restart job ended is only reported: no step and no property reads it. *)
Seen == <<updateVars, config, applied, IF RestartAbandoned THEN restart ELSE <<>>, update, reservation,
          host, sup, self, active, running, conf, previous, mailbox, download, handlers>>
=============================================================================
