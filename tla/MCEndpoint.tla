----------------------------- MODULE MCEndpoint -----------------------------
(* A launcher with the account service, the mail store that calls it and the  *)
(* administration service, whose port of the account service is changed.      *)
EXTENDS Supervisor

MCServices == <<"auth", "storage", "admin">>
MCKeys == {"ports/auth"}
MCModules == {"postplus"}
MCBuild == <<[f \in MCModules |-> 1]>>
MCUsedBy == [f \in MCModules |-> {"auth", "storage", "admin"}]
MCHandEdit == 9
=============================================================================
