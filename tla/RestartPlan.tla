----------------------------- MODULE RestartPlan -----------------------------
(***************************************************************************)
(* Which services a changed configuration restarts (restart_plan), and     *)
(* which settings the services read.  A configuration is a function on     *)
(* setting names; 0 stands for a setting that is absent or empty.  The     *)
(* object "ports" counts as one setting per listener.                      *)
(***************************************************************************)
EXTENDS Naturals, Sequences

CONSTANTS
    Services,   \* the services of this instance, in the order of supervisor_services
    Keys,       \* the settings that differ between its configurations
    Values      \* their values; 0 means absent

supervisor_services ==
    <<"auth", "storage", "filter", "transfer", "delivery", "smtp", "pop3", "imap", "web", "admin">>

Group == {Services[i] : i \in DOMAIN Services}
Configs == [Keys -> Values]

ASSUME RestartPlanAssumption ==
    /\ \A i, j \in DOMAIN Services : i # j => Services[i] # Services[j]
    /\ Group \subseteq {supervisor_services[i] : i \in DOMAIN supervisor_services}
    /\ 0 \in Values /\ Values \subseteq Nat

Frontends == {"smtp", "pop3", "imap", "web", "admin"}
Portals == {"web", "admin"}

-----------------------------------------------------------------------------
(* restart_plan *)

(* A service's listener moved: the service and those that call it. *)
endpoint(service) ==
    {service} \cup CASE service \in {"auth", "storage"} -> Frontends \cup {"delivery"}
                     [] service = "filter" -> {"delivery", "web"}
                     [] service = "transfer" -> {"delivery"}
                     [] OTHER -> {}

PortOwner ==
    [key \in {"ports/auth", "ports/storage", "ports/filter", "ports/transfer", "ports/smtp",
              "ports/pop3", "ports/imap", "ports/web", "ports/admin", "ports/submission",
              "ports/smtps", "ports/pop3s", "ports/imaps"} |->
        CASE key = "ports/auth" -> "auth"
          [] key = "ports/storage" -> "storage"
          [] key = "ports/filter" -> "filter"
          [] key = "ports/transfer" -> "transfer"
          [] key \in {"ports/smtp", "ports/submission", "ports/smtps"} -> "smtp"
          [] key \in {"ports/pop3", "ports/pop3s"} -> "pop3"
          [] key \in {"ports/imap", "ports/imaps"} -> "imap"
          [] key = "ports/web" -> "web"
          [] OTHER -> "admin"]

(* The services one changed setting restarts; an unknown one restarts all. *)
Consumers(key) ==
    CASE key \in DOMAIN PortOwner -> endpoint(PortOwner[key])
      [] key = "bind" -> Frontends \ {"admin"}
      [] key = "admin_bind" -> {"admin"}
      [] key \in {"tls_certificate", "tls_private_key", "allow_insecure_auth", "domain_tls"} -> Frontends
      [] key \in {"web_root", "web_session_seconds", "max_web_sessions", "admin_hostname",
                  "webmail_hostnames", "webmail_shared_hostname"} -> Portals
      [] key \in {"auth_pbkdf2_iterations", "max_password_bytes"} -> {"auth"}
      [] key = "max_auth_attempts" -> {"smtp", "pop3", "imap"}
      [] key \in {"max_recipients", "smtp_data_timeout_seconds"} -> {"smtp"}
      [] key \in {"max_mailbox_bytes", "max_mailbox_messages", "max_queue_bytes",
                  "max_queue_messages"} -> {"storage"}
      [] key \in {"delivery_lock_port", "delivery_max_age_seconds"} -> {"delivery"}
      [] key \in {"clamav_host", "spam_threshold", "blocked_terms", "rspamd_enabled"} -> {"filter"}
      [] key = "outbound_mode" -> {"transfer", "delivery", "smtp", "web"}
      [] key \in {"direct_timeout_seconds", "smarthost_timeout_seconds"} -> {"transfer", "delivery"}
      [] key = "mail_hostname" -> {"transfer"} \cup Portals
      [] key \in {"dkim_selector", "dkim_private_key", "direct_tls", "smarthost_host"} -> {"transfer"}
      [] key \in {"domain_registry", "setup_complete", "setup_required"} -> {}
      [] OTHER -> Group

Has(config, key) == key \in Keys /\ config[key] # 0

(* The mode that old configurations leave to the presence of a smarthost. *)
outbound_mode(config) ==
    IF Has(config, "outbound_mode") THEN <<"set", config["outbound_mode"]>>
    ELSE <<"derived", IF Has(config, "smarthost_host") THEN 1 ELSE 0>>

ChangedKeys(old, new) == {key \in Keys : old[key] # new[key]}

Affected(old, new) ==
    Group \cap
        (UNION {Consumers(key) : key \in ChangedKeys(old, new)}
         \cup IF outbound_mode(old) # outbound_mode(new) THEN Consumers("outbound_mode") ELSE {})

Modes == {"changed", "all"} \cup Group

(* One service alone restarts only when nothing else waits to be applied. *)
PlanAllowed(old, new, mode) == mode \in Group => Affected(old, new) = {}

restart_plan(old, new, mode) ==
    CASE mode = "all" -> Group
      [] mode = "changed" -> Affected(old, new)
      [] OTHER -> {mode}

-----------------------------------------------------------------------------
(* What the services read *)

(* The administration portal serves neither sending nor drafts. *)
Calls(service) ==
    CASE service = "storage" -> {"auth"}
      [] service = "delivery" -> {"storage", "filter", "transfer"}
      [] service \in {"smtp", "pop3", "imap", "admin"} -> {"auth", "storage"}
      [] service = "web" -> {"auth", "storage", "filter"}
      [] OTHER -> {}

AuthReads == {"auth_pbkdf2_iterations", "max_password_bytes"}
StorageReads == {"max_mailbox_bytes", "max_mailbox_messages", "max_queue_bytes", "max_queue_messages"}
FilterReads == {"clamav_host", "spam_threshold", "blocked_terms", "rspamd_enabled"}
SmtpReads == {"allow_insecure_auth", "tls_certificate", "tls_private_key", "max_auth_attempts",
              "max_recipients", "mail_hostname"}
PortalReads == {"allow_insecure_auth", "web_session_seconds", "max_web_sessions", "web_root",
                "admin_hostname", "webmail_shared_hostname", "mail_hostname"}

Own(service) ==
    CASE service = "auth" -> AuthReads
      [] service = "storage" -> StorageReads
      [] service = "filter" -> FilterReads
      [] service = "smtp" -> SmtpReads
      [] service \in Portals -> PortalReads
      [] OTHER -> {}

(* The settings a service depends on: its own, every service's, and the ports
   of the services it calls and of itself.                                   *)
Reads(service) ==
    Own(service) \cup {"log_level", "timeout_seconds", "max_message_bytes"}
    \cup {key \in DOMAIN PortOwner : PortOwner[key] \in {service} \cup Calls(service)}
=============================================================================
