--------------------------- MODULE MCMailSessions ---------------------------
(* Instances of MailSessions for TLC. *)
EXTENDS MailSessions, TLC

CONSTANTS inbox, sent, drafts, trash, a, b, i1, i2, s1, s2, p1, p2, w1

InboxName == <<inbox>>
SentName == <<sent>>
DraftsName == <<drafts>>
TrashName == <<trash>>
SystemNames == {InboxName, SentName, DraftsName, TrashName}

(* Fewer system folders: what the others do, these do. *)
InboxAlone == {InboxName}
InboxAndTrash == {InboxName, TrashName}
OneFolder == {<<a>>}
ClientFolders == {<<a>>, <<b>>}

ClientAtoms == {a, b}
Symmetric ==
    Permutations(Ids) \cup Permutations(Imap) \cup Permutations(Pop) \cup Permutations(ClientAtoms)
=============================================================================
