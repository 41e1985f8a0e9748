----------------------------- MODULE MCMailbox ------------------------------
(* Instances of Mailbox for TLC. *)
EXTENDS Mailbox, TLC

CONSTANTS sent, drafts, a, b, i1, i2, i3, i4

SentName == <<sent>>
DraftsName == <<drafts>>
SystemNames == {SentName, DraftsName}
OneSystem == {SentName}

(* Two chains of folders that a rename can turn into one another. *)
TreeNames == {<<a>>, <<b, a>>}

AnyId == Permutations(Ids)
=============================================================================
