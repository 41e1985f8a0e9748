\* An IMAP session, two POP3 sessions and the web destroy mail in Inbox, which is also Trash and Drafts.
SPECIFICATION Spec
CONSTANTS
    inbox = inbox
    sent = sent
    drafts = drafts
    trash = trash
    a = a
    b = b
    i1 = i1
    i2 = i2
    s1 = s1
    s2 = s2
    p1 = p1
    p2 = p2
    w1 = w1
    Imap = {s1}
    Pop = {p1, p2}
    Web = {w1}
    Ids = {i1}
    MaxUid = 3
    Sizes = {1, 2}
    Atoms = {inbox}
    System <- InboxAlone
    Inbox <- InboxName
    Junk <- InboxName
    Trash <- InboxName
    Sent <- InboxName
    Drafts <- InboxName
    MaxDepth = 1
    MaxFolders = 2
    ClientNames = {}
    Quotas = {9}
    MaxMessages = 9
    IndexBatch = 1
    MaxTimeouts = 1
INVARIANTS
    MaildropHasOneOwner
    DestroysWhatWasShown
PROPERTIES
    MailboxSpec
SYMMETRY Symmetric
CHECK_DEADLOCK FALSE
