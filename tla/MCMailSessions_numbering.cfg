\* Two IMAP sessions on Inbox and a folder that comes and goes.
SPECIFICATION Spec
CONSTANTS
    inbox = inbox
    sent = sent
    drafts = drafts
    trash = trash
    a = a
    b = b
    i1 = i1
    i2 = i2
    s1 = s1
    s2 = s2
    p1 = p1
    p2 = p2
    w1 = w1
    Imap = {s1, s2}
    Pop = {}
    Web = {}
    Ids = {i1, i2}
    MaxUid = 3
    Sizes = {1}
    Atoms = {inbox, a}
    System <- InboxAlone
    Inbox <- InboxName
    Junk <- InboxName
    Trash <- InboxName
    Sent <- InboxName
    Drafts <- InboxName
    MaxDepth = 1
    MaxFolders = 2
    ClientNames <- OneFolder
    Quotas = {9}
    MaxMessages = 9
    IndexBatch = 1
    MaxTimeouts = 0
INVARIANTS
    NumberingAgrees
SYMMETRY Symmetric
CHECK_DEADLOCK FALSE
