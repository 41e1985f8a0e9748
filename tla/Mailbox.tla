------------------------------ MODULE Mailbox -------------------------------
(***************************************************************************)
(* One user's mailbox in the storage service: the folder catalog, the      *)
(* messages with their UIDs, the rows derived from them, and the quota.    *)
(* Every operation is one transaction under storage's mutex; a refused     *)
(* operation changes nothing and is no step here.                          *)
(*                                                                         *)
(* Callers name messages by id, and guard with the UID and the folder they *)
(* saw.  Next lets them ask for anything; MailSessions restricts them to   *)
(* what protocol sessions ask.                                             *)
(***************************************************************************)
EXTENDS Integers, Sequences, FiniteSets, SequencesExt

CONSTANTS
    Ids,            \* message identifiers; bound: messages ever inserted
    MaxUid,         \* first UID that is never given out (0xffffffff in the code)
    Sizes,          \* message contents, told apart by their size
    Atoms,          \* parts of folder names
    System,         \* the system folders
    Sent, Drafts,   \* those of them that operations single out
    MaxDepth,       \* parts of a folder name (16 in the code)
    MaxFolders,     \* rows of the catalog (1000 in the code)
    ClientNames,    \* bound: names clients give to folders
    Quotas,         \* bound: byte quotas an administrator sets
    MaxMessages,    \* quota on the number of messages
    IndexBatch      \* messages indexed by one search (100 in the code)

Names == UNION {[1..n -> Atoms] : n \in 1..MaxDepth}

ASSUME MailboxAssumption ==
    /\ IsFiniteSet(Ids)
    /\ MaxUid \in Nat \ {0}
    /\ Sizes \subseteq Nat \ {0}
    /\ MaxDepth \in Nat \ {0} /\ MaxFolders \in Nat /\ MaxMessages \in Nat
    /\ IndexBatch \in Nat \ {0}
    /\ Quotas \subseteq Nat /\ Quotas # {}
    /\ {Sent, Drafts} \subseteq System
    /\ System \subseteq Names /\ \A n \in System : Len(n) = 1
    /\ ClientNames \subseteq Names

VARIABLES
    uidnext,        \* mailboxes.uidnext
    quota,          \* mailboxes.quota_bytes
    folders,        \* mailbox_folders: the row of each name in the catalog
    messages,       \* messages joined with message_flags
    search,         \* message_search: what was indexed, under which UID
    pop3,           \* message_pop3: the octets of which content, under which UID
    used,           \* history: identifiers given out
    meaning,        \* history: the content that first had each UID
    claims          \* history: how often each UID was handed out as recent

mailboxVars == <<uidnext, quota, folders, messages, search, pop3, used, meaning, claims>>

Uids == 1..(MaxUid - 1)
Message == [id : Ids, uid : Uids, folder : Names, size : Sizes, deleted : BOOLEAN]
Derived == [id : Ids, uid : Uids, size : Sizes]
FolderRow == [subscribed : BOOLEAN, selectable : BOOLEAN, recent : 0..MaxUid]

MailboxTypeOK ==
    /\ uidnext \in 1..MaxUid
    /\ quota \in Quotas
    /\ DOMAIN folders \subseteq Names /\ folders \in [DOMAIN folders -> FolderRow]
    /\ messages \subseteq Message
    /\ search \subseteq Derived /\ pop3 \subseteq Derived
    /\ used \subseteq Ids
    /\ meaning \in [Uids -> Sizes \cup {0}]
    /\ claims \in [Uids -> Nat]

MailboxInit ==
    /\ uidnext = 1
    /\ quota \in Quotas
    /\ folders = [n \in System |-> [subscribed |-> TRUE, selectable |-> TRUE, recent |-> 0]]
    /\ messages = {} /\ search = {} /\ pop3 = {} /\ used = {}
    /\ meaning = [u \in Uids |-> 0]
    /\ claims = [u \in Uids |-> 0]

-----------------------------------------------------------------------------
(* UIDs, quota and derived rows *)

(* allocate_uid, n times in one transaction. *)
Allocate(n) == uidnext + n <= MaxUid /\ uidnext' = uidnext + n

(* The UIDs a batch receives; message_ids is ordered by random identifiers. *)
FreshUids(ids) ==
    {f \in [ids -> uidnext..(uidnext + Cardinality(ids) - 1)] :
        \A i, j \in ids : f[i] = f[j] => i = j}

(* The rows are the first to have their UIDs. *)
Give(rows) ==
    meaning' = [u \in Uids |->
        IF meaning[u] = 0 /\ \E m \in rows : m.uid = u
        THEN (CHOOSE m \in rows : m.uid = u).size
        ELSE meaning[u]]

Bytes(rows) == FoldSet(LAMBDA m, sum : m.size + sum, 0, rows)

(* Mutant: asks whether the usage is within the quota before the bytes are added. *)
FitsAlready(bytes, count) ==
    /\ bytes <= 0 \/ Bytes(messages) <= quota
    /\ count <= 0 \/ Cardinality(messages) + count <= MaxMessages

FitsQuota(bytes, count) ==
    /\ bytes <= 0 \/ Bytes(messages) + bytes <= quota
    /\ count <= 0 \/ Cardinality(messages) + count <= MaxMessages

(* Mutant: the rows of a rewritten message stay. *)
IndexNewOnly(rows, index) ==
    index \cup {r \in rows : \A s \in index : s.id # r.id}

(* save_search and save_pop3_size replace the row of a message. *)
Reindexed(rows, index) ==
    {r \in index : \A s \in rows : s.id # r.id} \cup rows

Row(m) == [id |-> m.id, uid |-> m.uid, size |-> m.size]
Index(rows) ==
    /\ search' = Reindexed({Row(m) : m \in rows}, search)
    /\ pop3' = Reindexed({Row(m) : m \in rows}, pop3)

(* ON DELETE CASCADE *)
Cascade(gone) ==
    /\ search' = {r \in search : \A m \in gone : m.id # r.id}
    /\ pop3' = {r \in pop3 : \A m \in gone : m.id # r.id}

Selectable(n) == n \in System \/ (n \in DOMAIN folders /\ folders[n].selectable)
In(ids) == {m \in messages : m.id \in ids}

-----------------------------------------------------------------------------
(* Messages *)

(* deliver, append and the Sent copy of enqueue. *)
Insert(id, f, size, deleted) ==
    LET m == [id |-> id, uid |-> uidnext, folder |-> f, size |-> size, deleted |-> deleted] IN
    /\ id \notin used /\ Selectable(f)
    /\ FitsQuota(size, 1)
    /\ Allocate(1)
    /\ messages' = messages \cup {m}
    /\ Index({m})
    /\ used' = used \cup {id}
    /\ Give({m})
    /\ UNCHANGED <<quota, folders, claims>>

(* Mutant: a draft keeps the UID its last version had. *)
KeepUid(m) == m.uid

RewriteUid(m) == uidnext

(* draft_save of an existing draft, and enqueue of a draft as Sent copy: a new
   UID for the new content.  A UID the caller names must be the current one.  *)
Rewrite(id, uid, f, size) ==
    \E old \in In({id}) :
        LET m == [old EXCEPT !.uid = RewriteUid(old), !.size = size, !.folder = f] IN
        /\ old.folder = Drafts
        /\ uid # 0 => uid = old.uid
        /\ FitsQuota(size - old.size, 0)
        /\ Allocate(1)
        /\ messages' = (messages \ {old}) \cup {m}
        /\ Index({m})
        /\ Give({m})
        /\ UNCHANGED <<quota, folders, used, claims>>

(* The messages copy is asked for, if each is still where and what it was. *)
Sources(ids, expected, source) ==
    {m \in In(ids) : m.folder = source /\ (expected[m.id] # 0 => m.uid = expected[m.id])}

CopyGuard(ids, expected, source, target) ==
    /\ Selectable(source) /\ Selectable(target)
    /\ \A i \in ids : \E m \in Sources(ids, expected, source) : m.id = i

AllFit(ids) == FitsQuota(Bytes(In(ids)), Cardinality(ids))

(* copy: new messages with the same content; all of them or none. *)
Copy(ids, expected, source, target) ==
    /\ CopyGuard(ids, expected, source, target)
    /\ AllFit(ids)
    /\ Allocate(Cardinality(ids))
    /\ \E uids \in FreshUids(ids), new \in [ids -> Ids \ used] :
        LET copies == {[m EXCEPT !.id = new[m.id], !.uid = uids[m.id], !.folder = target] : m \in In(ids)} IN
        /\ \A i, j \in ids : new[i] = new[j] => i = j
        /\ messages' = messages \cup copies
        /\ Index(copies)
        /\ used' = used \cup {new[i] : i \in ids}
        /\ Give(copies)
    /\ UNCHANGED <<quota, folders, claims>>

(* Messages change folder and receive fresh UIDs; the derived rows keep the old. *)
Relocate(ids, target) ==
    /\ Allocate(Cardinality(ids))
    /\ \E uids \in FreshUids(ids) :
        LET moved == {[m EXCEPT !.uid = uids[m.id], !.folder = target] : m \in In(ids)} IN
        /\ messages' = (messages \ In(ids)) \cup moved
        /\ Give(moved)
    /\ UNCHANGED <<quota, folders, search, pop3, used, claims>>

(* copy with move: also within a folder, and whatever the quota. *)
MoveAll(ids, expected, source, target) ==
    CopyGuard(ids, expected, source, target) /\ Relocate(ids, target)

(* move, and delete without permanent: those that exist elsewhere. *)
MoveSome(ids, target) ==
    /\ Selectable(target)
    /\ Relocate({m.id : m \in {n \in In(ids) : n.folder # target}}, target)

(* Mutant: the UID a session saw is not compared. *)
AnyVersion(m, expected, f, flagged) ==
    /\ m.id \in DOMAIN expected
    /\ f # <<>> => m.folder = f
    /\ flagged => m.deleted

(* Mutant: the Deleted flag is not asked for again. *)
EvenIfUnflagged(m, expected, f, flagged) ==
    /\ m.id \in DOMAIN expected
    /\ expected[m.id] # 0 => m.uid = expected[m.id]
    /\ f # <<>> => m.folder = f

(* What a permanent delete removes of the messages it names. *)
MayRemove(m, expected, f, flagged) ==
    /\ m.id \in DOMAIN expected
    /\ expected[m.id] # 0 => m.uid = expected[m.id]
    /\ f # <<>> => m.folder = f
    /\ flagged => m.deleted

Doomed(expected, f, flagged) == {m \in messages : MayRemove(m, expected, f, flagged)}

RemovePermanently(expected, f, flagged) ==
    LET gone == Doomed(expected, f, flagged) IN
    /\ f # <<>> => Selectable(f)
    /\ messages' = messages \ gone
    /\ Cascade(gone)
    /\ UNCHANGED <<uidnext, quota, folders, used, meaning, claims>>

SetDeleted(id, uid, f, value) ==
    /\ f # <<>> => Selectable(f)
    /\ \E m \in In({id}) :
        /\ uid # 0 => m.uid = uid
        /\ f # <<>> => m.folder = f
        /\ messages' = (messages \ {m}) \cup {[m EXCEPT !.deleted = value]}
    /\ UNCHANGED <<uidnext, quota, folders, search, pop3, used, meaning, claims>>

-----------------------------------------------------------------------------
(* Reading *)

RecentIn(f) == {m \in messages : m.folder = f /\ m.uid > folders[f].recent}

(* Mutant: the claim moves to the highest UID that was listed. *)
ClaimedToListed(f) ==
    LET listed == {m.uid : m \in {n \in messages : n.folder = f /\ n.deleted}} IN
    IF listed = {} THEN folders[f].recent ELSE CHOOSE u \in listed : \A v \in listed : v <= u

ClaimedTo(f) == uidnext - 1

(* list with claim_recent: this caller alone is told that they are recent. *)
ListClaiming(f) ==
    /\ Selectable(f)
    /\ claims' = [u \in Uids |-> claims[u] + Cardinality({m \in RecentIn(f) : m.uid = u})]
    /\ folders' = [folders EXCEPT ![f].recent = IF @ < uidnext - 1 THEN ClaimedTo(f) ELSE @]
    /\ UNCHANGED <<uidnext, quota, messages, search, pop3, used, meaning>>

Stale(m, index) == \A r \in index : r.id = m.id => r.uid # m.uid \/ r.size # m.size

(* list with include_pop3_size first completes the sizes of the folder. *)
ListSizes(f) ==
    /\ Selectable(f)
    /\ pop3' = Reindexed({Row(m) : m \in {n \in messages : n.folder = f /\ Stale(n, pop3)}}, pop3)
    /\ UNCHANGED <<uidnext, quota, folders, messages, search, used, meaning, claims>>

NotIndexed == {m \in messages : \A r \in search : r.id = m.id => r.uid # m.uid}

(* search indexes a batch of what is missing before it answers. *)
SearchMail ==
    /\ \E batch \in SUBSET NotIndexed :
        /\ batch # {} /\ Cardinality(batch) <= IndexBatch
        /\ Index(batch)
    /\ UNCHANGED <<uidnext, quota, folders, messages, used, meaning, claims>>

SetQuota(bytes) ==
    /\ quota' = bytes
    /\ UNCHANGED <<uidnext, folders, messages, search, pop3, used, meaning, claims>>

-----------------------------------------------------------------------------
(* Folders *)

Below(n, m) == IsStrictPrefix(n, m)
Parents(n) == {SubSeq(n, 1, k) : k \in 1..(Len(n) - 1)}

Container == [subscribed |-> FALSE, selectable |-> FALSE, recent |-> 0]
Ordinary == [subscribed |-> TRUE, selectable |-> TRUE, recent |-> 0]

(* folder_parents: INSERT OR IGNORE *)
WithParents(rows, n) ==
    [p \in DOMAIN rows \cup Parents(n) |-> IF p \in DOMAIN rows THEN rows[p] ELSE Container]

(* Mutant: only the row itself is looked at. *)
PrunedFlat(rows) ==
    [n \in {p \in DOMAIN rows : rows[p].selectable \/ rows[p].subscribed} |-> rows[n]]

(* prune_folder_parents, repeated until nothing changes: a row stays that is
   selectable or subscribed, or above one that is.                           *)
Pruned(rows) ==
    [n \in {p \in DOMAIN rows : \E m \in DOMAIN rows :
                (m = p \/ Below(p, m)) /\ (rows[m].selectable \/ rows[m].subscribed)}
        |-> rows[n]]

CreateFolder(n) ==
    /\ n \in ClientNames
    /\ ~(n \in DOMAIN folders /\ folders[n].selectable)
    /\ LET rows == WithParents(folders, n) IN
        folders' = [p \in DOMAIN rows \cup {n} |->
            IF p # n THEN rows[p]
            ELSE IF n \in DOMAIN rows
                 THEN [rows[n] EXCEPT !.selectable = TRUE, !.subscribed = TRUE]
                 ELSE Ordinary]
    /\ Cardinality(DOMAIN folders') <= MaxFolders
    /\ UNCHANGED <<uidnext, quota, messages, search, pop3, used, meaning, claims>>

(* A folder with folders below it stays as a container. *)
DeleteFolder(n) ==
    LET gone == {m \in messages : m.folder = n}
        others == DOMAIN folders \ {n}
    IN
    /\ n \in DOMAIN folders \ System /\ folders[n].selectable
    /\ messages' = messages \ gone
    /\ Cascade(gone)
    /\ folders' = Pruned(IF \E m \in others : Below(n, m)
                         THEN [folders EXCEPT ![n].selectable = FALSE, ![n].subscribed = FALSE]
                         ELSE [m \in others |-> folders[m]])
    /\ UNCHANGED <<uidnext, quota, used, meaning, claims>>

Subtree(n) == {m \in DOMAIN folders : m = n \/ Below(n, m)}
Renamed(n, target, m) == target \o SubSeq(m, Len(n) + 1, Len(m))

(* Mutant: only the messages of the folder itself follow its new name. *)
NewFolder(n, target, f) == IF f = n THEN target ELSE f

FolderAfter(n, target, f) == IF f \in Subtree(n) THEN Renamed(n, target, f) ELSE f

RenameFolder(n, target) ==
    LET tree == Subtree(n)
        outside == DOMAIN folders \ tree
        landed == {Renamed(n, target, m) : m \in tree}
        rows == [p \in outside \cup landed |->
                    IF p \in outside THEN folders[p]
                    ELSE folders[CHOOSE m \in tree : Renamed(n, target, m) = p]]
    IN
    /\ target \in ClientNames
    /\ n \notin System /\ target \notin System
    /\ n # target /\ ~Below(n, target)
    /\ n \in DOMAIN folders
    /\ landed \subseteq Names
    /\ landed \cap outside = {}
    /\ messages' = {[m EXCEPT !.folder = FolderAfter(n, target, @)] : m \in messages}
    /\ folders' = Pruned(WithParents(rows, target))
    /\ Cardinality(DOMAIN folders') <= MaxFolders
    /\ UNCHANGED <<uidnext, quota, search, pop3, used, meaning, claims>>

Subscribe(n, value) ==
    /\ n \in DOMAIN folders
    /\ folders' = [folders EXCEPT ![n].subscribed = value]
    /\ UNCHANGED <<uidnext, quota, messages, search, pop3, used, meaning, claims>>

-----------------------------------------------------------------------------
(* Callers that name any message and any folder.  A guard that does not match
   leaves the message out, or refuses the call: the callers here use none, and
   leave out what they like.                                                  *)

Unguarded(ids) == [i \in ids |-> 0]
Batches == (SUBSET Ids) \ {{}}

MessageStep ==
    \E i \in Ids :
        \/ \E f \in DOMAIN folders, s \in Sizes, d \in BOOLEAN : Insert(i, f, s, d)
        \/ \E f \in {Drafts, Sent}, s \in Sizes : Rewrite(i, 0, f, s)
        \/ \E d \in BOOLEAN : SetDeleted(i, 0, <<>>, d)

BatchStep ==
    \E ids \in Batches :
        \/ \E f, t \in DOMAIN folders :
              Copy(ids, Unguarded(ids), f, t) \/ MoveAll(ids, Unguarded(ids), f, t)
        \/ \E t \in DOMAIN folders : MoveSome(ids, t)
        \/ RemovePermanently(Unguarded(ids), <<>>, FALSE)

ReadStep ==
    \/ \E f \in DOMAIN folders : ListClaiming(f) \/ ListSizes(f)
    \/ SearchMail

FolderStep ==
    \/ \E n \in ClientNames : CreateFolder(n)
    \/ \E n \in DOMAIN folders : DeleteFolder(n)
    \/ \E n \in DOMAIN folders, t \in ClientNames : RenameFolder(n, t)
    \/ \E n \in DOMAIN folders, v \in BOOLEAN : Subscribe(n, v)

MailboxNext ==
    \/ MessageStep \/ BatchStep \/ ReadStep \/ FolderStep
    \/ \E q \in Quotas : SetQuota(q)

MailboxSpec == MailboxInit /\ [][MailboxNext]_mailboxVars

-----------------------------------------------------------------------------
(* Properties *)

(* A UID names one message and one content for ever: no batch, move, rewrite
   or send gives a UID to a second message or lets its content change.       *)
UidNamesOneContent ==
    /\ \A m, n \in messages : m.uid = n.uid => m = n
    /\ \A m \in messages : m.uid < uidnext /\ meaning[m.uid] = m.size

(* Derived rows tell the truth: search answers by id and does not compare UIDs,
   so its rows must be right even after a move gave the message another UID,
   and a POP3 size must be right after every rewrite of a draft.             *)
DerivedRowsTrue ==
    \A m \in messages, r \in search \cup pop3 : r.id = m.id => r.size = m.size

(* Every message lies in a folder that clients can open, and every folder hangs
   below existing ones, whatever is renamed, deleted or pruned.              *)
CatalogHoldsMail ==
    /\ System \subseteq DOMAIN folders
    /\ \A m \in messages : Selectable(m.folder)
    /\ \A n \in DOMAIN folders : Parents(n) \subseteq DOMAIN folders

(* A message is handed out as recent once, to one session. *)
RecentOnce == \A u \in Uids : claims[u] <= 1

(* Usage only grows within the quota, although quotas are lowered below it and
   batches are checked before their first message is stored.                 *)
GrowsWithinQuota ==
    [][/\ Bytes(messages') > Bytes(messages) => Bytes(messages') <= quota
       /\ Cardinality(messages') > Cardinality(messages) => Cardinality(messages') <= MaxMessages]_mailboxVars
=============================================================================
