--------------------------- MODULE MailboxProofs ----------------------------
(***************************************************************************)
(* Proofs about Mailbox: a UID names one message and one content, what     *)
(* search and the POP3 sizes say is true, all mail lies in folders that    *)
(* exist and can be opened, each folder has its parents, and usage only    *)
(* grows within the quota.  Then about MailSessions: protocol sessions do  *)
(* nothing to a mailbox but operations of Mailbox, so all of that holds    *)
(* for IMAP, POP3 and web sessions, with their stale snapshots and late    *)
(* deletes, which destroy what their callers saw; a maildrop has one POP3  *)
(* session; and IMAP sequence numbers stand for what the session takes     *)
(* them for.                                                               *)
(***************************************************************************)
EXTENDS MailSessions, FiniteSetTheorems, SequenceTheorems, WellFoundedInduction, TLAPS

USE MailboxAssumption

-----------------------------------------------------------------------------
(* The inductive invariant.  Identifiers must be unique and remembered, and a
   UID not given out yet must have no meaning; the derived rows agree with
   their message whatever UID they were made under.                          *)

RowsTyped ==
    /\ uidnext \in 1..MaxUid
    /\ messages \subseteq Message
    /\ used \subseteq Ids
    /\ meaning \in [Uids -> Sizes \cup {0}]

OneMessage == \A m, n \in messages : m.id = n.id \/ m.uid = n.uid => m = n

FreshIsUnused ==
    /\ \A m \in messages : m.id \in used /\ m.uid < uidnext /\ meaning[m.uid] = m.size
    /\ \A u \in Uids : u >= uidnext => meaning[u] = 0

UidInv == RowsTyped /\ OneMessage /\ FreshIsUnused /\ DerivedRowsTrue

-----------------------------------------------------------------------------
(* Lemmas about the helpers. *)

(* A batch is finite, so it takes a natural number of UIDs. *)
LEMMA BatchSize ==
    ASSUME NEW ids \in SUBSET Ids
    PROVE  IsFiniteSet(ids) /\ Cardinality(ids) \in Nat
BY FS_Subset, FS_CardinalityType DEF MailboxAssumption

(* The UIDs of a batch are new, different, and below the next one. *)
LEMMA BatchUids ==
    ASSUME RowsTyped, NEW ids \in SUBSET Ids, Allocate(Cardinality(ids)), NEW f \in FreshUids(ids)
    PROVE  /\ uidnext' \in 1..MaxUid /\ uidnext <= uidnext'
           /\ f \in [ids -> Uids]
           /\ \A i \in ids : f[i] >= uidnext /\ f[i] < uidnext'
           /\ \A i, j \in ids : f[i] = f[j] => i = j
<1>1. Cardinality(ids) \in Nat BY BatchSize
<1>2. uidnext \in 1..MaxUid /\ uidnext' = uidnext + Cardinality(ids) /\ uidnext' <= MaxUid
    BY DEF Allocate, RowsTyped
<1> QED BY <1>1, <1>2 DEF FreshUids, Uids, MailboxAssumption

(* One UID is taken by a single insertion or rewriting. *)
LEMMA OneUid ==
    ASSUME RowsTyped, Allocate(1)
    PROVE  uidnext' = uidnext + 1 /\ uidnext' \in 1..MaxUid /\ uidnext \in Uids
BY DEF Allocate, RowsTyped, Uids, MailboxAssumption

(* A new row replaces whatever was derived from the message before. *)
LEMMA ReindexedRows ==
    ASSUME NEW rows, NEW index, NEW r \in Reindexed({Row(m) : m \in rows}, index)
    PROVE  \/ \E m \in rows : r = Row(m)
           \/ r \in index /\ \A m \in rows : m.id # r.id
<1> DEFINE R == {Row(m) : m \in rows}
<1>1. r \in R \/ (r \in index /\ \A s \in R : s.id # r.id) BY DEF Reindexed
<1>2. \A m \in rows : Row(m) \in R /\ Row(m).id = m.id BY DEF Row
<1> QED BY <1>1, <1>2

(* Rows stay true when each message keeps identifier and size or is indexed. *)
LEMMA IndexKeepsTrue ==
    ASSUME DerivedRowsTrue, NEW rows, Index(rows),
           \A m \in rows, n \in messages' : m.id = n.id => m.size = n.size,
           \A n \in messages' : n \in rows \/ \E m \in messages : m.id = n.id /\ m.size = n.size
    PROVE  DerivedRowsTrue'
<1> SUFFICES ASSUME NEW n \in messages', NEW r \in search' \cup pop3', r.id = n.id
             PROVE  r.size = n.size
    BY DEF DerivedRowsTrue
<1>1. r \in Reindexed({Row(m) : m \in rows}, search) \/ r \in Reindexed({Row(m) : m \in rows}, pop3)
    BY DEF Index
<1>2. CASE \E m \in rows : r = Row(m) BY <1>2 DEF Row
<1>3. CASE r \in search \cup pop3 /\ \A m \in rows : m.id # r.id
    BY <1>3 DEF DerivedRowsTrue
<1> QED BY <1>1, <1>2, <1>3, ReindexedRows

-----------------------------------------------------------------------------
(* The operations keep the invariant. *)

(* The history of meanings after rows received fresh UIDs. *)
LEMMA GiveMeans ==
    ASSUME UidInv, NEW rows \in SUBSET Message, Give(rows),
           \A n \in rows : uidnext <= n.uid,
           \A k, n \in rows : k.uid = n.uid => k = n
    PROVE  /\ meaning' \in [Uids -> Sizes \cup {0}]
           /\ \A n \in rows : meaning'[n.uid] = n.size
           /\ \A u \in Uids : (\A n \in rows : n.uid # u) => meaning'[u] = meaning[u]
<1> DEFINE Row1(u) == CHOOSE m \in rows : m.uid = u
<1>1. \A n \in Message : n.size \in Sizes /\ n.uid \in Uids BY DEF Message
<1>2. \A u : (\E m \in rows : m.uid = u) => Row1(u) \in rows /\ Row1(u).uid = u BY Zenon
<1>3. \A n \in rows : Row1(n.uid) = n BY <1>2
<1>4. \A n \in rows : meaning[n.uid] = 0 BY <1>1 DEF UidInv, FreshIsUnused
<1>5. meaning \in [Uids -> Sizes \cup {0}] BY DEF UidInv, RowsTyped
<1>6. meaning' = [u \in Uids |-> IF meaning[u] = 0 /\ \E m \in rows : m.uid = u
                                 THEN Row1(u).size ELSE meaning[u]]
    BY DEF Give
<1> HIDE DEF Row1
<1> QED BY <1>1, <1>2, <1>3, <1>4, <1>5, <1>6

(* Whatever replaces messages by rows with fresh UIDs keeps it: insertion,
   rewriting, copying and moving are the cases.                             *)
LEMMA FreshRowsKeep ==
    ASSUME UidInv, NEW old \in SUBSET messages, NEW new \in SUBSET Message,
           messages' = (messages \ old) \cup new,
           uidnext' \in 1..MaxUid, uidnext <= uidnext',
           \A n \in new : uidnext <= n.uid /\ n.uid < uidnext',
           \A m, n \in new : m.id = n.id \/ m.uid = n.uid => m = n,
           \A n \in new : n.id \notin used \/ \E m \in old : m.id = n.id,
           used' \in SUBSET Ids, used \subseteq used', \A n \in new : n.id \in used',
           Give(new)
    PROVE  RowsTyped' /\ OneMessage' /\ FreshIsUnused'
<1>0. /\ meaning' \in [Uids -> Sizes \cup {0}]
      /\ \A n \in new : meaning'[n.uid] = n.size
      /\ \A u \in Uids : u < uidnext \/ u >= uidnext' => meaning'[u] = meaning[u]
    BY GiveMeans DEF UidInv, RowsTyped, Message, Uids
<1>1. RowsTyped' BY <1>0 DEF UidInv, RowsTyped
<1>2. OneMessage'
    <2>1. SUFFICES ASSUME NEW m \in messages', NEW n \in messages', m.id = n.id \/ m.uid = n.uid
                   PROVE  m = n
        BY DEF OneMessage
    <2>2. CASE m \in new /\ n \in new BY <2>1, <2>2
    <2>3. CASE m \in messages \ old /\ n \in messages \ old
        BY <2>1, <2>3 DEF UidInv, OneMessage
    <2>4. \A x \in messages \ old, y \in new : x.id # y.id /\ x.uid # y.uid
        <3>1. SUFFICES ASSUME NEW x \in messages \ old, NEW y \in new
                       PROVE  x.id # y.id /\ x.uid # y.uid
            OBVIOUS
        <3>2. x.uid < uidnext /\ x.id \in used BY DEF UidInv, FreshIsUnused
        <3>3. x.uid \in Nat /\ y.uid \in Nat /\ uidnext \in Nat
            BY DEF UidInv, RowsTyped, Message, Uids
        <3>4. x.uid # y.uid BY <3>2, <3>3
        <3>5. x.id # y.id BY <3>2 DEF UidInv, OneMessage
        <3> QED BY <3>4, <3>5
    <2> QED BY <2>1, <2>2, <2>3, <2>4
<1>3. FreshIsUnused'
    <2>1. \A m \in messages \ old : m.id \in used' /\ m.uid < uidnext' /\ meaning'[m.uid] = m.size
        BY <1>0 DEF UidInv, FreshIsUnused, RowsTyped, Message, Uids
    <2>2. \A m \in new : m.id \in used' /\ m.uid < uidnext' /\ meaning'[m.uid] = m.size
        BY <1>0
    <2>3. \A u \in Uids : u >= uidnext' => meaning'[u] = 0
        BY <1>0 DEF UidInv, FreshIsUnused, RowsTyped, Uids
    <2> QED BY <2>1, <2>2, <2>3 DEF FreshIsUnused
<1> QED BY <1>1, <1>2, <1>3

(* deliver, append, a new draft or Sent copy. *)
LEMMA InsertKeeps ==
    ASSUME UidInv, NEW id \in Ids, NEW f \in Names, NEW size \in Sizes, NEW deleted \in BOOLEAN,
           Insert(id, f, size, deleted)
    PROVE  UidInv'
<1> DEFINE m == [id |-> id, uid |-> uidnext, folder |-> f, size |-> size, deleted |-> deleted]
           none == {}
           one == {m}
<1>1. uidnext' = uidnext + 1 /\ uidnext' \in 1..MaxUid /\ uidnext \in Uids
    BY OneUid DEF Insert, UidInv
<1>2. /\ messages' = (messages \ none) \cup one /\ used' = used \cup {id} /\ id \notin used
      /\ Give(one) /\ Index(one)
    BY DEF Insert
<1>3. m \in Message /\ m.id = id /\ m.uid = uidnext /\ m.size = size BY <1>1 DEF Message
<1>4. none \in SUBSET messages /\ one \in SUBSET Message BY <1>3
<1>5. \A k, n \in one : k = n OBVIOUS
<1>6. \A n \in one : n.id = id /\ n.uid = uidnext BY <1>3
<1> HIDE DEF m, none, one
<1>7. RowsTyped' /\ OneMessage' /\ FreshIsUnused'
    <2>1. uidnext <= uidnext' /\ \A n \in one : uidnext <= n.uid /\ n.uid < uidnext'
        BY <1>1, <1>6 DEF Uids
    <2>2. used' \in SUBSET Ids /\ used \subseteq used' /\ \A n \in one : n.id \in used' /\ n.id \notin used
        BY <1>2, <1>6 DEF UidInv, RowsTyped
    <2> QED BY <1>1, <1>2, <1>4, <1>5, <2>1, <2>2, FreshRowsKeep
<1>8. DerivedRowsTrue'
    <2>1. \A k \in one, n \in messages' : k.id = n.id => k.size = n.size
        BY <1>2, <1>5, <1>6 DEF UidInv, FreshIsUnused
    <2>2. \A n \in messages' : n \in one \/ \E k \in messages : k.id = n.id /\ k.size = n.size BY <1>2
    <2> QED BY <1>2, <2>1, <2>2, IndexKeepsTrue DEF UidInv
<1> QED BY <1>7, <1>8 DEF UidInv

(* A draft receives new content under a new UID, perhaps as Sent copy. *)
LEMMA RewriteKeeps ==
    ASSUME UidInv, NEW id \in Ids, NEW uid, NEW f \in Names, NEW size \in Sizes,
           Rewrite(id, uid, f, size)
    PROVE  UidInv'
<1> DEFINE Version(m) == [m EXCEPT !.uid = RewriteUid(m), !.size = size, !.folder = f]
<1>1. PICK old \in In({id}) :
          /\ messages' = (messages \ {old}) \cup {Version(old)}
          /\ Allocate(1) /\ Index({Version(old)})
          /\ Give({Version(old)}) /\ UNCHANGED used
    BY DEF Rewrite
<1>2. uidnext' = uidnext + 1 /\ uidnext' \in 1..MaxUid /\ uidnext \in Uids
    BY <1>1, OneUid DEF UidInv
<1>3. old \in messages /\ old.id = id BY DEF In
<1>4. old \in Message BY <1>3 DEF UidInv, RowsTyped
<1> DEFINE drop == {old}
           one == {Version(old)}
<1>5. Version(old) \in Message /\ Version(old).id = id /\ Version(old).uid = uidnext
    BY <1>2, <1>3, <1>4 DEF Message, RewriteUid
<1>6. messages' = (messages \ drop) \cup one /\ Index(one) /\ Give(one) /\ used' = used
    BY <1>1
<1>7. drop \in SUBSET messages /\ one \in SUBSET Message /\ \A k, n \in one : k = n
    BY <1>3, <1>5
<1>8. \A n \in one : n.id = id /\ n.uid = uidnext /\ \E m \in drop : m.id = n.id BY <1>3, <1>5
<1>9. \A m \in messages \ drop : m.id # id BY <1>3 DEF UidInv, OneMessage
<1> HIDE DEF drop, one
<1>10. RowsTyped' /\ OneMessage' /\ FreshIsUnused'
    <2>1. uidnext <= uidnext' /\ \A n \in one : uidnext <= n.uid /\ n.uid < uidnext'
        BY <1>2, <1>8 DEF Uids
    <2>2. used' \in SUBSET Ids /\ used \subseteq used' /\ \A n \in one : n.id \in used'
        BY <1>3, <1>6, <1>8 DEF UidInv, RowsTyped, FreshIsUnused
    <2> QED BY <1>2, <1>6, <1>7, <1>8, <2>1, <2>2, FreshRowsKeep
<1>11. DerivedRowsTrue'
    <2>1. \A k \in one, n \in messages' : k.id = n.id => k.size = n.size
        BY <1>6, <1>7, <1>8, <1>9
    <2>2. \A n \in messages' : n \in one \/ \E k \in messages : k.id = n.id /\ k.size = n.size BY <1>6
    <2> QED BY <1>6, <2>1, <2>2, IndexKeepsTrue DEF UidInv
<1> QED BY <1>10, <1>11 DEF UidInv

(* Messages that receive the UIDs of a batch: what copying and moving share.
   origin is the message that a row was made from.                          *)
LEMMA BatchKeeps ==
    ASSUME UidInv, NEW ids \in SUBSET Ids, Allocate(Cardinality(ids)), NEW uids \in FreshUids(ids),
           NEW new \in SUBSET Message, NEW drop \in SUBSET messages,
           messages' = (messages \ drop) \cup new, Give(new),
           NEW origin \in [new -> In(ids)],
           \A n \in new : n.uid = uids[origin[n].id],
           \A k, n \in new : k.id = n.id \/ origin[k] = origin[n] => k = n,
           \A n \in new : n.id \notin used \/ \E m \in drop : m.id = n.id,
           used' \in SUBSET Ids, used \subseteq used', \A n \in new : n.id \in used'
    PROVE  RowsTyped' /\ OneMessage' /\ FreshIsUnused'
<1>1. /\ uidnext' \in 1..MaxUid /\ uidnext <= uidnext'
      /\ \A i \in ids : uids[i] >= uidnext /\ uids[i] < uidnext'
      /\ \A i, j \in ids : uids[i] = uids[j] => i = j
    BY BatchUids DEF UidInv
<1>2. \A n \in new : origin[n] \in messages /\ origin[n].id \in ids BY DEF In
<1>3. \A k, n \in new : k.id = n.id \/ k.uid = n.uid => k = n
    BY <1>1, <1>2 DEF UidInv, OneMessage
<1>4. \A n \in new : uidnext <= n.uid /\ n.uid < uidnext' BY <1>1, <1>2
<1> QED BY <1>1, <1>3, <1>4, FreshRowsKeep, ZenonT(60)

(* copy: other messages with the same content. *)
LEMMA CopyKeeps ==
    ASSUME UidInv, NEW ids \in SUBSET Ids, NEW expected, NEW source, NEW target \in Names,
           Copy(ids, expected, source, target)
    PROVE  UidInv'
<1>1. Allocate(Cardinality(ids)) BY DEF Copy
<1>2. PICK uids \in FreshUids(ids), new \in [ids -> Ids \ used] :
          LET copies == {[m EXCEPT !.id = new[m.id], !.uid = uids[m.id], !.folder = target] : m \in In(ids)} IN
          /\ \A i, j \in ids : new[i] = new[j] => i = j
          /\ messages' = messages \cup copies
          /\ Index(copies)
          /\ used' = used \cup {new[i] : i \in ids}
          /\ Give(copies)
    BY DEF Copy
<1> DEFINE Twin(m) == [m EXCEPT !.id = new[m.id], !.uid = uids[m.id], !.folder = target]
           copies == {Twin(m) : m \in In(ids)}
           origin == [n \in copies |-> CHOOSE m \in In(ids) : n = Twin(m)]
           none == {}
<1>3. /\ uids \in [ids -> Uids]
      /\ \A i \in ids : uids[i] >= uidnext
    BY <1>1, BatchUids DEF UidInv
<1>4. In(ids) \subseteq messages /\ \A m \in In(ids) : m \in Message /\ m.id \in ids
    BY DEF In, UidInv, RowsTyped
<1>5. \A m \in In(ids) : /\ Twin(m) \in Message
                          /\ Twin(m).id = new[m.id] /\ Twin(m).uid = uids[m.id] /\ Twin(m).size = m.size
    <2>1. new \in [ids -> Ids] BY <1>2
    <2>2. SUFFICES ASSUME NEW m \in Message, m.id \in ids
                   PROVE  Twin(m) \in Message /\ Twin(m).id = new[m.id]
                          /\ Twin(m).uid = uids[m.id] /\ Twin(m).size = m.size
        BY <1>4
    <2>3. new[m.id] \in Ids /\ uids[m.id] \in Uids BY <1>3, <2>1, <2>2
    <2> QED BY <2>2, <2>3 DEF Message
<1> HIDE DEF Twin
<1>6. /\ \A n \in copies : origin[n] \in In(ids) /\ n = Twin(origin[n])
      /\ origin \in [copies -> In(ids)]
    <2>1. \A n \in copies : \E m \in In(ids) : n = Twin(m) OBVIOUS
    <2> QED BY <2>1, Zenon
<1>7. origin \in [copies -> In(ids)] BY <1>6
<1>8. /\ messages' = (messages \ none) \cup copies /\ Index(copies) /\ Give(copies)
      /\ used' = used \cup {new[i] : i \in ids}
    BY <1>2 DEF Twin
<1>20. new \in [ids -> Ids \ used] /\ \A i, j \in ids : new[i] = new[j] => i = j BY <1>2
<1> HIDE DEF Twin, copies, origin, none
<1>9. copies \in SUBSET Message /\ \A n \in copies : n.uid = uids[origin[n].id] /\ n.size = origin[n].size
    BY <1>5, <1>6
<1>10. \A n \in copies : n.id \notin used /\ n.id \in used' /\ n.id = new[origin[n].id]
    BY <1>4, <1>5, <1>6, <1>8, <1>20
<1>11. \A k, n \in copies : k.id = n.id \/ origin[k] = origin[n] => k = n
    <2>1. SUFFICES ASSUME NEW k \in copies, NEW n \in copies, k.id = n.id PROVE origin[k] = origin[n]
        BY <1>6
    <2>2. origin[k].id = origin[n].id BY <1>4, <1>6, <1>10, <1>20, <2>1
    <2> QED BY <1>4, <1>6, <2>2 DEF UidInv, OneMessage
<1>12. used' \in SUBSET Ids /\ used \subseteq used' BY <1>8, <1>20 DEF UidInv, RowsTyped
<1>13. RowsTyped' /\ OneMessage' /\ FreshIsUnused'
    <2>1. none \in SUBSET messages BY DEF none
    <2>2. \A n \in copies : n.uid = uids[origin[n].id] BY <1>9
    <2>3. \A n \in copies : n.id \notin used \/ \E m \in none : m.id = n.id BY <1>10
    <2>4. \A n \in copies : n.id \in used' BY <1>10
    <2>5. messages' = (messages \ none) \cup copies /\ Give(copies) BY <1>8
    <2>6. copies \in SUBSET Message BY <1>9
    <2>7. uids \in FreshUids(ids) OBVIOUS
    <2> QED BY <1>1, <1>7, <1>11, <1>12, <2>1, <2>2, <2>3, <2>4, <2>5, <2>6, <2>7, BatchKeeps
<1>14. DerivedRowsTrue'
    <2>1. \A k \in copies, n \in messages' : k.id = n.id => k.size = n.size
        BY <1>8, <1>10, <1>11 DEF UidInv, FreshIsUnused
    <2>2. \A n \in messages' : n \in copies \/ \E k \in messages : k.id = n.id /\ k.size = n.size BY <1>8
    <2> QED BY <1>8, <2>1, <2>2, IndexKeepsTrue DEF UidInv
<1> QED BY <1>13, <1>14 DEF UidInv

(* A move: the same messages elsewhere, under other UIDs. *)
LEMMA RelocateKeeps ==
    ASSUME UidInv, NEW ids \in SUBSET Ids, NEW target \in Names, Relocate(ids, target)
    PROVE  UidInv'
<1>1. Allocate(Cardinality(ids)) /\ UNCHANGED <<search, pop3, used>> BY DEF Relocate
<1>2. PICK uids \in FreshUids(ids) :
          LET moved == {[m EXCEPT !.uid = uids[m.id], !.folder = target] : m \in In(ids)} IN
          messages' = (messages \ In(ids)) \cup moved /\ Give(moved)
    BY DEF Relocate
<1> DEFINE There(m) == [m EXCEPT !.uid = uids[m.id], !.folder = target]
           moved == {There(m) : m \in In(ids)}
           origin == [n \in moved |-> CHOOSE m \in In(ids) : n = There(m)]
<1>3. uids \in [ids -> Uids] BY <1>1, BatchUids DEF UidInv
<1>4. In(ids) \in SUBSET messages /\ \A m \in In(ids) : m \in Message /\ m.id \in ids
    BY DEF In, UidInv, RowsTyped
<1>5. \A m \in In(ids) : /\ There(m) \in Message
                          /\ There(m).id = m.id /\ There(m).uid = uids[m.id] /\ There(m).size = m.size
    BY <1>3, <1>4 DEF Message
<1>6. \A n \in moved : origin[n] \in In(ids) /\ n = There(origin[n]) OBVIOUS
<1>7. origin \in [moved -> In(ids)] BY <1>6
<1>8. messages' = (messages \ In(ids)) \cup moved /\ Give(moved) BY <1>2
<1> HIDE DEF There, moved, origin
<1>9. /\ moved \in SUBSET Message
      /\ \A n \in moved : n.uid = uids[origin[n].id] /\ n.size = origin[n].size /\ n.id = origin[n].id
    BY <1>5, <1>6
<1>10. \A k, n \in moved : k.id = n.id \/ origin[k] = origin[n] => k = n
    BY <1>4, <1>6, <1>9 DEF UidInv, OneMessage
<1>11. RowsTyped' /\ OneMessage' /\ FreshIsUnused'
    <2>1. used' \in SUBSET Ids /\ used \subseteq used' BY <1>1 DEF UidInv, RowsTyped
    <2>2. \A n \in moved : n.uid = uids[origin[n].id] BY <1>9
    <2>3. \A n \in moved : n.id \notin used \/ \E m \in In(ids) : m.id = n.id BY <1>6, <1>9
    <2>4. \A n \in moved : n.id \in used' BY <1>1, <1>4, <1>6, <1>9 DEF UidInv, FreshIsUnused
    <2> QED BY <1>1, <1>4, <1>7, <1>8, <1>9, <1>10, <2>1, <2>2, <2>3, <2>4, BatchKeeps
<1>12. DerivedRowsTrue'
    <2>1. \A n \in messages' : \E k \in messages : k.id = n.id /\ k.size = n.size
        BY <1>4, <1>6, <1>8, <1>9
    <2> QED BY <1>1, <2>1 DEF UidInv, DerivedRowsTrue
<1> QED BY <1>11, <1>12 DEF UidInv

(* Rows that keep identifier, UID and size, some of which may go. *)
LEMMA KeptRowsKeep ==
    ASSUME UidInv, UNCHANGED <<uidnext, used, meaning>>, messages' \subseteq Message,
           NEW origin \in [messages' -> messages],
           \A n \in messages' : n.id = origin[n].id /\ n.uid = origin[n].uid /\ n.size = origin[n].size,
           \A k, n \in messages' : origin[k] = origin[n] => k = n
    PROVE  RowsTyped' /\ OneMessage' /\ FreshIsUnused'
<1>1. RowsTyped' BY DEF UidInv, RowsTyped
<1>2. OneMessage' BY DEF UidInv, OneMessage
<1>3. FreshIsUnused' BY DEF UidInv, FreshIsUnused
<1> QED BY <1>1, <1>2, <1>3

(* Deletions, of messages or of a folder with its messages. *)
LEMMA RemoveKeeps ==
    ASSUME UidInv, NEW gone, messages' = messages \ gone, Cascade(gone), UNCHANGED <<uidnext, used, meaning>>
    PROVE  UidInv'
<1>1. RowsTyped' BY DEF UidInv, RowsTyped
<1>2. OneMessage' BY DEF UidInv, OneMessage
<1>3. FreshIsUnused' BY DEF UidInv, FreshIsUnused
<1>4. DerivedRowsTrue' BY DEF UidInv, DerivedRowsTrue, Cascade
<1> QED BY <1>1, <1>2, <1>3, <1>4 DEF UidInv

(* A flag or a folder name is replaced. *)
LEMMA RelabelKeeps ==
    ASSUME UidInv, UNCHANGED <<uidnext, used, meaning, search, pop3>>, messages' \subseteq Message,
           NEW origin \in [messages' -> messages],
           \A n \in messages' : n.id = origin[n].id /\ n.uid = origin[n].uid /\ n.size = origin[n].size,
           \A k, n \in messages' : origin[k] = origin[n] => k = n
    PROVE  UidInv'
<1>1. RowsTyped' /\ OneMessage' /\ FreshIsUnused' BY KeptRowsKeep
<1>2. DerivedRowsTrue' BY DEF UidInv, DerivedRowsTrue
<1> QED BY <1>1, <1>2 DEF UidInv

(* The flags operation. *)
LEMMA SetDeletedKeeps ==
    ASSUME UidInv, NEW id \in Ids, NEW uid, NEW f, NEW value \in BOOLEAN, SetDeleted(id, uid, f, value)
    PROVE  UidInv'
<1>1. PICK m \in In({id}) : messages' = (messages \ {m}) \cup {[m EXCEPT !.deleted = value]}
    BY DEF SetDeleted
<1> DEFINE n == [m EXCEPT !.deleted = value]
           origin == [k \in messages' |-> IF k = n THEN m ELSE k]
<1>2. m \in messages /\ m \in Message BY DEF In, UidInv, RowsTyped
<1>3. n \in Message /\ n.id = m.id /\ n.uid = m.uid /\ n.size = m.size BY <1>2 DEF Message
<1>4. messages' = (messages \ {m}) \cup {n} BY <1>1
<1> HIDE DEF n
<1>5. n \in messages => n = m BY <1>2, <1>3 DEF UidInv, OneMessage
<1>6. origin \in [messages' -> messages] BY <1>2, <1>4
<1>7. \A k \in messages' : k.id = origin[k].id /\ k.uid = origin[k].uid /\ k.size = origin[k].size
    BY <1>3
<1>8. \A k, l \in messages' : origin[k] = origin[l] => k = l BY <1>4, <1>5
<1>9. messages' \subseteq Message BY <1>3, <1>4 DEF UidInv, RowsTyped
<1>10. UNCHANGED <<uidnext, used, meaning, search, pop3>> BY DEF SetDeleted
<1> HIDE DEF origin
<1> QED BY <1>6, <1>7, <1>8, <1>9, <1>10, RelabelKeeps

(* A renamed folder takes its messages along. *)
LEMMA RenameKeeps ==
    ASSUME UidInv, NEW n, NEW target, RenameFolder(n, target)
    PROVE  UidInv'
<1> DEFINE There(m) == [m EXCEPT !.folder = FolderAfter(n, target, m.folder)]
           origin == [k \in messages' |-> CHOOSE m \in messages : k = There(m)]
<1>1. messages' = {There(m) : m \in messages} BY DEF RenameFolder
<1>2. \A f \in Subtree(n) : Renamed(n, target, f) \in Names BY DEF RenameFolder
<1>3. \A m \in messages : m \in Message BY DEF UidInv, RowsTyped
<1>4. \A m \in messages : FolderAfter(n, target, m.folder) \in Names
    BY <1>2, <1>3 DEF FolderAfter, Message
<1>5. \A m \in messages : /\ There(m) \in Message /\ There(m).id = m.id
                          /\ There(m).uid = m.uid /\ There(m).size = m.size
    BY <1>3, <1>4 DEF Message
<1>6. \A k \in messages' : origin[k] \in messages /\ k = There(origin[k]) BY <1>1
<1>7. messages' \subseteq Message BY <1>1, <1>5
<1>8. origin \in [messages' -> messages] BY <1>6
<1>9. UNCHANGED <<uidnext, used, meaning, search, pop3>> BY DEF RenameFolder
<1> HIDE DEF There, origin
<1>10. \A k \in messages' : k.id = origin[k].id /\ k.uid = origin[k].uid /\ k.size = origin[k].size
    BY <1>5, <1>6
<1>11. \A k, l \in messages' : origin[k] = origin[l] => k = l BY <1>6
<1> QED BY <1>7, <1>8, <1>9, <1>10, <1>11, RelabelKeeps

(* search and the POP3 listing complete the derived rows. *)
LEMMA ReadKeeps ==
    ASSUME UidInv, NEW rows \in SUBSET messages,
           search' = search \/ search' = Reindexed({Row(m) : m \in rows}, search),
           pop3' = pop3 \/ pop3' = Reindexed({Row(m) : m \in rows}, pop3),
           UNCHANGED <<messages, uidnext, used, meaning>>
    PROVE  UidInv'
<1>1. RowsTyped' /\ OneMessage' /\ FreshIsUnused' BY DEF UidInv, RowsTyped, OneMessage, FreshIsUnused
<1>2. DerivedRowsTrue'
    <2> SUFFICES ASSUME NEW n \in messages, NEW r \in search' \cup pop3', r.id = n.id
                 PROVE  r.size = n.size
        BY DEF DerivedRowsTrue
    <2>1. \/ r \in search \cup pop3
          \/ r \in Reindexed({Row(m) : m \in rows}, search)
          \/ r \in Reindexed({Row(m) : m \in rows}, pop3)
        OBVIOUS
    <2>2. r \in search \cup pop3 \/ \E m \in rows : r = Row(m) BY <2>1, ReindexedRows
    <2>3. CASE r \in search \cup pop3 BY <2>3 DEF UidInv, DerivedRowsTrue
    <2>4. CASE \E m \in rows : r = Row(m) BY <2>4 DEF Row, UidInv, OneMessage
    <2> QED BY <2>2, <2>3, <2>4
<1> QED BY <1>1, <1>2 DEF UidInv

-----------------------------------------------------------------------------
(* Every step. *)

(* The contents a folder catalog can have. *)
Catalogs == UNION {[D -> FolderRow] : D \in SUBSET Names}

(* Names of folders that messages go to are names. *)
LEMMA SystemNames == System \subseteq Names /\ Sent \in Names /\ Drafts \in Names
BY DEF MailboxAssumption

LEMMA NextKeepsUidInv ==
    ASSUME UidInv, folders \in Catalogs, MailboxNext
    PROVE  UidInv'
<1>1. CASE MessageStep
    <2>1. PICK i \in Ids :
              \/ \E f \in DOMAIN folders, s \in Sizes, d \in BOOLEAN : Insert(i, f, s, d)
              \/ \E f \in {Drafts, Sent}, s \in Sizes : Rewrite(i, 0, f, s)
              \/ \E d \in BOOLEAN : SetDeleted(i, 0, <<>>, d)
        BY <1>1 DEF MessageStep
    <2>2. CASE \E f \in DOMAIN folders, s \in Sizes, d \in BOOLEAN : Insert(i, f, s, d)
        BY <2>2, InsertKeeps DEF Catalogs
    <2>3. CASE \E f \in {Drafts, Sent}, s \in Sizes : Rewrite(i, 0, f, s)
        BY <2>3, RewriteKeeps, SystemNames
    <2>4. CASE \E d \in BOOLEAN : SetDeleted(i, 0, <<>>, d)
        BY <2>4, SetDeletedKeeps
    <2> QED BY <2>1, <2>2, <2>3, <2>4
<1>2. CASE BatchStep
    <2>1. PICK ids \in Batches :
              \/ \E f, t \in DOMAIN folders :
                    Copy(ids, Unguarded(ids), f, t) \/ MoveAll(ids, Unguarded(ids), f, t)
              \/ \E t \in DOMAIN folders : MoveSome(ids, t)
              \/ RemovePermanently(Unguarded(ids), <<>>, FALSE)
        BY <1>2 DEF BatchStep
    <2>2. ids \in SUBSET Ids BY DEF Batches
    <2>3. CASE \E f, t \in DOMAIN folders : Copy(ids, Unguarded(ids), f, t)
        BY <2>2, <2>3, CopyKeeps DEF Catalogs
    <2>4. CASE \E f, t \in DOMAIN folders : MoveAll(ids, Unguarded(ids), f, t)
        BY <2>2, <2>4, RelocateKeeps DEF Catalogs, MoveAll
    <2>5. CASE \E t \in DOMAIN folders : MoveSome(ids, t)
        <3>1. PICK t \in DOMAIN folders : MoveSome(ids, t) BY <2>5
        <3> DEFINE some == {m.id : m \in {k \in In(ids) : k.folder # t}}
        <3>2. some \in SUBSET Ids BY DEF In, UidInv, RowsTyped, Message
        <3>3. t \in Names BY DEF Catalogs
        <3>4. Relocate(some, t) BY <3>1 DEF MoveSome
        <3> QED BY <3>2, <3>3, <3>4, RelocateKeeps
    <2>6. CASE RemovePermanently(Unguarded(ids), <<>>, FALSE)
        BY <2>6, RemoveKeeps DEF RemovePermanently
    <2> QED BY <2>1, <2>3, <2>4, <2>5, <2>6
<1>3. CASE ReadStep
    <2>1. CASE \E f \in DOMAIN folders : ListClaiming(f)
        BY <2>1, {} \in SUBSET messages, ReadKeeps DEF ListClaiming
    <2>2. CASE \E f \in DOMAIN folders : ListSizes(f)
        <3>1. PICK f \in DOMAIN folders : ListSizes(f) BY <2>2
        <3> DEFINE rows == {n \in messages : n.folder = f /\ Stale(n, pop3)}
        <3>2. /\ pop3' = Reindexed({Row(m) : m \in rows}, pop3) /\ search' = search
              /\ UNCHANGED <<messages, uidnext, used, meaning>>
            BY <3>1 DEF ListSizes
        <3>3. rows \in SUBSET messages OBVIOUS
        <3> HIDE DEF rows
        <3> QED BY <3>2, <3>3, ReadKeeps
    <2>3. CASE SearchMail
        <3>1. PICK batch \in SUBSET NotIndexed : Index(batch) BY <2>3 DEF SearchMail
        <3>2. batch \in SUBSET messages BY DEF NotIndexed
        <3>3. UNCHANGED <<messages, uidnext, used, meaning>> BY <2>3 DEF SearchMail
        <3> QED BY <3>1, <3>2, <3>3, ReadKeeps DEF Index
    <2> QED BY <1>3, <2>1, <2>2, <2>3 DEF ReadStep
<1>4. CASE FolderStep
    <2>1. CASE \E n \in ClientNames : CreateFolder(n)
        BY <2>1, {} \in SUBSET messages, ReadKeeps DEF CreateFolder
    <2>2. CASE \E n \in DOMAIN folders : DeleteFolder(n)
        <3>1. PICK n \in DOMAIN folders : DeleteFolder(n) BY <2>2
        <3> DEFINE gone == {m \in messages : m.folder = n}
        <3>2. messages' = messages \ gone /\ Cascade(gone) /\ UNCHANGED <<uidnext, used, meaning>>
            BY <3>1 DEF DeleteFolder
        <3> HIDE DEF gone
        <3> QED BY <3>2, RemoveKeeps
    <2>3. CASE \E n \in DOMAIN folders, t \in ClientNames : RenameFolder(n, t)
        BY <2>3, RenameKeeps
    <2>4. CASE \E n \in DOMAIN folders, v \in BOOLEAN : Subscribe(n, v)
        BY <2>4, {} \in SUBSET messages, ReadKeeps DEF Subscribe
    <2> QED BY <1>4, <2>1, <2>2, <2>3, <2>4 DEF FolderStep
<1>5. CASE \E q \in Quotas : SetQuota(q)
    BY <1>5, {} \in SUBSET messages, ReadKeeps DEF SetQuota
<1> QED BY <1>1, <1>2, <1>3, <1>4, <1>5 DEF MailboxNext

-----------------------------------------------------------------------------
(* Types. *)

(* A name is a sequence of at most MaxDepth parts. *)
LEMMA NamesAreSequences ==
    \A n : n \in Names <=> n \in Seq(Atoms) /\ Len(n) \in 1..MaxDepth
<1>1. MaxDepth \in Nat BY DEF MailboxAssumption
<1>2. ASSUME NEW n \in Names PROVE n \in Seq(Atoms) /\ Len(n) \in 1..MaxDepth
    <2>1. PICK d \in 1..MaxDepth : n \in [1..d -> Atoms] BY DEF Names
    <2> QED BY <1>1, <2>1
<1>3. ASSUME NEW n \in Seq(Atoms), Len(n) \in 1..MaxDepth PROVE n \in Names
    <2>1. n \in [1..Len(n) -> Atoms] OBVIOUS
    <2> DEFINE F == {[1..k -> Atoms] : k \in 1..MaxDepth}
    <2>2. [1..Len(n) -> Atoms] \in F BY <1>3
    <2> HIDE DEF F
    <2>3. n \in UNION F BY <2>1, <2>2
    <2> QED BY <2>3 DEF Names, F
<1> QED BY <1>2, <1>3

(* The parts of a name are names. *)
LEMMA ParentsAreNames ==
    ASSUME NEW n \in Names
    PROVE  Parents(n) \subseteq Names
<1>1. n \in Seq(Atoms) /\ Len(n) \in 1..MaxDepth /\ MaxDepth \in Nat
    BY NamesAreSequences DEF MailboxAssumption
<1>2. ASSUME NEW k \in 1..(Len(n) - 1) PROVE SubSeq(n, 1, k) \in Names
    <2>1. k \in Int /\ 1 \in Int /\ \A i \in 1..k : n[i] \in Atoms BY <1>1
    <2>2. SubSeq(n, 1, k) \in Seq(Atoms) /\ Len(SubSeq(n, 1, k)) = k
        BY <2>1, SubSeqProperties
    <2>3. k \in 1..MaxDepth BY <1>1
    <2> QED BY <2>2, <2>3, NamesAreSequences
<1> QED BY <1>2 DEF Parents

(* Parents come into a catalog as containers. *)
LEMMA WithParentsType ==
    ASSUME NEW rows \in Catalogs, NEW n \in Names
    PROVE  WithParents(rows, n) \in Catalogs
<1>1. DOMAIN rows \in SUBSET Names /\ \A p \in DOMAIN rows : rows[p] \in FolderRow BY DEF Catalogs
<1>2. Container \in FolderRow BY DEF Container, FolderRow, MailboxAssumption
<1>3. DOMAIN rows \cup Parents(n) \in SUBSET Names BY <1>1, ParentsAreNames
<1>4. WithParents(rows, n) \in [DOMAIN rows \cup Parents(n) -> FolderRow]
    BY <1>1, <1>2 DEF WithParents
<1> QED BY <1>3, <1>4 DEF Catalogs

(* Pruning leaves a catalog. *)
LEMMA PrunedType ==
    ASSUME NEW rows \in Catalogs
    PROVE  Pruned(rows) \in Catalogs
<1>1. DOMAIN rows \in SUBSET Names /\ \A p \in DOMAIN rows : rows[p] \in FolderRow BY DEF Catalogs
<1> DEFINE D == {p \in DOMAIN rows : \E m \in DOMAIN rows :
                    (m = p \/ Below(p, m)) /\ (rows[m].selectable \/ rows[m].subscribed)}
<1>2. Pruned(rows) = [n \in D |-> rows[n]] BY DEF Pruned
<1>3. D \in SUBSET DOMAIN rows OBVIOUS
<1> HIDE DEF D
<1>4. [n \in D |-> rows[n]] \in [D -> FolderRow] BY <1>1, <1>3
<1> QED BY <1>1, <1>2, <1>3, <1>4 DEF Catalogs

(* The steps that change the catalog leave a catalog. *)
LEMMA FoldersStayTyped ==
    ASSUME UidInv, folders \in Catalogs, MailboxNext
    PROVE  folders' \in Catalogs
<1>1. DOMAIN folders \in SUBSET Names /\ \A p \in DOMAIN folders : folders[p] \in FolderRow
    BY DEF Catalogs
<1>2. CASE UNCHANGED folders BY <1>2
<1>3. ASSUME NEW f \in DOMAIN folders, ListClaiming(f) PROVE folders' \in Catalogs
    <2>1. uidnext - 1 \in 0..MaxUid BY DEF UidInv, RowsTyped, MailboxAssumption
    <2>2. folders' \in [DOMAIN folders -> FolderRow]
        BY <1>1, <1>3, <2>1 DEF ListClaiming, ClaimedTo, FolderRow
    <2> QED BY <1>1, <2>2 DEF Catalogs
<1>4. ASSUME NEW n \in ClientNames, CreateFolder(n) PROVE folders' \in Catalogs
    <2> DEFINE rows == WithParents(folders, n)
               D == DOMAIN rows \cup {n}
    <2>1. n \in Names BY DEF MailboxAssumption
    <2>2. rows \in Catalogs BY <2>1, WithParentsType
    <2>3. DOMAIN rows \in SUBSET Names /\ \A p \in DOMAIN rows : rows[p] \in FolderRow
        BY <2>2 DEF Catalogs
    <2>4. Ordinary \in FolderRow BY DEF Ordinary, FolderRow, MailboxAssumption
    <2>5. folders' = [p \in D |->
            IF p # n THEN rows[p]
            ELSE IF n \in DOMAIN rows
                 THEN [rows[n] EXCEPT !.selectable = TRUE, !.subscribed = TRUE]
                 ELSE Ordinary]
        BY <1>4 DEF CreateFolder
    <2>6. \A r \in FolderRow : [r EXCEPT !.selectable = TRUE, !.subscribed = TRUE] \in FolderRow
        BY DEF FolderRow
    <2> HIDE DEF rows
    <2>7. folders' \in [D -> FolderRow] BY <2>3, <2>4, <2>5, <2>6
    <2>8. D \in SUBSET Names BY <2>1, <2>3
    <2> QED BY <2>7, <2>8 DEF Catalogs
<1>5. ASSUME NEW n \in DOMAIN folders, DeleteFolder(n) PROVE folders' \in Catalogs
    <2> DEFINE others == DOMAIN folders \ {n}
               kept == [folders EXCEPT ![n].selectable = FALSE, ![n].subscribed = FALSE]
               less == [m \in others |-> folders[m]]
    <2>1. kept \in [DOMAIN folders -> FolderRow] BY <1>1 DEF FolderRow
    <2>2. less \in [others -> FolderRow] BY <1>1
    <2>3. kept \in Catalogs /\ less \in Catalogs BY <1>1, <2>1, <2>2 DEF Catalogs
    <2>4. folders' = Pruned(kept) \/ folders' = Pruned(less) BY <1>5 DEF DeleteFolder
    <2> QED BY <2>3, <2>4, PrunedType
<1>6. ASSUME NEW n \in DOMAIN folders, NEW t \in ClientNames, RenameFolder(n, t) PROVE folders' \in Catalogs
    <2> DEFINE tree == Subtree(n)
               outside == DOMAIN folders \ tree
               landed == {Renamed(n, t, m) : m \in tree}
               from(p) == CHOOSE m \in tree : Renamed(n, t, m) = p
               rows == [p \in outside \cup landed |-> IF p \in outside THEN folders[p] ELSE folders[from(p)]]
    <2>1. landed \subseteq Names /\ folders' = Pruned(WithParents(rows, t)) BY <1>6 DEF RenameFolder
    <2>2. \A p \in landed : from(p) \in DOMAIN folders BY DEF Subtree
    <2>3. outside \cup landed \in SUBSET Names BY <1>1, <2>1
    <2> HIDE DEF from, tree, landed
    <2>4. rows \in [outside \cup landed -> FolderRow] BY <1>1, <2>2
    <2>5. rows \in Catalogs BY <2>3, <2>4 DEF Catalogs
    <2>6. t \in Names BY DEF MailboxAssumption
    <2> HIDE DEF rows
    <2> QED BY <2>1, <2>5, <2>6, WithParentsType, PrunedType
<1>7. ASSUME NEW n \in DOMAIN folders, NEW v \in BOOLEAN, Subscribe(n, v) PROVE folders' \in Catalogs
    <2>1. folders' \in [DOMAIN folders -> FolderRow] BY <1>1, <1>7 DEF Subscribe, FolderRow
    <2> QED BY <1>1, <2>1 DEF Catalogs
<1>8. CASE MessageStep \/ BatchStep \/ \E q \in Quotas : SetQuota(q)
    BY <1>2, <1>8 DEF MessageStep, BatchStep, SetQuota, Insert, Rewrite, SetDeleted, Copy, MoveAll,
        MoveSome, Relocate, RemovePermanently
<1>9. CASE ReadStep BY <1>2, <1>3, <1>9 DEF ReadStep, ListSizes, SearchMail
<1>10. CASE FolderStep BY <1>4, <1>5, <1>6, <1>7, <1>10 DEF FolderStep
<1> QED BY <1>8, <1>9, <1>10 DEF MailboxNext

(* Derived rows of typed messages are typed. *)
LEMMA ReindexedTyped ==
    ASSUME NEW rows \in SUBSET Message, NEW index \in SUBSET Derived
    PROVE  Reindexed({Row(m) : m \in rows}, index) \subseteq Derived
<1>1. \A m \in Message : Row(m) \in Derived BY DEF Row, Message, Derived
<1> QED BY <1>1, ReindexedRows

(* The rows derived from messages stay typed. *)
LEMMA DerivedStaysTyped ==
    ASSUME UidInv, UidInv', search \in SUBSET Derived, pop3 \in SUBSET Derived, MailboxNext
    PROVE  search' \in SUBSET Derived /\ pop3' \in SUBSET Derived
<1>1. messages \in SUBSET Message /\ messages' \in SUBSET Message BY DEF UidInv, RowsTyped
<1>2. ASSUME NEW rows \in SUBSET Message, Index(rows)
      PROVE  search' \in SUBSET Derived /\ pop3' \in SUBSET Derived
    BY <1>2, ReindexedTyped DEF Index
<1>3. ASSUME NEW gone, Cascade(gone) PROVE search' \in SUBSET Derived /\ pop3' \in SUBSET Derived
    BY <1>3 DEF Cascade
<1>4. CASE UNCHANGED <<search, pop3>> BY <1>4
<1>5. ASSUME NEW i, NEW f, NEW z, NEW d, Insert(i, f, z, d) PROVE \E rows \in SUBSET messages' : Index(rows)
    BY <1>5 DEF Insert
<1>6. ASSUME NEW i, NEW f, NEW z, Rewrite(i, 0, f, z) PROVE \E rows \in SUBSET messages' : Index(rows)
    BY <1>6 DEF Rewrite
<1>7. ASSUME NEW ids, NEW f, NEW t, Copy(ids, Unguarded(ids), f, t)
      PROVE  \E rows \in SUBSET messages' : Index(rows)
    BY <1>7 DEF Copy
<1>8. CASE MessageStep BY <1>1, <1>2, <1>4, <1>5, <1>6, <1>8 DEF MessageStep, SetDeleted
<1>9. CASE BatchStep
    BY <1>1, <1>2, <1>3, <1>4, <1>7, <1>9 DEF BatchStep, MoveAll, MoveSome, Relocate, RemovePermanently
<1>10. CASE ReadStep
    <2>1. CASE SearchMail BY <1>1, <1>2, <2>1 DEF SearchMail, NotIndexed
    <2>2. ASSUME NEW f, ListSizes(f) PROVE search' \in SUBSET Derived /\ pop3' \in SUBSET Derived
        <3> DEFINE rows == {n \in messages : n.folder = f /\ Stale(n, pop3)}
        <3>1. search' = search /\ pop3' = Reindexed({Row(m) : m \in rows}, pop3)
            BY <2>2 DEF ListSizes
        <3>2. rows \in SUBSET Message BY <1>1
        <3> HIDE DEF rows
        <3> QED BY <3>1, <3>2, ReindexedTyped
    <2> QED BY <1>4, <1>10, <2>1, <2>2 DEF ReadStep, ListClaiming
<1>11. CASE FolderStep
    BY <1>3, <1>4, <1>11 DEF FolderStep, CreateFolder, DeleteFolder, RenameFolder, Subscribe
<1>12. CASE \E q \in Quotas : SetQuota(q) BY <1>4, <1>12 DEF SetQuota
<1> QED BY <1>8, <1>9, <1>10, <1>11, <1>12 DEF MailboxNext

(* Claims are counted: a UID has at most one message, so the count is a number. *)
LEMMA ClaimsStayTyped ==
    ASSUME UidInv, claims \in [Uids -> Nat], MailboxNext
    PROVE  claims' \in [Uids -> Nat]
<1>1. ASSUME NEW f, NEW u PROVE Cardinality({m \in RecentIn(f) : m.uid = u}) \in Nat
    <2> DEFINE S == {m \in RecentIn(f) : m.uid = u}
    <2>1. \A m, n \in S : m = n BY DEF RecentIn, UidInv, OneMessage
    <2> HIDE DEF S
    <2>2. S = {} => Cardinality(S) = 0 BY FS_EmptySet
    <2>3. (\E m \in S : S = {m}) => Cardinality(S) = 1 BY FS_Singleton
    <2>4. S = {} \/ \E m \in S : S = {m} BY <2>1
    <2>5. Cardinality(S) \in Nat BY <2>2, <2>3, <2>4
    <2> QED BY <2>5 DEF S
<1>2. ASSUME NEW f, ListClaiming(f) PROVE claims' \in [Uids -> Nat]
    <2> DEFINE C(u) == Cardinality({m \in RecentIn(f) : m.uid = u})
    <2>1. claims' = [u \in Uids |-> claims[u] + C(u)] BY <1>2 DEF ListClaiming
    <2>2. \A u \in Uids : C(u) \in Nat BY <1>1
    <2> HIDE DEF C
    <2> QED BY <2>1, <2>2
<1>3. CASE UNCHANGED claims BY <1>3
<1>4. CASE MessageStep \/ BatchStep \/ \E q \in Quotas : SetQuota(q)
    BY <1>3, <1>4 DEF MessageStep, BatchStep, SetQuota, Insert, Rewrite, SetDeleted, Copy, MoveAll,
        MoveSome, Relocate, RemovePermanently
<1>5. CASE ReadStep BY <1>2, <1>3, <1>5 DEF ReadStep, ListSizes, SearchMail
<1>6. CASE FolderStep
    BY <1>3, <1>6 DEF FolderStep, CreateFolder, DeleteFolder, RenameFolder, Subscribe
<1> QED BY <1>4, <1>5, <1>6 DEF MailboxNext

(* All that is proved of a mailbox, in one inductive invariant. *)
MailboxInv ==
    /\ UidInv
    /\ folders \in Catalogs
    /\ quota \in Quotas
    /\ search \in SUBSET Derived /\ pop3 \in SUBSET Derived
    /\ claims \in [Uids -> Nat]

(* A mailbox starts empty. *)
LEMMA InitMailboxInv == MailboxInit => MailboxInv
<1> SUFFICES ASSUME MailboxInit PROVE MailboxInv OBVIOUS
<1>1. UidInv BY DEF MailboxInit, UidInv, RowsTyped, OneMessage, FreshIsUnused, DerivedRowsTrue, MailboxAssumption
<1>2. folders \in [System -> FolderRow] BY DEF MailboxInit, FolderRow, MailboxAssumption
<1>3. folders \in Catalogs BY <1>2, SystemNames DEF Catalogs
<1> QED BY <1>1, <1>3 DEF MailboxInv, MailboxInit

(* The invariant is inductive. *)
LEMMA NextMailboxInv == MailboxInv /\ [MailboxNext]_mailboxVars => MailboxInv'
<1> SUFFICES ASSUME MailboxInv, [MailboxNext]_mailboxVars PROVE MailboxInv' OBVIOUS
<1>1. CASE MailboxNext
    <2>1. UidInv' BY <1>1, NextKeepsUidInv DEF MailboxInv
    <2>2. folders' \in Catalogs BY <1>1, FoldersStayTyped DEF MailboxInv
    <2>3. search' \in SUBSET Derived /\ pop3' \in SUBSET Derived
        BY <1>1, <2>1, DerivedStaysTyped DEF MailboxInv
    <2>4. claims' \in [Uids -> Nat] BY <1>1, ClaimsStayTyped DEF MailboxInv
    <2>5. quota' \in Quotas
        BY <1>1 DEF MailboxInv, MailboxNext, MessageStep, BatchStep, ReadStep, FolderStep, SetQuota, Insert,
            Rewrite, SetDeleted, Copy, MoveAll, MoveSome, Relocate, RemovePermanently, ListClaiming,
            ListSizes, SearchMail, CreateFolder, DeleteFolder, RenameFolder, Subscribe
    <2> QED BY <2>1, <2>2, <2>3, <2>4, <2>5 DEF MailboxInv
<1>2. CASE UNCHANGED mailboxVars
    BY <1>2 DEF mailboxVars, MailboxInv, UidInv, RowsTyped, OneMessage, FreshIsUnused, DerivedRowsTrue
<1> QED BY <1>1, <1>2

-----------------------------------------------------------------------------
(* Theorems *)

(* Every run of the mailbox operations keeps the invariant. *)
THEOREM MailboxInvHolds == MailboxSpec => []MailboxInv
BY InitMailboxInv, NextMailboxInv, PTL DEF MailboxSpec

(* The state of a mailbox is always well formed. *)
THEOREM MailboxTypes == MailboxSpec => []MailboxTypeOK
<1>1. MailboxInv => MailboxTypeOK
    BY DEF MailboxInv, MailboxTypeOK, UidInv, RowsTyped, Catalogs
<1> QED BY <1>1, MailboxInvHolds, PTL

(* No UID is ever given to a second message, or keeps its message while the
   content changes: allocate_uid and its callers in copy, move, draft_save.  *)
THEOREM UidsNameOneContent == MailboxSpec => []UidNamesOneContent
<1>1. MailboxInv => UidNamesOneContent
    BY DEF MailboxInv, UidNamesOneContent, UidInv, OneMessage, FreshIsUnused
<1> QED BY <1>1, MailboxInvHolds, PTL

(* What search and POP3 read instead of the message agrees with the message:
   save_search, ensure_pop3_sizes and the cascades.                          *)
THEOREM DerivedRowsAreTrue == MailboxSpec => []DerivedRowsTrue
<1>1. MailboxInv => DerivedRowsTrue BY DEF MailboxInv, UidInv
<1> QED BY <1>1, MailboxInvHolds, PTL

-----------------------------------------------------------------------------
(* The folder catalog: names *)

HIDE MailboxAssumption

(* What lies strictly above in the hierarchy, part by part. *)
Above(p, n) == Len(p) < Len(n) /\ \A i \in 1..Len(p) : p[i] = n[i]

(* The first k parts of a name. *)
LEMMA FirstParts ==
    ASSUME NEW n \in Names, NEW k \in 1..Len(n)
    PROVE  /\ SubSeq(n, 1, k) \in Names /\ Len(SubSeq(n, 1, k)) = k
           /\ \A i \in 1..k : SubSeq(n, 1, k)[i] = n[i]
<1>1. n \in Seq(Atoms) /\ Len(n) \in 1..MaxDepth /\ MaxDepth \in Nat
    <2>1. MaxDepth \in Nat BY MailboxAssumption DEF MailboxAssumption
    <2> QED BY <2>1, NamesAreSequences
<1>2. k \in Int /\ 1 \in Int /\ \A i \in 1..k : n[i] \in Atoms BY <1>1
<1>3. /\ SubSeq(n, 1, k) \in Seq(Atoms) /\ Len(SubSeq(n, 1, k)) = k
      /\ \A i \in 1..k : SubSeq(n, 1, k)[i] = n[i]
    BY <1>2, SubSeqProperties
<1>4. k \in 1..MaxDepth BY <1>1
<1> QED BY <1>3, <1>4, NamesAreSequences

(* Names that agree in every part are one name. *)
LEMMA SameName ==
    ASSUME NEW n \in Names, NEW m \in Names, Len(n) = Len(m), \A i \in 1..Len(n) : n[i] = m[i]
    PROVE  n = m
BY NamesAreSequences, SeqEqual

LEMMA BelowIsAbove ==
    ASSUME NEW p \in Names, NEW n \in Names
    PROVE  Below(p, n) <=> Above(p, n)
<1>1. Len(p) \in Nat \ {0} /\ Len(n) \in Nat \ {0} BY NamesAreSequences
<1>2. Len(p) \in 1..Len(p) BY <1>1
<1>3. /\ SubSeq(p, 1, Len(p)) \in Names /\ Len(SubSeq(p, 1, Len(p))) = Len(p)
      /\ \A i \in 1..Len(p) : SubSeq(p, 1, Len(p))[i] = p[i]
    BY <1>2, FirstParts
<1>4. CASE Len(p) <= Len(n)
    <2>1. Len(p) \in 1..Len(n) BY <1>1, <1>4
    <2>2. /\ SubSeq(n, 1, Len(p)) \in Names /\ Len(SubSeq(n, 1, Len(p))) = Len(p)
          /\ \A i \in 1..Len(p) : SubSeq(n, 1, Len(p))[i] = n[i]
        BY <2>1, FirstParts
    <2>3. SubSeq(p, 1, Len(p)) = SubSeq(n, 1, Len(p)) <=> \A i \in 1..Len(p) : p[i] = n[i]
        <3>1. ASSUME \A i \in 1..Len(p) : p[i] = n[i]
              PROVE  SubSeq(p, 1, Len(p)) = SubSeq(n, 1, Len(p))
            BY <1>3, <2>2, <3>1, SameName
        <3>2. ASSUME SubSeq(p, 1, Len(p)) = SubSeq(n, 1, Len(p))
              PROVE  \A i \in 1..Len(p) : p[i] = n[i]
            BY <1>3, <2>2, <3>2
        <3> QED BY <3>1, <3>2
    <2>4. (\A i \in 1..Len(p) : p[i] = n[i]) => (p # n <=> Len(p) < Len(n))
        BY <1>1, <1>4, SameName
    <2> QED BY <1>4, <2>3, <2>4 DEF Below, IsStrictPrefix, IsPrefix, Above
<1>5. CASE ~(Len(p) <= Len(n)) BY <1>1, <1>5 DEF Below, IsStrictPrefix, IsPrefix, Above
<1> QED BY <1>4, <1>5

(* folder_parents() lists what lies above a name. *)
LEMMA ParentsAreAbove ==
    ASSUME NEW n \in Names
    PROVE  \A p : p \in Parents(n) <=> p \in Names /\ Above(p, n)
<1>1. Len(n) \in Nat \ {0} BY NamesAreSequences
<1>2. ASSUME NEW p \in Parents(n) PROVE p \in Names /\ Above(p, n)
    <2>1. PICK k \in 1..(Len(n) - 1) : p = SubSeq(n, 1, k) BY DEF Parents
    <2>2. k \in 1..Len(n) /\ k < Len(n) BY <1>1
    <2>3. p \in Names /\ Len(p) = k /\ \A i \in 1..k : p[i] = n[i] BY <2>1, <2>2, FirstParts
    <2> QED BY <2>2, <2>3 DEF Above
<1>3. ASSUME NEW p \in Names, Above(p, n) PROVE p \in Parents(n)
    <2> DEFINE k == Len(p)
    <2>1. k \in 1..(Len(n) - 1) /\ k \in 1..Len(n) BY <1>1, <1>3, NamesAreSequences DEF Above
    <2>2. /\ SubSeq(n, 1, k) \in Names /\ Len(SubSeq(n, 1, k)) = k
          /\ \A i \in 1..k : SubSeq(n, 1, k)[i] = n[i]
        BY <2>1, FirstParts
    <2>3. p = SubSeq(n, 1, k) BY <1>3, <2>2, SameName DEF Above
    <2> QED BY <2>1, <2>3 DEF Parents
<1> QED BY <1>2, <1>3

LEMMA AboveIsTransitive ==
    ASSUME NEW p \in Names, NEW n \in Names, NEW m \in Names, Above(p, n), Above(n, m)
    PROVE  Above(p, m)
<1>1. Len(p) \in Nat /\ Len(n) \in Nat /\ Len(m) \in Nat BY NamesAreSequences
<1> QED BY <1>1 DEF Above

(* Two names above one name are comparable. *)
LEMMA AboveIsLinear ==
    ASSUME NEW p \in Names, NEW n \in Names, NEW m \in Names, Above(p, m), Above(n, m), Len(n) <= Len(p)
    PROVE  p = n \/ Above(n, p)
<1>1. Len(p) \in Nat /\ Len(n) \in Nat /\ Len(m) \in Nat BY NamesAreSequences
<1>2. \A i \in 1..Len(n) : n[i] = p[i] BY <1>1 DEF Above
<1>3. CASE Len(n) = Len(p) BY <1>2, <1>3, SameName
<1>4. CASE Len(n) < Len(p) BY <1>2, <1>4 DEF Above
<1> QED BY <1>1, <1>3, <1>4

-----------------------------------------------------------------------------
(* Catalogs *)

Closed(D) == \A n \in D : \A p \in Names : Above(p, n) => p \in D

(* A catalog has the parents of its folders, and its rows let these be opened. *)
Holds(rows, boxes) ==
    Closed(DOMAIN rows) /\ \A f \in boxes : f \in DOMAIN rows /\ rows[f].selectable

(* prune_folder_parents() removes nothing in use. *)
LEMMA PrunedHolds ==
    ASSUME NEW rows \in Catalogs, NEW boxes, Holds(rows, boxes)
    PROVE  Holds(Pruned(rows), boxes)
<1> DEFINE D == {p \in DOMAIN rows : \E m \in DOMAIN rows :
                    (m = p \/ Below(p, m)) /\ (rows[m].selectable \/ rows[m].subscribed)}
<1>1. Pruned(rows) = [n \in D |-> rows[n]] BY DEF Pruned
<1>2. DOMAIN rows \subseteq Names BY DEF Catalogs
<1>3. ASSUME NEW n \in D, NEW p \in Names, Above(p, n) PROVE p \in D
    <2>1. p \in DOMAIN rows BY <1>3 DEF Holds, Closed
    <2>2. PICK m \in DOMAIN rows : (m = n \/ Below(n, m)) /\ (rows[m].selectable \/ rows[m].subscribed)
        OBVIOUS
    <2>3. n \in Names /\ m \in Names BY <1>2
    <2>4. Below(p, m) BY <1>3, <2>2, <2>3, BelowIsAbove, AboveIsTransitive
    <2> QED BY <2>1, <2>2, <2>4
<1>4. ASSUME NEW f \in boxes PROVE f \in D /\ rows[f].selectable BY DEF Holds
<1>5. DOMAIN Pruned(rows) = D /\ \A n \in D : Pruned(rows)[n] = rows[n] BY <1>1
<1> HIDE DEF D
<1> QED BY <1>3, <1>4, <1>5 DEF Holds, Closed

(* folder_parents() completes a catalog that lacks parents of one name only. *)
LEMMA WithParentsHolds ==
    ASSUME NEW rows \in Catalogs, NEW n \in Names, NEW boxes,
           \A q \in DOMAIN rows : \A p \in Names : Above(p, q) => p \in DOMAIN rows \/ Above(p, n),
           \A f \in boxes : f \in DOMAIN rows /\ rows[f].selectable
    PROVE  Holds(WithParents(rows, n), boxes)
<1> DEFINE D == DOMAIN rows \cup Parents(n)
<1>1. /\ DOMAIN WithParents(rows, n) = D
      /\ \A p \in DOMAIN rows : WithParents(rows, n)[p] = rows[p]
    BY DEF WithParents
<1>2. ASSUME NEW q \in D, NEW p \in Names, Above(p, q) PROVE p \in D
    <2>1. CASE q \in DOMAIN rows BY <1>2, <2>1, ParentsAreAbove
    <2>2. CASE q \in Parents(n)
        <3>1. q \in Names /\ Above(q, n) BY <2>2, ParentsAreAbove
        <3> QED BY <1>2, <3>1, AboveIsTransitive, ParentsAreAbove
    <2> QED BY <2>1, <2>2
<1> HIDE DEF D
<1>3. Closed(D) BY <1>2 DEF Closed
<1>4. \A f \in boxes : f \in DOMAIN rows /\ f \in D BY DEF D
<1> QED BY <1>1, <1>3, <1>4 DEF Holds

(* The new name of a folder in a renamed subtree, part by part. *)
LEMMA RenamedParts ==
    ASSUME NEW n \in Names, NEW target \in Names, NEW m \in Names, Len(n) <= Len(m)
    PROVE  /\ Len(Renamed(n, target, m)) = Len(target) + Len(m) - Len(n)
           /\ \A i \in 1..(Len(target) + Len(m) - Len(n)) :
                Renamed(n, target, m)[i] = IF i <= Len(target) THEN target[i] ELSE m[i - Len(target) + Len(n)]
<1> DEFINE rest == SubSeq(m, Len(n) + 1, Len(m))
<1>1. Len(n) \in Nat /\ Len(m) \in Nat /\ m \in Seq(Atoms) /\ target \in Seq(Atoms) /\ Len(target) \in Nat
    BY NamesAreSequences
<1>2. \A i \in (Len(n) + 1)..Len(m) : m[i] \in Atoms BY <1>1
<1>3. /\ rest \in Seq(Atoms) /\ Len(rest) = Len(m) - Len(n)
      /\ \A i \in 1..(Len(m) - Len(n)) : rest[i] = m[i + Len(n)]
    <2>1. Len(n) + 1 \in Int /\ Len(m) \in Int BY <1>1
    <2>2. /\ rest \in Seq(Atoms)
          /\ Len(rest) = IF Len(n) + 1 <= Len(m) THEN Len(m) - (Len(n) + 1) + 1 ELSE 0
          /\ \A i \in 1 .. Len(m) - (Len(n) + 1) + 1 : rest[i] = m[Len(n) + 1 + i - 1]
        BY <1>2, <2>1, SubSeqProperties
    <2> HIDE DEF rest
    <2> QED BY <1>1, <2>2
<1> HIDE DEF rest
<1>4. /\ Len(target \o rest) = Len(target) + Len(rest)
      /\ \A i \in 1 .. Len(target) + Len(rest) :
            (target \o rest)[i] = IF i <= Len(target) THEN target[i] ELSE rest[i - Len(target)]
    <2>1. target \in Seq(Atoms) /\ rest \in Seq(Atoms) BY <1>1, <1>3
    <2> QED BY <2>1, ConcatProperties, Zenon
<1>5. Renamed(n, target, m) = target \o rest BY DEF Renamed, rest
<1> DEFINE whole == target \o rest
<1>6. Len(whole) = Len(target) + Len(m) - Len(n) BY <1>1, <1>3, <1>4
<1>7. ASSUME NEW i \in 1..(Len(target) + Len(m) - Len(n))
      PROVE  whole[i] = IF i <= Len(target) THEN target[i] ELSE m[i - Len(target) + Len(n)]
    <2>1. i \in 1 .. Len(target) + Len(rest) BY <1>1, <1>3
    <2>2. whole[i] = IF i <= Len(target) THEN target[i] ELSE rest[i - Len(target)] BY <1>4, <2>1, Zenon
    <2> HIDE DEF whole
    <2>3. ~(i <= Len(target)) => i - Len(target) \in 1..(Len(m) - Len(n)) BY <1>1
    <2> QED BY <1>3, <2>2, <2>3
<1> QED BY <1>5, <1>6, <1>7, Zenon

(* Below a renamed folder different folders stay different. *)
LEMMA RenamedInjective ==
    ASSUME NEW n \in Names, NEW target \in Names, NEW k \in Names, NEW m \in Names,
           k = n \/ Above(n, k), m = n \/ Above(n, m), Renamed(n, target, k) = Renamed(n, target, m)
    PROVE  k = m
<1>1. Len(n) \in Nat /\ Len(m) \in Nat /\ Len(k) \in Nat /\ Len(target) \in Nat BY NamesAreSequences
<1>2. Len(n) <= Len(k) /\ Len(n) <= Len(m) BY <1>1 DEF Above
<1>3. Len(k) = Len(m)
    <2>1. Len(Renamed(n, target, k)) = Len(target) + Len(k) - Len(n) BY <1>2, RenamedParts, Zenon
    <2>2. Len(Renamed(n, target, m)) = Len(target) + Len(m) - Len(n) BY <1>2, RenamedParts, Zenon
    <2>3. Len(target) + Len(k) - Len(n) = Len(target) + Len(m) - Len(n) BY <2>1, <2>2
    <2> QED BY <1>1, <2>3
<1>4. ASSUME NEW i \in 1..Len(k) PROVE k[i] = m[i]
    <2>1. CASE i <= Len(n) BY <1>1, <2>1 DEF Above
    <2>2. CASE i > Len(n)
        <3> DEFINE j == i + Len(target) - Len(n)
        <3>1. j \in 1..(Len(target) + Len(k) - Len(n)) /\ ~(j <= Len(target)) /\ j - Len(target) + Len(n) = i
            BY <1>1, <2>2
        <3>2. Renamed(n, target, k)[j] = k[i] /\ Renamed(n, target, m)[j] = m[i]
            <4> HIDE DEF j
            <4>1. j \in 1..(Len(target) + Len(m) - Len(n)) BY <1>3, <3>1
            <4>2. \A h \in 1..(Len(target) + Len(k) - Len(n)) :
                    Renamed(n, target, k)[h] = IF h <= Len(target) THEN target[h] ELSE k[h - Len(target) + Len(n)]
                BY <1>2, RenamedParts, Zenon
            <4>3. \A h \in 1..(Len(target) + Len(m) - Len(n)) :
                    Renamed(n, target, m)[h] = IF h <= Len(target) THEN target[h] ELSE m[h - Len(target) + Len(n)]
                BY <1>2, RenamedParts, Zenon
            <4>4. Renamed(n, target, k)[j] = k[j - Len(target) + Len(n)] BY <3>1, <4>2, Zenon
            <4>5. Renamed(n, target, m)[j] = m[j - Len(target) + Len(n)] BY <3>1, <4>1, <4>3, Zenon
            <4> QED BY <3>1, <4>4, <4>5
        <3> QED BY <3>2
    <2> QED BY <1>1, <2>1, <2>2
<1> QED BY <1>3, <1>4, SameName

(* What lies above a renamed folder lies above the target or is renamed, too. *)
LEMMA AboveRenamed ==
    ASSUME NEW n \in Names, NEW target \in Names, NEW m \in Names, NEW p \in Names,
           m = n \/ Above(n, m), Above(p, Renamed(n, target, m))
    PROVE  \/ Above(p, target)
           \/ \E k \in Names : (k = n \/ Above(n, k)) /\ Above(k, m) /\ p = Renamed(n, target, k)
<1>1. /\ Len(n) \in Nat \ {0} /\ Len(m) \in Nat \ {0} /\ Len(p) \in Nat \ {0} /\ Len(target) \in Nat \ {0}
      /\ Len(n) <= Len(m)
    BY NamesAreSequences DEF Above
<1>2. /\ Len(p) < Len(target) + Len(m) - Len(n)
      /\ \A i \in 1..Len(p) : p[i] = IF i <= Len(target) THEN target[i] ELSE m[i - Len(target) + Len(n)]
    <2>1. /\ Len(p) < Len(Renamed(n, target, m))
          /\ \A i \in 1..Len(p) : p[i] = Renamed(n, target, m)[i]
        BY DEF Above
    <2>2. /\ Len(Renamed(n, target, m)) = Len(target) + Len(m) - Len(n)
          /\ \A i \in 1..(Len(target) + Len(m) - Len(n)) :
                Renamed(n, target, m)[i] = IF i <= Len(target) THEN target[i] ELSE m[i - Len(target) + Len(n)]
        BY <1>1, RenamedParts, Zenon
    <2>3. \A i \in 1..Len(p) : i \in 1..(Len(target) + Len(m) - Len(n)) BY <1>1, <2>1, <2>2
    <2>4. Len(p) < Len(target) + Len(m) - Len(n) BY <2>1, <2>2
    <2> QED BY <2>1, <2>2, <2>3, <2>4, Zenon
<1>3. CASE Len(p) < Len(target) BY <1>1, <1>2, <1>3 DEF Above
<1>4. CASE Len(p) >= Len(target)
    <2> DEFINE d == Len(n) + Len(p) - Len(target)
               k == SubSeq(m, 1, d)
    <2>1. d \in 1..Len(m) /\ d < Len(m) /\ Len(n) <= d BY <1>1, <1>2, <1>4
    <2>2. k \in Names /\ Len(k) = d /\ \A i \in 1..d : k[i] = m[i]
        <3> HIDE DEF d
        <3> QED BY <2>1, FirstParts
    <2>3. Above(k, m)
        <3> HIDE DEF d, k
        <3> QED BY <2>1, <2>2 DEF Above
    <2>4. k = n \/ Above(n, k)
        <3>1. CASE m = n BY <1>1, <2>1, <3>1
        <3>2. CASE Above(n, m)
            <4> HIDE DEF d, k
            <4> QED BY <2>1, <2>2, <2>3, <3>2, AboveIsLinear
        <3> QED BY <3>1, <3>2
    <2>5. p = Renamed(n, target, k)
        <3>1. d = Len(n) + Len(p) - Len(target) OBVIOUS
        <3> HIDE DEF d, k
        <3>2. /\ Len(Renamed(n, target, k)) = Len(p)
              /\ \A i \in 1..Len(p) : Renamed(n, target, k)[i] =
                    IF i <= Len(target) THEN target[i] ELSE k[i - Len(target) + Len(n)]
            <4>1. Len(n) <= Len(k) BY <2>1, <2>2
            <4>2. /\ Len(Renamed(n, target, k)) = Len(target) + Len(k) - Len(n)
                  /\ \A i \in 1..(Len(target) + Len(k) - Len(n)) : Renamed(n, target, k)[i] =
                        IF i <= Len(target) THEN target[i] ELSE k[i - Len(target) + Len(n)]
                BY <2>2, <4>1, RenamedParts, Zenon
            <4>3. Len(target) + Len(k) - Len(n) = Len(p) BY <1>1, <2>2, <3>1
            <4> QED BY <4>2, <4>3, Zenon
        <3>3. \A i \in 1..Len(p) : ~(i <= Len(target)) => i - Len(target) + Len(n) \in 1..d
            BY <1>1, <2>1, <3>1
        <3>4. \A i \in 1..Len(p) : Renamed(n, target, k)[i] = p[i] BY <1>2, <2>2, <3>2, <3>3
        <3>5. Renamed(n, target, k) \in Seq(Atoms)
            <4>1. /\ k \in Seq(Atoms) /\ target \in Seq(Atoms) BY <2>2, NamesAreSequences
            <4>2. \A i \in (Len(n) + 1)..Len(k) : k[i] \in Atoms BY <1>1, <4>1
            <4>3. SubSeq(k, Len(n) + 1, Len(k)) \in Seq(Atoms)
                <5>1. Len(n) + 1 \in Int /\ Len(k) \in Int BY <1>1, <2>1, <2>2
                <5> QED BY <4>2, <5>1, SubSeqProperties
            <4> QED BY <4>1, <4>3, ConcatProperties DEF Renamed
        <3> QED BY <3>2, <3>4, <3>5, NamesAreSequences, SeqEqual
    <2> QED BY <2>2, <2>3, <2>4, <2>5
<1> QED BY <1>1, <1>3, <1>4

-----------------------------------------------------------------------------
(* Steps *)

Boxes == System \cup {m.folder : m \in messages}
CatalogInv == Holds(folders, Boxes)

(* Messages stay where mail already is, or come where it may be. *)
LEMMA MailMoves ==
    ASSUME CatalogInv, UNCHANGED folders,
           \A m \in messages' : (\E k \in messages : k.folder = m.folder) \/ Selectable(m.folder)
    PROVE  CatalogInv'
<1>1. \A f \in Boxes : f \in DOMAIN folders /\ folders[f].selectable BY DEF CatalogInv, Holds
<1>2. \A f : Selectable(f) => f \in DOMAIN folders /\ folders[f].selectable
    BY <1>1 DEF Selectable, Boxes
<1>3. \A f \in Boxes' : f \in DOMAIN folders /\ folders[f].selectable BY <1>1, <1>2 DEF Boxes
<1> QED BY <1>3 DEF CatalogInv, Holds

(* The rows change in what the catalog does not depend on. *)
LEMMA RowsChange ==
    ASSUME CatalogInv, UNCHANGED messages, DOMAIN folders' = DOMAIN folders,
           \A f \in DOMAIN folders : folders[f].selectable => folders'[f].selectable
    PROVE  CatalogInv'
<1>1. \A f \in Boxes : f \in DOMAIN folders' /\ folders'[f].selectable BY DEF CatalogInv, Holds
<1>2. Closed(DOMAIN folders') BY DEF CatalogInv, Holds
<1>3. Boxes' = Boxes BY DEF Boxes
<1> QED BY <1>1, <1>2, <1>3 DEF CatalogInv, Holds

LEMMA MessageStepHolds ==
    ASSUME CatalogInv, messages \in SUBSET Message, MessageStep
    PROVE  CatalogInv'
<1>1. ASSUME NEW i, NEW f, NEW z, NEW d, Insert(i, f, z, d) PROVE CatalogInv'
    BY <1>1, MailMoves DEF Insert
<1>2. ASSUME NEW i, NEW f \in {Drafts, Sent}, NEW z, Rewrite(i, 0, f, z) PROVE CatalogInv'
    <2>1. PICK old \in messages : messages' = (messages \ {old}) \cup
                {[old EXCEPT !.uid = RewriteUid(old), !.size = z, !.folder = f]}
        BY <1>2 DEF Rewrite, In
    <2>2. Selectable(f) BY MailboxAssumption DEF Selectable, MailboxAssumption
    <2>3. UNCHANGED folders BY <1>2 DEF Rewrite
    <2>4. \A m \in messages' : m \in messages \/ m.folder = f \/ m.folder = old.folder BY <2>1 DEF Message
    <2> QED BY <2>2, <2>3, <2>4, MailMoves
<1>3. ASSUME NEW i, NEW d, SetDeleted(i, 0, <<>>, d) PROVE CatalogInv'
    <2>1. PICK old \in messages : messages' = (messages \ {old}) \cup {[old EXCEPT !.deleted = d]}
        BY <1>3 DEF SetDeleted, In
    <2>2. UNCHANGED folders BY <1>3 DEF SetDeleted
    <2>3. \A m \in messages' : \E k \in messages : k.folder = m.folder BY <2>1 DEF Message
    <2> QED BY <2>2, <2>3, MailMoves
<1> QED BY <1>1, <1>2, <1>3 DEF MessageStep

LEMMA RelocateHolds ==
    ASSUME CatalogInv, messages \in SUBSET Message, NEW ids, NEW target, Selectable(target), Relocate(ids, target)
    PROVE  CatalogInv'
<1>1. PICK uids \in FreshUids(ids) :
        messages' = (messages \ In(ids)) \cup {[m EXCEPT !.uid = uids[m.id], !.folder = target] : m \in In(ids)}
    BY DEF Relocate
<1>2. \A m \in messages' : m \in messages \/ m.folder = target \/ \E k \in messages : k.folder = m.folder
    BY <1>1 DEF In, Message
<1>3. UNCHANGED folders BY DEF Relocate
<1> QED BY <1>2, <1>3, MailMoves

LEMMA BatchStepHolds ==
    ASSUME CatalogInv, messages \in SUBSET Message, BatchStep
    PROVE  CatalogInv'
<1>1. ASSUME NEW ids, NEW f, NEW t, Copy(ids, Unguarded(ids), f, t) PROVE CatalogInv'
    <2>1. PICK uids \in FreshUids(ids), new \in [ids -> Ids \ used] :
            messages' = messages \cup
                {[m EXCEPT !.id = new[m.id], !.uid = uids[m.id], !.folder = t] : m \in In(ids)}
        BY <1>1 DEF Copy
    <2>2. \A m \in messages' : m \in messages \/ m.folder = t \/ \E k \in messages : k.folder = m.folder
        BY <2>1 DEF In, Message
    <2>3. UNCHANGED folders /\ Selectable(t) BY <1>1 DEF Copy, CopyGuard
    <2> QED BY <2>2, <2>3, MailMoves
<1>2. ASSUME NEW ids, NEW f, NEW t, MoveAll(ids, Unguarded(ids), f, t) PROVE CatalogInv'
    BY <1>2, RelocateHolds DEF MoveAll, CopyGuard
<1>3. ASSUME NEW ids, NEW t, MoveSome(ids, t) PROVE CatalogInv'
    BY <1>3, RelocateHolds DEF MoveSome
<1>4. ASSUME NEW ids, RemovePermanently(Unguarded(ids), <<>>, FALSE) PROVE CatalogInv'
    BY <1>4, MailMoves DEF RemovePermanently
<1> QED BY <1>1, <1>2, <1>3, <1>4 DEF BatchStep

LEMMA ReadStepHolds ==
    ASSUME CatalogInv, folders \in Catalogs, ReadStep
    PROVE  CatalogInv'
<1>1. ASSUME NEW f \in DOMAIN folders, ListClaiming(f) PROVE CatalogInv'
    <2>1. UNCHANGED messages BY <1>1 DEF ListClaiming
    <2>2. \A n \in DOMAIN folders : folders[n] \in FolderRow BY DEF Catalogs
    <2>3. /\ DOMAIN folders' = DOMAIN folders
          /\ \A n \in DOMAIN folders : folders'[n].selectable = folders[n].selectable
        BY <1>1, <2>2 DEF ListClaiming, FolderRow
    <2> QED BY <2>1, <2>3, RowsChange
<1>2. CASE UNCHANGED <<folders, messages>> BY <1>2, MailMoves
<1> QED BY <1>1, <1>2 DEF ReadStep, ListSizes, SearchMail

LEMMA CreateHolds ==
    ASSUME CatalogInv, folders \in Catalogs, NEW n \in ClientNames, CreateFolder(n)
    PROVE  CatalogInv'
<1> DEFINE rows == WithParents(folders, n)
           D == DOMAIN rows \cup {n}
<1>1. n \in Names BY MailboxAssumption DEF MailboxAssumption
<1>2. Holds(rows, Boxes) /\ rows \in Catalogs
    BY <1>1, WithParentsHolds, WithParentsType DEF CatalogInv, Holds, Closed
<1>3. Parents(n) \subseteq DOMAIN rows BY DEF WithParents
<1>4. folders' = [p \in D |->
            IF p # n THEN rows[p]
            ELSE IF n \in DOMAIN rows
                 THEN [rows[n] EXCEPT !.selectable = TRUE, !.subscribed = TRUE]
                 ELSE Ordinary]
      /\ UNCHANGED messages
    BY DEF CreateFolder
<1> HIDE DEF rows
<1>5. \A p \in DOMAIN rows : rows[p] \in FolderRow BY <1>2 DEF Catalogs
<1>6. folders'[n].selectable /\ \A f \in DOMAIN rows \ {n} : folders'[f] = rows[f]
    <2>1. n \in DOMAIN rows => [rows[n] EXCEPT !.selectable = TRUE, !.subscribed = TRUE].selectable
        BY <1>5 DEF FolderRow
    <2>2. Ordinary.selectable BY DEF Ordinary
    <2>3. folders'[n] = IF n \in DOMAIN rows
                        THEN [rows[n] EXCEPT !.selectable = TRUE, !.subscribed = TRUE] ELSE Ordinary
        BY <1>4
    <2> QED BY <1>4, <2>1, <2>2, <2>3
<1>7. DOMAIN folders' = D BY <1>4
<1>8. Closed(D)
    <2>1. SUFFICES ASSUME NEW q \in D, NEW p \in Names, Above(p, q) PROVE p \in D BY DEF Closed
    <2>2. CASE q \in DOMAIN rows BY <1>2, <2>1, <2>2 DEF Holds, Closed
    <2>3. CASE q = n BY <1>1, <1>3, <2>1, <2>3, ParentsAreAbove
    <2> QED BY <2>2, <2>3
<1>9. \A f \in Boxes : f \in D /\ folders'[f].selectable BY <1>2, <1>6 DEF Holds
<1>10. Boxes' = Boxes BY <1>4 DEF Boxes
<1> QED BY <1>7, <1>8, <1>9, <1>10 DEF CatalogInv, Holds

LEMMA SystemIsTop ==
    ASSUME NEW n \in Names, NEW f \in System
    PROVE  f \in Names /\ ~Above(n, f)
<1>1. f \in Names /\ Len(f) = 1 BY MailboxAssumption DEF MailboxAssumption
<1>2. Len(n) \in Nat \ {0} BY NamesAreSequences
<1> QED BY <1>1, <1>2 DEF Above

LEMMA DeleteHolds ==
    ASSUME CatalogInv, folders \in Catalogs, NEW n \in DOMAIN folders, DeleteFolder(n)
    PROVE  CatalogInv'
<1> DEFINE others == DOMAIN folders \ {n}
           rows == IF \E m \in others : Below(n, m)
                   THEN [folders EXCEPT ![n].selectable = FALSE, ![n].subscribed = FALSE]
                   ELSE [m \in others |-> folders[m]]
           left == System \cup {m.folder : m \in {k \in messages : k.folder # n}}
<1>1. DOMAIN folders \subseteq Names /\ \A p \in DOMAIN folders : folders[p] \in FolderRow BY DEF Catalogs
<1>2. folders' = Pruned(rows) /\ messages' = messages \ {m \in messages : m.folder = n} /\ n \notin System
    BY DEF DeleteFolder
<1>3. Boxes' = left BY <1>2 DEF Boxes
<1>4. left \subseteq Boxes /\ n \notin left BY <1>2 DEF Boxes
<1> HIDE DEF left
<1>5. \A f \in left : f \in others /\ folders[f].selectable BY <1>4 DEF CatalogInv, Holds
<1>6. Closed(DOMAIN folders) BY DEF CatalogInv, Holds
<1>7. rows \in Catalogs /\ Holds(rows, left)
    <2>1. CASE \E m \in others : Below(n, m)
        <3>1. rows = [folders EXCEPT ![n].selectable = FALSE, ![n].subscribed = FALSE] BY <2>1
        <3> HIDE DEF rows
        <3>2. DOMAIN rows = DOMAIN folders /\ \A f \in others : rows[f] = folders[f] BY <3>1
        <3>3. rows \in [DOMAIN folders -> FolderRow] BY <1>1, <3>1 DEF FolderRow
        <3> QED BY <1>1, <1>5, <1>6, <3>2, <3>3 DEF Holds, Catalogs
    <2>2. CASE ~\E m \in others : Below(n, m)
        <3>1. rows = [m \in others |-> folders[m]] BY <2>2
        <3> HIDE DEF rows
        <3>2. DOMAIN rows = others /\ \A f \in others : rows[f] = folders[f] BY <3>1
        <3>3. Closed(others)
            <4>1. SUFFICES ASSUME NEW q \in others, NEW p \in Names, Above(p, q) PROVE p \in others
                BY DEF Closed
            <4>2. p \in DOMAIN folders BY <1>6, <4>1 DEF Closed
            <4>3. p # n BY <1>1, <2>2, <4>1, BelowIsAbove
            <4> QED BY <4>2, <4>3
        <3>4. rows \in [others -> FolderRow] BY <1>1, <3>1
        <3>5. rows \in Catalogs BY <1>1, <3>4 DEF Catalogs
        <3> QED BY <1>5, <3>2, <3>3, <3>5 DEF Holds
    <2> QED BY <2>1, <2>2
<1> HIDE DEF rows
<1> QED BY <1>2, <1>3, <1>7, PrunedHolds DEF CatalogInv

(* The rows of a renamed subtree are those it had. *)
LEMMA RenamedRows ==
    ASSUME folders \in Catalogs, NEW n \in DOMAIN folders, NEW target \in ClientNames,
           RenameFolder(n, target)
    PROVE  \E rows \in Catalogs :
              /\ folders' = Pruned(WithParents(rows, target))
              /\ DOMAIN rows = (DOMAIN folders \ Subtree(n)) \cup {Renamed(n, target, m) : m \in Subtree(n)}
              /\ \A p \in DOMAIN folders \ Subtree(n) : rows[p] = folders[p]
              /\ \A m \in Subtree(n) : rows[Renamed(n, target, m)] = folders[m]
<1> DEFINE tree == Subtree(n)
           outside == DOMAIN folders \ tree
           landed == {Renamed(n, target, m) : m \in tree}
           old(p) == CHOOSE m \in tree : Renamed(n, target, m) = p
           D == outside \cup landed
           rows == [p \in D |-> IF p \in outside THEN folders[p] ELSE folders[old(p)]]
<1>1. /\ DOMAIN folders \subseteq Names /\ \A p \in DOMAIN folders : folders[p] \in FolderRow
      /\ n \in Names /\ target \in Names
    BY MailboxAssumption DEF Catalogs, MailboxAssumption
<1>2. /\ landed \subseteq Names /\ landed \cap outside = {}
      /\ folders' = Pruned(WithParents(rows, target))
    BY DEF RenameFolder
<1>3. \A m : m \in tree <=> m \in DOMAIN folders /\ (m = n \/ Above(n, m))
    BY <1>1, BelowIsAbove DEF Subtree
<1>4. outside = DOMAIN folders \ tree /\ D = outside \cup landed OBVIOUS
<1>5. \A p : p \in landed <=> \E m \in tree : p = Renamed(n, target, m) OBVIOUS
<1>7. \A m \in tree : m \in Names BY <1>1, <1>3
<1>8. \A m \in tree : old(Renamed(n, target, m)) = m
    <2>1. SUFFICES ASSUME NEW m \in tree PROVE old(Renamed(n, target, m)) = m OBVIOUS
    <2> DEFINE k == old(Renamed(n, target, m))
    <2>2. k \in tree /\ Renamed(n, target, k) = Renamed(n, target, m) OBVIOUS
    <2> HIDE DEF k, tree
    <2>3. k = m BY <1>1, <1>3, <1>7, <2>1, <2>2, RenamedInjective
    <2> QED BY <2>3 DEF k
<1>9. /\ DOMAIN rows = D
      /\ \A p \in outside : rows[p] = folders[p]
      /\ \A m \in tree : rows[Renamed(n, target, m)] = folders[m]
    <2>1. \A p \in outside : p \in D /\ rows[p] = folders[p] OBVIOUS
    <2>2. ASSUME NEW m \in tree PROVE rows[Renamed(n, target, m)] = folders[m]
        <3> DEFINE p == Renamed(n, target, m)
        <3>1. p \in landed OBVIOUS
        <3>2. p \in D /\ p \notin outside BY <1>2, <3>1
        <3>3. old(p) = m BY <1>8
        <3> HIDE DEF p, old, outside, D
        <3>4. rows[p] = folders[old(p)] BY <3>2
        <3> QED BY <3>3, <3>4 DEF p
    <2> QED BY <2>1, <2>2
<1> HIDE DEF tree, outside, landed, old, D, rows
<1>10. rows \in Catalogs
    <2>1. \A p \in D : rows[p] \in FolderRow BY <1>1, <1>3, <1>4, <1>5, <1>9
    <2>2. D \in SUBSET Names BY <1>1, <1>2, <1>4
    <2>3. rows \in [D -> FolderRow]
        <3>1. rows = [p \in D |-> rows[p]] BY DEF rows
        <3> QED BY <2>1, <3>1
    <2> QED BY <2>2, <2>3 DEF Catalogs
<1> QED BY <1>2, <1>9, <1>10 DEF D, outside, landed, tree

(* A subtree moves to another place with its mail. *)
LEMMA RenameHolds ==
    ASSUME CatalogInv, folders \in Catalogs, messages \in SUBSET Message,
           NEW n \in DOMAIN folders, NEW target \in ClientNames, RenameFolder(n, target)
    PROVE  CatalogInv'
<1> DEFINE tree == Subtree(n)
           outside == DOMAIN folders \ tree
           landed == {Renamed(n, target, m) : m \in tree}
           D == outside \cup landed
<1>1. /\ DOMAIN folders \subseteq Names
      /\ n \in Names /\ target \in Names
    BY MailboxAssumption DEF Catalogs, MailboxAssumption
<1>2. /\ n \notin System
      /\ messages' = {[m EXCEPT !.folder = FolderAfter(n, target, @)] : m \in messages}
    BY DEF RenameFolder
<1>3. \A m : m \in tree <=> m \in DOMAIN folders /\ (m = n \/ Above(n, m))
    BY <1>1, BelowIsAbove DEF Subtree
<1>4. outside = DOMAIN folders \ tree /\ D = outside \cup landed OBVIOUS
<1>5. \A p : p \in landed <=> \E m \in tree : p = Renamed(n, target, m) OBVIOUS
<1>6. /\ Closed(DOMAIN folders)
      /\ \A f \in Boxes : f \in DOMAIN folders /\ folders[f].selectable
    BY DEF CatalogInv, Holds
<1>7. \A m \in tree : m \in Names BY <1>1, <1>3
<1>8. PICK rows \in Catalogs :
              /\ folders' = Pruned(WithParents(rows, target))
              /\ DOMAIN rows = D
              /\ \A p \in outside : rows[p] = folders[p]
              /\ \A m \in tree : rows[Renamed(n, target, m)] = folders[m]
    BY RenamedRows
<1>9. /\ DOMAIN rows = D
      /\ \A p \in outside : rows[p] = folders[p]
      /\ \A m \in tree : rows[Renamed(n, target, m)] = folders[m]
    BY <1>8
<1>10. rows \in Catalogs OBVIOUS
<1> HIDE DEF tree, outside, landed, D
<1>11. ASSUME NEW q \in DOMAIN rows, NEW p \in Names, Above(p, q)
       PROVE  p \in DOMAIN rows \/ Above(p, target)
    <2>1. CASE q \in outside
        <3>1. q \in DOMAIN folders /\ q \in Names BY <1>1, <1>4, <2>1
        <3>2. p \in DOMAIN folders BY <1>6, <1>11, <3>1 DEF Closed
        <3>3. p \notin tree
            <4>1. SUFFICES ASSUME p \in tree PROVE FALSE OBVIOUS
            <4>2. Above(n, q) BY <1>1, <1>3, <1>11, <3>1, <4>1, AboveIsTransitive
            <4> QED BY <1>3, <1>4, <2>1, <3>1, <4>2
        <3> QED BY <1>4, <1>9, <3>2, <3>3
    <2>2. CASE q \in landed
        <3>1. PICK m \in tree : q = Renamed(n, target, m) BY <1>5, <2>2
        <3>2. m \in Names /\ m \in DOMAIN folders /\ (m = n \/ Above(n, m)) BY <1>3, <1>7
        <3>3. CASE \E k \in Names : (k = n \/ Above(n, k)) /\ Above(k, m) /\ p = Renamed(n, target, k)
            <4>1. PICK k \in Names : (k = n \/ Above(n, k)) /\ Above(k, m) /\ p = Renamed(n, target, k)
                BY <3>3
            <4>2. k \in DOMAIN folders BY <1>6, <3>2, <4>1 DEF Closed
            <4> QED BY <1>3, <1>4, <1>5, <1>9, <4>1, <4>2
        <3> QED BY <1>1, <1>11, <3>1, <3>2, <3>3, AboveRenamed
    <2> QED BY <1>4, <1>9, <2>1, <2>2
<1>12. ASSUME NEW f \in Boxes' PROVE f \in DOMAIN rows /\ rows[f].selectable
    <2>1. CASE f \in System
        <3>1. f \in Boxes /\ f # n BY <1>2, <2>1 DEF Boxes
        <3>2. f \notin tree BY <1>1, <1>3, <2>1, <3>1, SystemIsTop
        <3> QED BY <1>4, <1>6, <1>9, <3>1, <3>2
    <2>2. CASE \E m \in messages : f = FolderAfter(n, target, m.folder)
        <3>1. PICK m \in messages : f = FolderAfter(n, target, m.folder) BY <2>2
        <3>2. m.folder \in DOMAIN folders /\ folders[m.folder].selectable BY <1>6 DEF Boxes
        <3>3. CASE m.folder \in tree
            <4>1. f = Renamed(n, target, m.folder) BY <3>1, <3>3 DEF FolderAfter, tree
            <4> QED BY <1>4, <1>5, <1>9, <3>2, <3>3, <4>1
        <3>4. CASE m.folder \notin tree
            <4>1. f = m.folder BY <3>1, <3>4 DEF FolderAfter, tree
            <4> QED BY <1>4, <1>9, <3>2, <3>4, <4>1
        <3> QED BY <3>3, <3>4
    <2>3. f \in System \/ \E m \in messages : f = FolderAfter(n, target, m.folder)
        <3>1. \A m \in messages : [m EXCEPT !.folder = FolderAfter(n, target, @)].folder
                                    = FolderAfter(n, target, m.folder)
            BY DEF Message
        <3> DEFINE New(m) == [m EXCEPT !.folder = FolderAfter(n, target, @)]
        <3>2. messages' = {New(m) : m \in messages} /\ \A m \in messages : New(m).folder = FolderAfter(n, target, m.folder)
            BY <1>2, <3>1
        <3> HIDE DEF New
        <3>3. f \in System \/ \E k \in messages' : f = k.folder BY <1>12 DEF Boxes
        <3> QED BY <3>2, <3>3
    <2> QED BY <2>1, <2>2, <2>3
<1>13. Holds(WithParents(rows, target), Boxes') /\ WithParents(rows, target) \in Catalogs
    <2>1. target \in Names BY <1>1
    <2> QED BY <1>10, <1>11, <1>12, <2>1, WithParentsHolds, WithParentsType
<1> QED BY <1>8, <1>13, PrunedHolds DEF CatalogInv

LEMMA SubscribeHolds ==
    ASSUME CatalogInv, folders \in Catalogs, NEW n \in DOMAIN folders, NEW v, Subscribe(n, v)
    PROVE  CatalogInv'
<1>1. \A f \in DOMAIN folders : folders[f] \in FolderRow BY DEF Catalogs
<1>2. /\ DOMAIN folders' = DOMAIN folders /\ UNCHANGED messages
      /\ \A f \in DOMAIN folders : folders'[f].selectable = folders[f].selectable
    BY <1>1 DEF Subscribe, FolderRow
<1> QED BY <1>2, RowsChange

-----------------------------------------------------------------------------
(* Theorem *)

LEMMA NextCatalogInv ==
    ASSUME CatalogInv, MailboxInv, [MailboxNext]_mailboxVars
    PROVE  CatalogInv'
<1>1. folders \in Catalogs /\ messages \in SUBSET Message BY DEF MailboxInv, UidInv, RowsTyped
<1>2. CASE FolderStep
    BY <1>1, <1>2, CreateHolds, DeleteHolds, RenameHolds, SubscribeHolds DEF FolderStep
<1>3. CASE \E q \in Quotas : SetQuota(q) BY <1>3, MailMoves DEF SetQuota
<1>4. CASE UNCHANGED mailboxVars BY <1>4, MailMoves DEF mailboxVars
<1> QED BY <1>1, <1>2, <1>3, <1>4, MessageStepHolds, BatchStepHolds, ReadStepHolds DEF MailboxNext

(* A new mailbox has the system folders and no mail. *)
LEMMA InitCatalogInv == MailboxInit => CatalogInv
<1>1. \A n \in System : n \in Names /\ Parents(n) = {}
    BY MailboxAssumption DEF Parents
<1> SUFFICES ASSUME MailboxInit PROVE CatalogInv OBVIOUS
<1>2. /\ DOMAIN folders = System /\ Boxes = System
      /\ \A n \in System : folders[n].selectable
    BY DEF MailboxInit, Boxes
<1>3. Closed(System) BY <1>1, ParentsAreAbove DEF Closed
<1> QED BY <1>2, <1>3 DEF CatalogInv, Holds

(* Whatever clients create, delete, rename or prune, all mail lies in folders
   that can be opened, and each folder has its parents: folder(),
   folder_delete, folder_rename, prune_folder_parents.                       *)
THEOREM MailStaysReachable == MailboxSpec => []CatalogHoldsMail
<1>1. MailboxInv /\ CatalogInv => CatalogHoldsMail
    <2>1. SUFFICES ASSUME MailboxInv, CatalogInv PROVE CatalogHoldsMail OBVIOUS
    <2>2. DOMAIN folders \subseteq Names BY <2>1 DEF MailboxInv, Catalogs
    <2>3. \A n \in DOMAIN folders : Parents(n) \subseteq DOMAIN folders
        BY <2>1, <2>2, ParentsAreAbove DEF CatalogInv, Holds, Closed
    <2> QED BY <2>1, <2>3 DEF CatalogHoldsMail, CatalogInv, Holds, Boxes, Selectable
<1>2. MailboxSpec => [](MailboxInv /\ CatalogInv)
    <2>1. MailboxInit => MailboxInv /\ CatalogInv BY InitMailboxInv, InitCatalogInv
    <2>2. MailboxInv /\ CatalogInv /\ [MailboxNext]_mailboxVars => (MailboxInv /\ CatalogInv)'
        BY NextMailboxInv, NextCatalogInv
    <2> QED BY <2>1, <2>2, PTL DEF MailboxSpec
<1> QED BY <1>1, <1>2, PTL

-----------------------------------------------------------------------------
(* Recent mail *)

(* A message that was handed out as recent lies below its folder's mark, to
   wherever folders are renamed; UIDs to come were never handed out.         *)
RecentInv ==
    /\ \A u \in Uids : claims[u] <= 1 /\ (u >= uidnext => claims[u] = 0)
    /\ \A m \in messages : claims[m.uid] # 0 => m.uid <= folders[m.folder].recent

(* What holds of a mailbox whose catalog is sound. *)
LEMMA WhatIsKnown ==
    ASSUME MailboxInv, CatalogInv
    PROVE  /\ RowsTyped /\ OneMessage /\ messages \in SUBSET Message /\ folders \in Catalogs
           /\ claims \in [Uids -> Nat] /\ uidnext \in 1..MaxUid /\ MaxUid \in Nat
           /\ \A m \in messages : m.uid \in Uids /\ m.uid < uidnext
           /\ \A m \in messages : m.folder \in DOMAIN folders /\ folders[m.folder] \in FolderRow
           /\ \A m \in messages : folders[m.folder].recent \in Nat
<1>1. /\ RowsTyped /\ OneMessage /\ messages \in SUBSET Message /\ folders \in Catalogs
      /\ claims \in [Uids -> Nat] /\ uidnext \in 1..MaxUid
    BY DEF MailboxInv, UidInv, RowsTyped
<1>2. MaxUid \in Nat BY MailboxAssumption DEF MailboxAssumption
<1>3. \A m \in messages : m.uid \in Uids BY <1>1 DEF Message
<1>4. \A m \in messages : m.uid < uidnext BY DEF MailboxInv, UidInv, OneMessage, FreshIsUnused
<1>5. \A m \in messages : m.folder \in DOMAIN folders BY DEF CatalogInv, Holds, Boxes
<1>6. \A f \in DOMAIN folders : folders[f] \in FolderRow BY <1>1 DEF Catalogs
<1>7. \A r \in FolderRow : r.recent \in Nat BY <1>2 DEF FolderRow
<1> QED BY <1>1, <1>2, <1>3, <1>4, <1>5, <1>6, <1>7

(* A step that hands nothing out: its messages are new, or keep their UID in a
   folder with the same mark.                                                 *)
LEMMA NothingClaimed ==
    ASSUME MailboxInv, CatalogInv, RecentInv, UNCHANGED claims,
           uidnext' \in Int, uidnext <= uidnext', messages' \in SUBSET Message,
           \A m \in messages' :
              \/ m.uid >= uidnext
              \/ \E k \in messages : k.uid = m.uid /\ folders'[m.folder].recent = folders[k.folder].recent
    PROVE  RecentInv'
<1>1. uidnext \in Nat BY WhatIsKnown
<1>2. \A u \in Uids : u \in Nat BY DEF Uids
<1>3. \A u \in Uids : claims[u] <= 1 /\ (u >= uidnext' => claims[u] = 0) BY <1>1, <1>2 DEF RecentInv
<1>4. ASSUME NEW m \in messages', claims[m.uid] # 0 PROVE m.uid <= folders'[m.folder].recent
    <2>1. m.uid \in Uids BY DEF Message
    <2>2. ~(m.uid >= uidnext) BY <1>4, <2>1 DEF RecentInv
    <2>3. PICK k \in messages : k.uid = m.uid /\ folders'[m.folder].recent = folders[k.folder].recent
        BY <2>2
    <2> QED BY <1>4, <2>3 DEF RecentInv
<1> QED BY <1>3, <1>4 DEF RecentInv

(* The same, when the folders stay as they are. *)
LEMMA FoldersKept ==
    ASSUME MailboxInv, CatalogInv, RecentInv, UNCHANGED <<claims, folders>>,
           uidnext' \in Int, uidnext <= uidnext', messages' \in SUBSET Message,
           \A m \in messages' :
              m.uid >= uidnext \/ \E k \in messages : k.uid = m.uid /\ k.folder = m.folder
    PROVE  RecentInv'
BY NothingClaimed

LEMMA MessageStepClaimsNothing ==
    ASSUME MailboxInv, CatalogInv, RecentInv, MailboxInv', MessageStep
    PROVE  RecentInv'
<1>1. /\ RowsTyped /\ messages \in SUBSET Message /\ messages' \in SUBSET Message
      /\ uidnext \in Nat /\ uidnext' \in Nat
    BY WhatIsKnown DEF MailboxInv, UidInv, RowsTyped
<1>2. ASSUME NEW i, NEW f, NEW z, NEW d, Insert(i, f, z, d) PROVE RecentInv'
    <2>1. messages' = messages \cup {[id |-> i, uid |-> uidnext, folder |-> f, size |-> z, deleted |-> d]}
        BY <1>2 DEF Insert
    <2>2. UNCHANGED <<claims, folders>> /\ uidnext' = uidnext + 1 BY <1>1, <1>2, OneUid DEF Insert
    <2>3. \A m \in messages' : m.uid >= uidnext \/ m \in messages BY <1>1, <2>1
    <2> QED BY <1>1, <2>2, <2>3, FoldersKept
<1>3. ASSUME NEW i, NEW f, NEW z, Rewrite(i, 0, f, z) PROVE RecentInv'
    <2>1. PICK old \in messages : messages' = (messages \ {old}) \cup
                {[old EXCEPT !.uid = RewriteUid(old), !.size = z, !.folder = f]}
        BY <1>3 DEF Rewrite, In
    <2>2. UNCHANGED <<claims, folders>> /\ uidnext' = uidnext + 1 BY <1>1, <1>3, OneUid DEF Rewrite
    <2> DEFINE new == [old EXCEPT !.uid = uidnext, !.size = z, !.folder = f]
    <2>3. new.uid = uidnext BY <1>1 DEF Message
    <2>4. messages' = (messages \ {old}) \cup {new} BY <2>1 DEF RewriteUid
    <2> HIDE DEF new
    <2>5. \A m \in messages' : m.uid >= uidnext \/ m \in messages BY <1>1, <2>3, <2>4
    <2> QED BY <1>1, <2>2, <2>5, FoldersKept
<1>4. ASSUME NEW i, NEW d, SetDeleted(i, 0, <<>>, d) PROVE RecentInv'
    <2>1. PICK old \in messages : messages' = (messages \ {old}) \cup {[old EXCEPT !.deleted = d]}
        BY <1>4 DEF SetDeleted, In
    <2>2. UNCHANGED <<claims, folders, uidnext>> BY <1>4 DEF SetDeleted
    <2>3. \A m \in messages' : \E k \in messages : k.uid = m.uid /\ k.folder = m.folder
        BY <1>1, <2>1 DEF Message
    <2> QED BY <1>1, <2>2, <2>3, FoldersKept
<1> QED BY <1>2, <1>3, <1>4 DEF MessageStep

LEMMA RelocateClaimsNothing ==
    ASSUME MailboxInv, CatalogInv, RecentInv, MailboxInv', NEW ids \in SUBSET Ids, NEW target,
           Relocate(ids, target)
    PROVE  RecentInv'
<1>1. /\ RowsTyped /\ messages \in SUBSET Message /\ messages' \in SUBSET Message
      /\ uidnext \in Nat /\ uidnext' \in Nat
    BY WhatIsKnown DEF MailboxInv, UidInv, RowsTyped
<1>2. Allocate(Cardinality(ids)) /\ UNCHANGED <<claims, folders>> BY DEF Relocate
<1>3. PICK uids \in FreshUids(ids) :
        messages' = (messages \ In(ids)) \cup {[m EXCEPT !.uid = uids[m.id], !.folder = target] : m \in In(ids)}
    BY DEF Relocate
<1>4. uidnext <= uidnext' /\ \A i \in ids : uids[i] >= uidnext BY <1>1, <1>2, BatchUids
<1>5. \A m \in messages' : m.uid >= uidnext \/ m \in messages BY <1>1, <1>3, <1>4 DEF In, Message
<1> QED BY <1>1, <1>2, <1>4, <1>5, FoldersKept

LEMMA BatchStepClaimsNothing ==
    ASSUME MailboxInv, CatalogInv, RecentInv, MailboxInv', BatchStep
    PROVE  RecentInv'
<1>1. /\ RowsTyped /\ messages \in SUBSET Message /\ messages' \in SUBSET Message
      /\ uidnext \in Nat /\ uidnext' \in Nat
    BY WhatIsKnown DEF MailboxInv, UidInv, RowsTyped
<1>2. \A ids \in Batches : ids \in SUBSET Ids BY DEF Batches
<1>3. ASSUME NEW ids \in SUBSET Ids, NEW f, NEW t, Copy(ids, Unguarded(ids), f, t) PROVE RecentInv'
    <2>1. PICK uids \in FreshUids(ids), new \in [ids -> Ids \ used] :
            messages' = messages \cup
                {[m EXCEPT !.id = new[m.id], !.uid = uids[m.id], !.folder = t] : m \in In(ids)}
        BY <1>3 DEF Copy
    <2>2. Allocate(Cardinality(ids)) /\ UNCHANGED <<claims, folders>> BY <1>3 DEF Copy
    <2>3. uidnext <= uidnext' /\ \A i \in ids : uids[i] >= uidnext BY <1>1, <2>2, BatchUids
    <2>4. \A m \in messages' : m.uid >= uidnext \/ m \in messages BY <1>1, <2>1, <2>3 DEF In, Message
    <2> QED BY <1>1, <2>2, <2>3, <2>4, FoldersKept
<1>4. ASSUME NEW ids \in SUBSET Ids, NEW f, NEW t, MoveAll(ids, Unguarded(ids), f, t) PROVE RecentInv'
    BY <1>4, RelocateClaimsNothing DEF MoveAll
<1>5. ASSUME NEW ids \in SUBSET Ids, NEW t, MoveSome(ids, t) PROVE RecentInv'
    <2> DEFINE moved == {m.id : m \in {n \in In(ids) : n.folder # t}}
    <2>1. moved \in SUBSET Ids BY DEF In
    <2>2. Relocate(moved, t) BY <1>5 DEF MoveSome
    <2> QED BY <2>1, <2>2, RelocateClaimsNothing
<1>6. ASSUME NEW ids, RemovePermanently(Unguarded(ids), <<>>, FALSE) PROVE RecentInv'
    <2>1. UNCHANGED <<claims, folders, uidnext>> /\ messages' \subseteq messages
        BY <1>6 DEF RemovePermanently
    <2> QED BY <1>1, <2>1, FoldersKept
<1> QED BY <1>2, <1>3, <1>4, <1>5, <1>6 DEF BatchStep

(* A claim tells of each message once and moves the mark above it. *)
LEMMA ClaimOnce ==
    ASSUME MailboxInv, CatalogInv, RecentInv, NEW f \in DOMAIN folders, ListClaiming(f)
    PROVE  RecentInv'
<1> DEFINE told(u) == {m \in RecentIn(f) : m.uid = u}
           C(u) == Cardinality(told(u))
<1>1. /\ claims \in [Uids -> Nat] /\ uidnext \in Nat /\ folders \in Catalogs
      /\ \A m, n \in messages : m.uid = n.uid => m = n
      /\ \A m \in messages : /\ m.uid \in Uids /\ m.uid < uidnext /\ m.folder \in DOMAIN folders
                             /\ folders[m.folder].recent \in Nat
    BY WhatIsKnown DEF OneMessage
<1>2. claims' = [u \in Uids |-> claims[u] + C(u)] /\ UNCHANGED <<uidnext, messages>>
      /\ folders' = [folders EXCEPT ![f].recent = IF @ < uidnext - 1 THEN uidnext - 1 ELSE @]
    BY DEF ListClaiming, ClaimedTo
<1>3. \A u : C(u) = 0 \/ (C(u) = 1 /\ \E m \in RecentIn(f) : m.uid = u)
    <2>1. SUFFICES ASSUME NEW u PROVE C(u) = 0 \/ (C(u) = 1 /\ \E m \in RecentIn(f) : m.uid = u)
        OBVIOUS
    <2>2. \A m, n \in told(u) : m = n BY <1>1 DEF RecentIn
    <2>3. told(u) # {} => \E m \in RecentIn(f) : m.uid = u OBVIOUS
    <2> HIDE DEF told
    <2>6. told(u) = {} \/ \E m \in told(u) : told(u) = {m} BY <2>2
    <2>4. told(u) = {} => C(u) = 0 BY FS_EmptySet
    <2>5. (\E m \in told(u) : told(u) = {m}) => C(u) = 1 BY FS_Singleton
    <2> QED BY <2>3, <2>4, <2>5, <2>6
<1> HIDE DEF C
<1>4. \A m \in messages : m \notin RecentIn(f) => C(m.uid) = 0
    <2>1. \A n \in RecentIn(f) : n \in messages BY DEF RecentIn
    <2> QED BY <1>1, <1>3, <2>1
<1>5. \A m \in RecentIn(f) : m \in messages /\ m.folder = f /\ claims[m.uid] = 0
    <2>1. SUFFICES ASSUME NEW m \in RecentIn(f) PROVE m \in messages /\ m.folder = f /\ claims[m.uid] = 0
        OBVIOUS
    <2>2. m \in messages /\ m.folder = f /\ m.uid > folders[f].recent BY DEF RecentIn
    <2>3. m.uid \in Nat BY <1>1, <2>2 DEF Uids
    <2> QED BY <1>1, <2>2, <2>3 DEF RecentInv
<1>6. ASSUME NEW u \in Uids PROVE claims'[u] <= 1 /\ (u >= uidnext => claims'[u] = 0)
    <2>1. claims'[u] = claims[u] + C(u) /\ claims[u] \in Nat /\ u \in Nat BY <1>1, <1>2 DEF Uids
    <2>2. claims[u] <= 1 /\ (u >= uidnext => claims[u] = 0) BY DEF RecentInv
    <2>3. CASE C(u) = 0 BY <2>1, <2>2, <2>3
    <2>4. CASE C(u) = 1 /\ \E m \in RecentIn(f) : m.uid = u
        <3>1. claims[u] = 0 /\ ~(u >= uidnext) BY <1>1, <1>5, <2>1, <2>4
        <3> QED BY <2>1, <2>4, <3>1
    <2> QED BY <1>3, <2>3, <2>4
<1>7. ASSUME NEW m \in messages, claims'[m.uid] # 0 PROVE m.uid <= folders'[m.folder].recent
    <2>1. m.uid \in Nat /\ m.uid < uidnext /\ folders[m.folder].recent \in Nat BY <1>1 DEF Uids
    <2>2. folders[f] \in FolderRow BY <1>1 DEF Catalogs
    <2>3. CASE m.folder = f
        <3>1. folders'[f].recent = IF folders[f].recent < uidnext - 1 THEN uidnext - 1 ELSE folders[f].recent
            BY <1>2, <2>2 DEF FolderRow
        <3> QED BY <1>1, <2>1, <2>3, <3>1
    <2>4. CASE m.folder # f
        <3>1. C(m.uid) = 0 BY <1>4, <1>5, <2>4
        <3>2. claims'[m.uid] = claims[m.uid] BY <1>1, <1>2, <3>1
        <3>3. folders'[m.folder] = folders[m.folder] BY <1>1, <1>2, <2>4
        <3> QED BY <1>7, <3>2, <3>3 DEF RecentInv
    <2> QED BY <2>3, <2>4
<1> QED BY <1>2, <1>6, <1>7 DEF RecentInv

(* Rows that pruning and completing leave alone. *)
LEMMA SurvivingRow ==
    ASSUME NEW rows, NEW target, NEW f \in DOMAIN rows, f \in DOMAIN Pruned(WithParents(rows, target))
    PROVE  Pruned(WithParents(rows, target))[f] = rows[f]
<1> DEFINE full == WithParents(rows, target)
<1>1. full[f] = rows[f] BY DEF WithParents
<1> HIDE DEF full
<1>2. f \in DOMAIN Pruned(full) => Pruned(full)[f] = full[f] BY DEF Pruned
<1> QED BY <1>1, <1>2 DEF full

LEMMA FolderStepClaimsNothing ==
    ASSUME MailboxInv, CatalogInv, RecentInv, MailboxInv', CatalogInv', FolderStep
    PROVE  RecentInv'
<1>1. /\ messages \in SUBSET Message /\ messages' \in SUBSET Message /\ folders \in Catalogs
      /\ uidnext \in Nat
      /\ \A m \in messages : m.folder \in DOMAIN folders /\ folders[m.folder] \in FolderRow
    BY WhatIsKnown DEF MailboxInv, UidInv, RowsTyped
<1>2. \A m \in messages' : m.folder \in DOMAIN folders' BY DEF CatalogInv, Holds, Boxes
<1>3. UNCHANGED <<claims, uidnext>>
    BY DEF FolderStep, CreateFolder, DeleteFolder, RenameFolder, Subscribe
<1>4. ASSUME \A m \in messages' :
                \E k \in messages : k.uid = m.uid /\ folders'[m.folder].recent = folders[k.folder].recent
      PROVE  RecentInv'
    BY <1>1, <1>3, <1>4, NothingClaimed
<1>5. ASSUME NEW n \in ClientNames, CreateFolder(n) PROVE RecentInv'
    <2> DEFINE rows == WithParents(folders, n)
    <2>1. \A f \in DOMAIN folders : f \in DOMAIN rows /\ rows[f] = folders[f] BY DEF WithParents
    <2>2. folders' = [p \in DOMAIN rows \cup {n} |->
            IF p # n THEN rows[p]
            ELSE IF n \in DOMAIN rows
                 THEN [rows[n] EXCEPT !.selectable = TRUE, !.subscribed = TRUE]
                 ELSE Ordinary]
        BY <1>5 DEF CreateFolder
    <2>3. UNCHANGED messages BY <1>5 DEF CreateFolder
    <2> HIDE DEF rows
    <2>4. \A f \in DOMAIN folders \ {n} : folders'[f] = folders[f] BY <2>1, <2>2
    <2>5. n \in DOMAIN folders => folders'[n].recent = folders[n].recent
        <3>1. SUFFICES ASSUME n \in DOMAIN folders PROVE folders'[n].recent = folders[n].recent OBVIOUS
        <3>2. folders'[n] = [folders[n] EXCEPT !.selectable = TRUE, !.subscribed = TRUE]
            BY <2>1, <2>2, <3>1
        <3>3. folders[n] \in FolderRow BY <1>1, <3>1 DEF Catalogs
        <3> QED BY <3>2, <3>3 DEF FolderRow
    <2> QED BY <1>1, <1>4, <2>3, <2>4, <2>5
<1>6. ASSUME NEW n \in DOMAIN folders, DeleteFolder(n) PROVE RecentInv'
    <2> DEFINE others == DOMAIN folders \ {n}
               kept == [folders EXCEPT ![n].selectable = FALSE, ![n].subscribed = FALSE]
               less == [m \in others |-> folders[m]]
    <2>1. /\ folders' = Pruned(kept) \/ folders' = Pruned(less)
          /\ messages' = messages \ {m \in messages : m.folder = n}
        BY <1>6 DEF DeleteFolder
    <2>2. \A f \in others : kept[f] = folders[f] /\ less[f] = folders[f] OBVIOUS
    <2> HIDE DEF kept, less
    <2>3. \A rows : \A f \in DOMAIN Pruned(rows) : Pruned(rows)[f] = rows[f] BY DEF Pruned
    <2>4. \A m \in messages' : m \in messages /\ m.folder \in others BY <1>1, <2>1
    <2>5. \A m \in messages' : folders'[m.folder] = folders[m.folder]
        <3>1. SUFFICES ASSUME NEW m \in messages' PROVE folders'[m.folder] = folders[m.folder] OBVIOUS
        <3>2. m.folder \in others /\ m.folder \in DOMAIN folders' BY <1>2, <2>4
        <3> HIDE DEF others
        <3> QED BY <2>1, <2>2, <2>3, <3>2
    <2> QED BY <1>4, <2>4, <2>5
<1>7. ASSUME NEW n \in DOMAIN folders, NEW target \in ClientNames, RenameFolder(n, target) PROVE RecentInv'
    <2> DEFINE D == (DOMAIN folders \ Subtree(n)) \cup {Renamed(n, target, m) : m \in Subtree(n)}
    <2>1. PICK rows \in Catalogs :
              /\ folders' = Pruned(WithParents(rows, target))
              /\ DOMAIN rows = D
              /\ \A p \in DOMAIN folders \ Subtree(n) : rows[p] = folders[p]
              /\ \A m \in Subtree(n) : rows[Renamed(n, target, m)] = folders[m]
        BY <1>1, <1>7, RenamedRows
    <2>2. \A f \in DOMAIN folders :
              FolderAfter(n, target, f) \in DOMAIN rows /\ rows[FolderAfter(n, target, f)] = folders[f]
        BY <2>1 DEF FolderAfter
    <2> HIDE DEF D
    <2> DEFINE New(m) == [m EXCEPT !.folder = FolderAfter(n, target, @)]
    <2>3. messages' = {New(m) : m \in messages} BY <1>7 DEF RenameFolder
    <2>4. \A m \in messages : New(m).folder = FolderAfter(n, target, m.folder) /\ New(m).uid = m.uid
        BY <1>1 DEF Message
    <2> HIDE DEF New
    <2>5. ASSUME NEW m \in messages'
          PROVE  \E k \in messages : k.uid = m.uid /\ folders'[m.folder].recent = folders[k.folder].recent
        <3>1. PICK k \in messages : m = New(k) BY <2>3
        <3>2. m.uid = k.uid /\ m.folder = FolderAfter(n, target, k.folder) BY <2>4, <3>1
        <3>3. m.folder \in DOMAIN rows /\ rows[m.folder] = folders[k.folder] BY <1>1, <2>2, <3>2
        <3>4. m.folder \in DOMAIN Pruned(WithParents(rows, target)) BY <1>2, <2>1
        <3>5. folders'[m.folder] = rows[m.folder] BY <2>1, <3>3, <3>4, SurvivingRow
        <3> QED BY <3>2, <3>3, <3>5
    <2> QED BY <1>4, <2>5
<1>8. ASSUME NEW n \in DOMAIN folders, NEW v, Subscribe(n, v) PROVE RecentInv'
    <2>1. UNCHANGED messages /\ folders' = [folders EXCEPT ![n].subscribed = v] BY <1>8 DEF Subscribe
    <2>2. folders[n] \in FolderRow BY <1>1 DEF Catalogs
    <2>3. \A f \in DOMAIN folders : folders'[f].recent = folders[f].recent BY <2>1, <2>2 DEF FolderRow
    <2> QED BY <1>1, <1>4, <2>1, <2>3
<1> QED BY <1>5, <1>6, <1>7, <1>8 DEF FolderStep

LEMMA NextRecentInv ==
    ASSUME MailboxInv, CatalogInv, RecentInv, MailboxInv', CatalogInv', [MailboxNext]_mailboxVars
    PROVE  RecentInv'
<1>1. CASE UNCHANGED mailboxVars BY <1>1 DEF mailboxVars, RecentInv
<1>2. CASE ReadStep
    <2>1. CASE UNCHANGED <<claims, folders, messages, uidnext>> BY <2>1 DEF RecentInv
    <2> QED BY <1>2, <2>1, ClaimOnce DEF ReadStep, ListSizes, SearchMail
<1>3. CASE \E q \in Quotas : SetQuota(q) BY <1>3 DEF SetQuota, RecentInv
<1> QED BY <1>1, <1>2, <1>3, MessageStepClaimsNothing, BatchStepClaimsNothing, FolderStepClaimsNothing
    DEF MailboxNext

(* A message is handed out as recent to one session, once, although it moves,
   its folder is renamed, and others list meanwhile: claim_recent in list.     *)
THEOREM RecentIsOnce == MailboxSpec => []RecentOnce
<1> DEFINE Inv == MailboxInv /\ CatalogInv /\ RecentInv
<1>1. MailboxInit => Inv
    <2>1. MailboxInit => RecentInv BY DEF MailboxInit, RecentInv
    <2> QED BY <2>1, InitMailboxInv, InitCatalogInv
<1>2. Inv /\ [MailboxNext]_mailboxVars => Inv'
    BY NextMailboxInv, NextCatalogInv, NextRecentInv
<1>3. Inv => RecentOnce BY DEF RecentInv, RecentOnce
<1> QED BY <1>1, <1>2, <1>3, PTL DEF MailboxSpec

-----------------------------------------------------------------------------
(* The quota.  Usage is a sum over a set, taken one message at a time in an
   order of which nothing is known; that it can be taken in any order is shown
   by smallest counterexamples, on the number of messages.                   *)

(* A counterexample that a number counts has a least one. *)
LEMMA LeastOf ==
    ASSUME NEW T \in SUBSET Nat, T # {}
    PROVE  \E x \in T : \A y \in Nat : y < x => y \notin T
<1> DEFINE R == OpToRel(<, Nat)
<1>1. IsWellFoundedOn(R, Nat) BY NatLessThanWellFounded
<1>2. \A x, y \in Nat : x < y => <<x, y>> \in R BY DEF OpToRel
<1> HIDE DEF R
<1>3. \E x \in T : \A y \in T : ~(<<y, x>> \in R) BY <1>1, WFMin
<1>4. PICK x \in T : \A y \in T : ~(<<y, x>> \in R) BY <1>3
<1> QED BY <1>2, <1>4

(* What Bytes folds: one message is picked, the others are summed before. *)
Picked(s) == CHOOSE m \in s : TRUE
SumFrom(g, s) == IF s = {} THEN 0 ELSE Picked(s).size + g[s \ {Picked(s)}]
Sums(g, S) == g = [s \in SUBSET S |-> SumFrom(g, s)]
SumOver(S) == CHOOSE g : Sums(g, S)

(* This is what Bytes folds. *)
LEMMA BytesAreSums == ASSUME NEW S PROVE Bytes(S) = SumOver(S)[S]
BY DEF Bytes, FoldSet, MapThenFoldSet, SumOver, Sums, SumFrom, Picked

(* One of the messages is picked, and fewer remain. *)
LEMMA PickedIn == ASSUME NEW s, s # {} PROVE Picked(s) \in s
BY DEF Picked

(* Without it the set is smaller by one. *)
LEMMA OthersAreFewer ==
    ASSUME NEW s, IsFiniteSet(s), s # {}
    PROVE  /\ IsFiniteSet(s \ {Picked(s)}) /\ Cardinality(s) \in Nat
           /\ Cardinality(s \ {Picked(s)}) \in Nat /\ Cardinality(s \ {Picked(s)}) = Cardinality(s) - 1
BY PickedIn, FS_RemoveElement, FS_CardinalityType

(* There is such a sum. *)
LEMMA SumExists ==
    ASSUME NEW S, IsFiniteSet(S)
    PROVE  \E g : Sums(g, S)
<1> DEFINE Small(n) == {s \in SUBSET S : Cardinality(s) <= n}
           Partly(g, n) == g = [s \in Small(n) |-> SumFrom(g, s)]
           T == {n \in Nat : ~ \E g : Partly(g, n)}
<1>1. \A s \in SUBSET S : IsFiniteSet(s) /\ Cardinality(s) \in Nat /\ (Cardinality(s) = 0 <=> s = {})
    BY FS_Subset, FS_CardinalityType, FS_EmptySet
<1>2. ASSUME T # {} PROVE FALSE
    <2>1. PICK n \in T : \A k \in Nat : k < n => k \notin T BY <1>2, LeastOf
    <2>2. n \in Nat /\ ~ \E g : Partly(g, n) OBVIOUS
    <2>3. CASE n = 0
        <3> DEFINE g == [s \in Small(0) |-> 0]
        <3>1. \A s \in Small(0) : SumFrom(g, s) = 0 BY <1>1 DEF SumFrom
        <3>2. Partly(g, 0) BY <3>1
        <3> QED BY <2>2, <2>3, <3>2
    <2>4. CASE n > 0
        <3>1. n - 1 \in Nat /\ n - 1 < n BY <2>2, <2>4
        <3>2. n - 1 \notin T
            <4> HIDE DEF T
            <4> QED BY <2>1, <3>1
        <3>3. PICK g : Partly(g, n - 1) BY <3>1, <3>2
        <3> DEFINE h == [s \in Small(n) |-> SumFrom(g, s)]
        <3>4. ASSUME NEW s \in Small(n) PROVE SumFrom(g, s) = SumFrom(h, s)
            <4>1. CASE s = {} BY <4>1 DEF SumFrom
            <4>2. CASE s # {}
                <5> DEFINE t == s \ {Picked(s)}
                <5>1. t \in Small(n - 1) BY <1>1, <2>2, <4>2, OthersAreFewer
                <5>2. t \in Small(n) BY <1>1, <2>2, <5>1
                <5>3. h[t] = g[t] BY <3>3, <5>1, <5>2
                <5> QED BY <4>2, <5>3 DEF SumFrom
            <4> QED BY <4>1, <4>2
        <3>5. Partly(h, n) BY <3>4
        <3> QED BY <2>2, <3>5
    <2> QED BY <2>2, <2>3, <2>4
<1>3. Cardinality(S) \in Nat /\ \E g : Partly(g, Cardinality(S)) BY <1>1, <1>2
<1>4. Small(Cardinality(S)) = SUBSET S BY FS_Subset
<1> QED BY <1>3, <1>4 DEF Sums

(* It does not depend on what else is summed. *)
LEMMA SumsAgree ==
    ASSUME NEW S, NEW U, IsFiniteSet(S), IsFiniteSet(U), NEW g, NEW h, Sums(g, S), Sums(h, U)
    PROVE  \A s \in (SUBSET S) \cap (SUBSET U) : g[s] = h[s]
<1> DEFINE T == {n \in Nat : \E s \in (SUBSET S) \cap (SUBSET U) : Cardinality(s) = n /\ g[s] # h[s]}
<1>1. \A s \in SUBSET S : IsFiniteSet(s) /\ Cardinality(s) \in Nat BY FS_Subset, FS_CardinalityType
<1>2. \A s \in (SUBSET S) \cap (SUBSET U) : g[s] = SumFrom(g, s) /\ h[s] = SumFrom(h, s) BY DEF Sums
<1>3. ASSUME T # {} PROVE FALSE
    <2>1. PICK n \in T : \A k \in Nat : k < n => k \notin T BY <1>3, LeastOf
    <2>2. PICK s \in (SUBSET S) \cap (SUBSET U) : Cardinality(s) = n /\ g[s] # h[s] BY <2>1
    <2>3. CASE s = {} BY <1>2, <2>2, <2>3 DEF SumFrom
    <2>4. CASE s # {}
        <3> DEFINE t == s \ {Picked(s)}
        <3>1. t \in (SUBSET S) \cap (SUBSET U) /\ Cardinality(t) \in Nat /\ Cardinality(t) < n
            BY <1>1, <2>2, <2>4, OthersAreFewer
        <3>2. Cardinality(t) \notin T BY <2>1, <3>1
        <3>3. g[t] = h[t] BY <3>1, <3>2
        <3> QED BY <1>2, <2>2, <2>4, <3>3 DEF SumFrom
    <2> QED BY <2>3, <2>4
<1> QED BY <1>1, <1>3

(* So Bytes can be computed one message at a time. *)
LEMMA BytesStep ==
    ASSUME NEW S, IsFiniteSet(S)
    PROVE  Bytes(S) = IF S = {} THEN 0 ELSE Picked(S).size + Bytes(S \ {Picked(S)})
<1>1. Sums(SumOver(S), S) BY SumExists DEF SumOver
<1>2. SumOver(S)[S] = SumFrom(SumOver(S), S) BY <1>1 DEF Sums
<1>3. CASE S = {} BY <1>2, <1>3, BytesAreSums DEF SumFrom
<1>4. CASE S # {}
    <2> DEFINE t == S \ {Picked(S)}
    <2>1. IsFiniteSet(t) BY <1>4, OthersAreFewer
    <2>2. Sums(SumOver(t), t) BY <2>1, SumExists DEF SumOver
    <2>3. SumOver(S)[t] = SumOver(t)[t] BY <1>1, <2>1, <2>2, SumsAgree
    <2>4. Bytes(t) = SumOver(S)[t] BY <2>3, BytesAreSums
    <2> QED BY <1>2, <1>4, <2>4, BytesAreSums DEF SumFrom
<1> QED BY <1>3, <1>4

(* A message has some bytes. *)
LEMMA SizesAreNumbers == \A m \in Message : m.size \in Nat /\ m.size > 0
<1>1. \A m \in Message : m.size \in Sizes BY DEF Message
<1>2. \A n \in Sizes : n \in Nat /\ n > 0 BY MailboxAssumption DEF MailboxAssumption
<1> QED BY <1>1, <1>2

(* Usage is a number. *)
LEMMA BytesType ==
    ASSUME NEW S \in SUBSET Message, IsFiniteSet(S)
    PROVE  Bytes(S) \in Nat
<1> DEFINE T == {n \in Nat : \E s \in SUBSET S : Cardinality(s) = n /\ Bytes(s) \notin Nat}
<1>1. \A s \in SUBSET S : IsFiniteSet(s) /\ Cardinality(s) \in Nat BY FS_Subset, FS_CardinalityType
<1>2. ASSUME T # {} PROVE FALSE
    <2>1. PICK n \in T : \A k \in Nat : k < n => k \notin T BY <1>2, LeastOf
    <2>2. PICK s \in SUBSET S : Cardinality(s) = n /\ Bytes(s) \notin Nat BY <2>1
    <2>3. s # {} BY <1>1, <2>2, BytesStep
    <2> DEFINE t == s \ {Picked(s)}
    <2>4. t \in SUBSET S /\ Cardinality(t) \in Nat /\ Cardinality(t) < n BY <1>1, <2>2, <2>3, OthersAreFewer
    <2>5. Cardinality(t) \notin T BY <2>1, <2>4
    <2>6. Bytes(t) \in Nat BY <2>4, <2>5
    <2>7. Picked(s).size \in Nat BY <2>2, <2>3, PickedIn, SizesAreNumbers
    <2>8. Bytes(s) = Picked(s).size + Bytes(t) BY <1>1, <2>3, BytesStep
    <2> QED BY <2>2, <2>6, <2>7, <2>8
<1>3. S \in SUBSET S OBVIOUS
<1> QED BY <1>1, <1>2, <1>3

(* A message can be counted first, whichever is picked. *)
LEMMA BytesWithout ==
    ASSUME NEW S \in SUBSET Message, IsFiniteSet(S), NEW m \in S
    PROVE  Bytes(S) = m.size + Bytes(S \ {m})
<1> DEFINE T == {n \in Nat : \E s \in SUBSET S : \E x \in s : Cardinality(s) = n /\ Bytes(s) # x.size + Bytes(s \ {x})}
<1>1. \A s \in SUBSET S : IsFiniteSet(s) /\ Cardinality(s) \in Nat /\ Bytes(s) \in Nat
    BY FS_Subset, FS_CardinalityType, BytesType
<1>2. ASSUME T # {} PROVE FALSE
    <2>1. PICK n \in T : \A k \in Nat : k < n => k \notin T BY <1>2, LeastOf
    <2>2. PICK s \in SUBSET S : \E x \in s : Cardinality(s) = n /\ Bytes(s) # x.size + Bytes(s \ {x}) BY <2>1
    <2>3. PICK x \in s : Cardinality(s) = n /\ Bytes(s) # x.size + Bytes(s \ {x}) BY <2>2
    <2> DEFINE y == Picked(s)
               t == s \ {y}
    <2>4. y \in s /\ Bytes(s) = y.size + Bytes(t) BY <1>1, BytesStep, PickedIn
    <2>5. x # y BY <2>3, <2>4
    <2> HIDE DEF y
    <2>6. /\ IsFiniteSet(s) /\ Cardinality(s) \in Nat
          /\ Cardinality(t) = Cardinality(s) - 1 /\ Cardinality(s \ {x}) = Cardinality(s) - 1
        BY <1>1, <2>3, <2>4, FS_RemoveElement
    <2>7. /\ t \in SUBSET S /\ Cardinality(t) \in Nat /\ Cardinality(t) < n /\ x \in t
          /\ s \ {x} \in SUBSET S /\ Cardinality(s \ {x}) \in Nat /\ Cardinality(s \ {x}) < n /\ y \in s \ {x}
        BY <1>1, <2>3, <2>4, <2>5, <2>6
    <2>8. Cardinality(t) \notin T /\ Cardinality(s \ {x}) \notin T
        <3> HIDE DEF T
        <3> QED BY <2>1, <2>7
    <2>9. Bytes(t) = x.size + Bytes(t \ {x}) BY <2>7, <2>8
    <2>10. Bytes(s \ {x}) = y.size + Bytes((s \ {x}) \ {y}) BY <2>7, <2>8
    <2>11. t \ {x} = (s \ {x}) \ {y} /\ t \ {x} \in SUBSET S OBVIOUS
    <2>12. Bytes(t \ {x}) \in Nat /\ x.size \in Nat /\ y.size \in Nat
        BY <1>1, <2>4, <2>11, SizesAreNumbers
    <2> HIDE DEF t
    <2>13. Bytes(s) = x.size + Bytes(s \ {x}) BY <2>4, <2>9, <2>10, <2>11, <2>12
    <2> QED BY <2>3, <2>13
<1>3. S \in SUBSET S OBVIOUS
<1> QED BY <1>1, <1>2, <1>3

(* More messages, more bytes: one more, and those of two sets. *)
LEMMA BytesWith ==
    ASSUME NEW S \in SUBSET Message, IsFiniteSet(S), NEW m \in Message, m \notin S
    PROVE  Bytes(S \cup {m}) = Bytes(S) + m.size
<1>1. S \cup {m} \in SUBSET Message /\ IsFiniteSet(S \cup {m}) /\ (S \cup {m}) \ {m} = S BY FS_AddElement
<1>2. m \in S \cup {m} OBVIOUS
<1>3. Bytes(S \cup {m}) = m.size + Bytes(S) BY <1>1, <1>2, BytesWithout
<1> QED BY <1>3, BytesType, SizesAreNumbers

(* Usage of mail in two parts. *)
LEMMA BytesUnion ==
    ASSUME NEW S \in SUBSET Message, NEW U \in SUBSET Message, IsFiniteSet(S), IsFiniteSet(U), S \cap U = {}
    PROVE  Bytes(S \cup U) = Bytes(S) + Bytes(U)
<1> DEFINE T == {n \in Nat : \E u \in SUBSET U : Cardinality(u) = n /\ Bytes(S \cup u) # Bytes(S) + Bytes(u)}
<1>1. \A u \in SUBSET U : IsFiniteSet(u) /\ Cardinality(u) \in Nat /\ IsFiniteSet(S \cup u)
    BY FS_Subset, FS_CardinalityType, FS_Union
<1>2. ASSUME T # {} PROVE FALSE
    <2>1. PICK n \in T : \A k \in Nat : k < n => k \notin T BY <1>2, LeastOf
    <2>2. PICK u \in SUBSET U : Cardinality(u) = n /\ Bytes(S \cup u) # Bytes(S) + Bytes(u) BY <2>1
    <2>3. u # {}
        <3>1. Bytes({}) = 0 BY FS_EmptySet, BytesStep
        <3>2. S \cup {} = S /\ Bytes(S) \in Nat BY BytesType
        <3> QED BY <2>2, <3>1, <3>2
    <2>4. PICK x \in u : TRUE BY <2>3
    <2> DEFINE v == u \ {x}
    <2>5. v \in SUBSET U /\ Cardinality(v) \in Nat /\ Cardinality(v) < n
        <3>1. IsFiniteSet(u) /\ Cardinality(u) \in Nat /\ v \in SUBSET U BY <1>1, <2>2
        <3>2. Cardinality(v) = Cardinality(u) - 1 BY <2>4, <3>1, FS_RemoveElement
        <3>3. Cardinality(v) \in Nat BY <1>1, <3>1
        <3> QED BY <2>2, <3>1, <3>2, <3>3
    <2>6. Cardinality(v) \notin T
        <3> HIDE DEF T
        <3> QED BY <2>1, <2>5
    <2>7. Bytes(S \cup v) = Bytes(S) + Bytes(v) BY <2>5, <2>6
    <2>8. (S \cup u) \ {x} = S \cup v /\ x \in S \cup u /\ S \cup u \in SUBSET Message /\ u \in SUBSET Message
        BY <2>2, <2>4
    <2>9. Bytes(S \cup u) = x.size + Bytes(S \cup v)
        <3>1. IsFiniteSet(S \cup u) BY <1>1, <2>2
        <3>2. Bytes(S \cup u) = x.size + Bytes((S \cup u) \ {x}) BY <2>8, <3>1, BytesWithout
        <3> QED BY <2>8, <3>2
    <2>10. Bytes(u) = x.size + Bytes(v)
        <3>1. IsFiniteSet(u) BY <1>1, <2>2
        <3> QED BY <2>4, <2>8, <3>1, BytesWithout
    <2>11. Bytes(S) \in Nat /\ Bytes(v) \in Nat /\ x.size \in Nat
        BY <1>1, <2>5, <2>8, BytesType, SizesAreNumbers
    <2> HIDE DEF v
    <2> QED BY <2>2, <2>7, <2>9, <2>10, <2>11
<1>3. U \in SUBSET U OBVIOUS
<1> QED BY <1>1, <1>2, <1>3

(* Fewer messages take no more bytes. *)
LEMMA BytesOfFewer ==
    ASSUME NEW S \in SUBSET Message, IsFiniteSet(S), NEW U \in SUBSET S
    PROVE  Bytes(U) <= Bytes(S) /\ Bytes(U) \in Nat /\ Bytes(S) \in Nat
<1>1. /\ IsFiniteSet(U) /\ IsFiniteSet(S \ U) /\ U \in SUBSET Message /\ S \ U \in SUBSET Message
      /\ U \cup (S \ U) = S /\ U \cap (S \ U) = {}
    BY FS_Subset
<1>2. Bytes(S) = Bytes(U) + Bytes(S \ U) BY <1>1, BytesUnion
<1>3. Bytes(U) \in Nat /\ Bytes(S \ U) \in Nat BY <1>1, BytesType
<1> QED BY <1>2, <1>3

(* Copies of the same sizes take as many bytes. *)
SameSizes(f, S) == \A x \in S : f[x].size = x.size
ImageOf(f, S) == {f[x] : x \in S}

(* Leaving out a message leaves out its copy. *)
LEMMA ImageWithout ==
    ASSUME NEW S, NEW D, NEW f \in [S -> D], \A x, y \in S : f[x] = f[y] => x = y,
           NEW s \in SUBSET S, NEW x \in s
    PROVE  ImageOf(f, s \ {x}) = ImageOf(f, s) \ {f[x]} /\ f[x] \in ImageOf(f, s)
BY DEF ImageOf

(* All of them together. *)
LEMMA BytesOfImage ==
    ASSUME NEW S \in SUBSET Message, IsFiniteSet(S), NEW f \in [S -> Message], SameSizes(f, S),
           \A x, y \in S : f[x] = f[y] => x = y
    PROVE  /\ Bytes(ImageOf(f, S)) = Bytes(S)
           /\ ImageOf(f, S) \in SUBSET Message /\ IsFiniteSet(ImageOf(f, S))
           /\ Cardinality(ImageOf(f, S)) = Cardinality(S)
<1> DEFINE T == {n \in Nat : \E s \in SUBSET S : Cardinality(s) = n /\ Bytes(ImageOf(f, s)) # Bytes(s)}
<1>1. \A s \in SUBSET S : IsFiniteSet(s) /\ Cardinality(s) \in Nat BY FS_Subset, FS_CardinalityType
<1>2. \A s \in SUBSET S : ImageOf(f, s) \in SUBSET Message BY DEF ImageOf
<1>3. \A s \in SUBSET S : IsFiniteSet(ImageOf(f, s)) /\ Cardinality(ImageOf(f, s)) = Cardinality(s)
    <2> SUFFICES ASSUME NEW s \in SUBSET S
                 PROVE  IsFiniteSet(ImageOf(f, s)) /\ Cardinality(ImageOf(f, s)) = Cardinality(s)
        OBVIOUS
    <2> DEFINE g == [x \in s |-> f[x]]
    <2>1. g \in Bijection(s, ImageOf(f, s))
        BY DEF Bijection, Injection, Surjection, ImageOf, IsInjective
    <2>2. ExistsBijection(s, ImageOf(f, s)) BY <2>1 DEF ExistsBijection
    <2> QED BY <1>1, <2>2, FS_Bijection
<1>4. ASSUME T # {} PROVE FALSE
    <2>1. PICK n \in T : \A k \in Nat : k < n => k \notin T BY <1>4, LeastOf
    <2>2. PICK s \in SUBSET S : Cardinality(s) = n /\ Bytes(ImageOf(f, s)) # Bytes(s) BY <2>1
    <2>3. s # {}
        <3>1. ImageOf(f, {}) = {} BY DEF ImageOf
        <3> QED BY <2>2, <3>1
    <2>4. PICK x \in s : TRUE BY <2>3
    <2> DEFINE v == s \ {x}
    <2>5. v \in SUBSET S /\ Cardinality(v) \in Nat /\ Cardinality(v) < n
        <3>1. IsFiniteSet(s) /\ Cardinality(s) \in Nat /\ v \in SUBSET S BY <1>1, <2>2
        <3>2. Cardinality(v) = Cardinality(s) - 1 BY <2>4, <3>1, FS_RemoveElement
        <3>3. Cardinality(v) \in Nat BY <1>1, <3>1
        <3> QED BY <2>2, <3>1, <3>2, <3>3
    <2>6. Cardinality(v) \notin T
        <3> HIDE DEF T
        <3> QED BY <2>1, <2>5
    <2>7. Bytes(ImageOf(f, v)) = Bytes(v) BY <2>5, <2>6
    <2>8. ImageOf(f, v) = ImageOf(f, s) \ {f[x]} /\ f[x] \in ImageOf(f, s) BY <2>4, ImageWithout
    <2>9. Bytes(s) = x.size + Bytes(v) BY <1>1, <2>4, BytesWithout
    <2>10. Bytes(ImageOf(f, s)) = f[x].size + Bytes(ImageOf(f, v))
        <3>1. ImageOf(f, s) \in SUBSET Message /\ IsFiniteSet(ImageOf(f, s)) BY <1>2, <1>3
        <3>2. Bytes(ImageOf(f, s)) = f[x].size + Bytes(ImageOf(f, s) \ {f[x]}) BY <2>8, <3>1, BytesWithout
        <3> QED BY <2>8, <3>2
    <2>11. f[x].size = x.size BY <2>4 DEF SameSizes
    <2> QED BY <2>2, <2>7, <2>9, <2>10, <2>11
<1>5. S \in SUBSET S OBVIOUS
<1> QED BY <1>1, <1>2, <1>3, <1>4, <1>5

(* There are at most as many messages as identifiers. *)
LEMMA MailIsFinite ==
    ASSUME NEW S \in SUBSET Message, \A m, n \in S : m.id = n.id => m = n
    PROVE  /\ IsFiniteSet(S) /\ Cardinality(S) \in Nat /\ Bytes(S) \in Nat
           /\ \A U \in SUBSET S : IsFiniteSet(U) /\ Cardinality(U) \in Nat /\ Bytes(U) \in Nat
<1> DEFINE f == [m \in S |-> m.id]
<1>1. \A m \in S : m.id \in Ids BY DEF Message
<1>2. f \in Injection(S, Ids) BY <1>1 DEF Injection, IsInjective
<1>3. IsFiniteSet(Ids) BY MailboxAssumption DEF MailboxAssumption
<1>4. IsFiniteSet(S) BY <1>2, <1>3, FS_Injection
<1>5. \A U \in SUBSET S : IsFiniteSet(U) /\ Cardinality(U) \in Nat /\ Bytes(U) \in Nat
    BY <1>4, FS_Subset, FS_CardinalityType, BytesType
<1>6. S \in SUBSET S OBVIOUS
<1> QED BY <1>4, <1>5, <1>6

(* Usage does not grow beyond the quotas. *)
Within ==
    /\ Bytes(messages') > Bytes(messages) => Bytes(messages') <= quota
    /\ Cardinality(messages') > Cardinality(messages) => Cardinality(messages') <= MaxMessages

(* Messages each of which was there, perhaps elsewhere or under another UID. *)
LEMMA OriginsBound ==
    ASSUME NEW S \in SUBSET Message, IsFiniteSet(S),
           NEW U \in SUBSET Message, IsFiniteSet(U), NEW f \in [S -> U], SameSizes(f, S),
           \A x, y \in S : f[x] = f[y] => x = y
    PROVE  Bytes(S) <= Bytes(U) /\ Cardinality(S) <= Cardinality(U)
<1>1. f \in [S -> Message] OBVIOUS
<1>2. ImageOf(f, S) \in SUBSET U BY DEF ImageOf
<1>3. Bytes(ImageOf(f, S)) = Bytes(S) /\ Cardinality(ImageOf(f, S)) = Cardinality(S) BY <1>1, BytesOfImage
<1>4. Bytes(ImageOf(f, S)) <= Bytes(U) BY <1>2, BytesOfFewer
<1>5. Cardinality(ImageOf(f, S)) <= Cardinality(U) BY <1>2, FS_Subset
<1> QED BY <1>3, <1>4, <1>5

(* The mail before and after a step. *)
LEMMA BothAreFinite ==
    ASSUME UidInv, UidInv'
    PROVE  /\ messages \in SUBSET Message /\ messages' \in SUBSET Message
           /\ \A m, n \in messages : m.id = n.id => m = n
           /\ \A m, n \in messages' : m.id = n.id => m = n
           /\ IsFiniteSet(messages) /\ Cardinality(messages) \in Nat /\ Bytes(messages) \in Nat
           /\ IsFiniteSet(messages') /\ Cardinality(messages') \in Nat /\ Bytes(messages') \in Nat
<1>1. /\ messages \in SUBSET Message /\ \A m, n \in messages : m.id = n.id => m = n
      /\ messages' \in SUBSET Message /\ \A m, n \in messages' : m.id = n.id => m = n
    BY DEF UidInv, RowsTyped, OneMessage
<1> QED BY <1>1, MailIsFinite

(* A step after which each message was there before, with its content. *)
LEMMA NothingNew ==
    ASSUME UidInv, UidInv', \A n \in messages' : \E m \in messages : m.id = n.id /\ m.size = n.size
    PROVE  Within
<1> DEFINE f == [n \in messages' |-> CHOOSE m \in messages : m.id = n.id /\ m.size = n.size]
<1>1. f \in [messages' -> messages] /\ \A n \in messages' : f[n].id = n.id /\ f[n].size = n.size OBVIOUS
<1> HIDE DEF f
<1>2. \A k, n \in messages' : f[k] = f[n] => k = n BY <1>1, BothAreFinite
<1>3. SameSizes(f, messages') BY <1>1 DEF SameSizes
<1>4. Bytes(messages') <= Bytes(messages) /\ Cardinality(messages') <= Cardinality(messages)
    BY <1>1, <1>2, <1>3, BothAreFinite, OriginsBound
<1> QED BY <1>4, BothAreFinite DEF Within

(* deliver, append and the Sent copy. *)
LEMMA InsertFits ==
    ASSUME UidInv, UidInv', quota \in Nat, NEW id, NEW f, NEW size \in Sizes, NEW deleted, Insert(id, f, size, deleted)
    PROVE  Within
<1> DEFINE m == [id |-> id, uid |-> uidnext, folder |-> f, size |-> size, deleted |-> deleted]
<1>1. messages' = messages \cup {m} /\ id \notin used /\ FitsQuota(size, 1) BY DEF Insert
<1>2. m.id = id /\ m.size = size OBVIOUS
<1> HIDE DEF m
<1>3. m \in Message /\ m \notin messages
    <2>1. m \in messages' BY <1>1
    <2> QED BY <1>1, <1>2, <2>1, BothAreFinite DEF UidInv, FreshIsUnused
<1>4. Bytes(messages') = Bytes(messages) + size BY <1>1, <1>2, <1>3, BothAreFinite, BytesWith
<1>5. Cardinality(messages') = Cardinality(messages) + 1 BY <1>1, <1>3, BothAreFinite, FS_AddElement
<1>6. size \in Nat /\ size > 0 BY MailboxAssumption DEF MailboxAssumption
<1>7. Bytes(messages) + size <= quota /\ Cardinality(messages) + 1 <= MaxMessages BY <1>1, <1>6 DEF FitsQuota
<1> QED BY <1>4, <1>5, <1>7 DEF Within

(* draft_save: only the growth is asked for. *)
LEMMA RewriteFits ==
    ASSUME UidInv, UidInv', quota \in Nat, NEW id, NEW uid, NEW f, NEW size \in Sizes, Rewrite(id, uid, f, size)
    PROVE  Within
<1> DEFINE Version(m) == [m EXCEPT !.uid = RewriteUid(m), !.size = size, !.folder = f]
<1>1. PICK old \in In({id}) :
          messages' = (messages \ {old}) \cup {Version(old)} /\ FitsQuota(size - old.size, 0)
    BY DEF Rewrite
<1>2. old \in messages /\ old \in Message BY BothAreFinite DEF In
<1>3. Version(old).id = old.id /\ Version(old).size = size BY <1>2 DEF Message
<1> DEFINE m == Version(old)
           rest == messages \ {old}
<1> HIDE DEF Version
<1>4. messages' = rest \cup {m} BY <1>1
<1>5. m \in Message /\ m \notin rest
    <2>1. m \in messages' BY <1>4
    <2> QED BY <1>2, <1>3, <2>1, BothAreFinite
<1>6. rest \in SUBSET Message /\ IsFiniteSet(rest) /\ Bytes(rest) \in Nat /\ Cardinality(rest) = Cardinality(messages) - 1
    <2>1. rest \in SUBSET messages /\ rest \in SUBSET Message BY BothAreFinite
    <2>2. IsFiniteSet(rest) /\ Bytes(rest) \in Nat BY <2>1, BothAreFinite, MailIsFinite
    <2> QED BY <1>2, <2>1, <2>2, BothAreFinite, FS_RemoveElement
<1>7. Bytes(messages) = old.size + Bytes(rest) BY <1>2, BothAreFinite, BytesWithout
<1> HIDE DEF rest, m
<1>8. Bytes(messages') = Bytes(rest) + size BY <1>3, <1>4, <1>5, <1>6, BytesWith DEF m
<1>9. Cardinality(messages') = Cardinality(messages)
    <2>1. Cardinality(messages') = Cardinality(rest) + 1 BY <1>4, <1>5, <1>6, FS_AddElement
    <2> QED BY <1>6, <2>1, BothAreFinite
<1>10. old.size \in Nat /\ size \in Nat BY <1>2, SizesAreNumbers, MailboxAssumption DEF MailboxAssumption
<1>11. size - old.size <= 0 \/ Bytes(messages) + (size - old.size) <= quota BY <1>1 DEF FitsQuota
<1>12. Bytes(messages') > Bytes(messages) => Bytes(messages') <= quota BY <1>6, <1>7, <1>8, <1>10, <1>11
<1> QED BY <1>9, <1>12, BothAreFinite DEF Within

(* copy: the batch is asked for as a whole. *)
LEMMA CopyFits ==
    ASSUME UidInv, UidInv', quota \in Nat, NEW ids \in SUBSET Ids, NEW expected, NEW source, NEW target,
           Copy(ids, expected, source, target)
    PROVE  Within
<1>1. PICK uids \in FreshUids(ids), new \in [ids -> Ids \ used] :
          LET copies == {[m EXCEPT !.id = new[m.id], !.uid = uids[m.id], !.folder = target] : m \in In(ids)} IN
          /\ \A i, j \in ids : new[i] = new[j] => i = j
          /\ messages' = messages \cup copies
          /\ Index(copies)
          /\ used' = used \cup {new[i] : i \in ids}
          /\ Give(copies)
    BY DEF Copy
<1> DEFINE Twin(m) == [m EXCEPT !.id = new[m.id], !.uid = uids[m.id], !.folder = target]
           copies == {Twin(m) : m \in In(ids)}
           origin == [n \in copies |-> CHOOSE m \in In(ids) : n = Twin(m)]
<1>2. messages' = messages \cup copies BY <1>1
<1>3. In(ids) \in SUBSET messages /\ \A m \in In(ids) : m \in Message /\ m.id \in ids BY BothAreFinite DEF In
<1>4. \A m \in In(ids) : Twin(m).id = new[m.id] /\ Twin(m).size = m.size BY <1>3 DEF Message
<1> HIDE DEF Twin
<1>5. origin \in [copies -> In(ids)] /\ \A n \in copies : origin[n] \in In(ids) /\ n = Twin(origin[n])
    <2>1. \A n \in copies : \E m \in In(ids) : n = Twin(m) OBVIOUS
    <2>2. \A n \in copies : origin[n] \in In(ids) /\ n = Twin(origin[n]) BY <2>1, Zenon
    <2> QED BY <2>2
<1> HIDE DEF copies, origin
<1>6. copies \in SUBSET Message /\ copies \cap messages = {}
    <2>1. ASSUME NEW n \in copies PROVE n.id \notin used
        <3>1. origin[n] \in In(ids) /\ n = Twin(origin[n]) BY <1>5
        <3>2. n.id = new[origin[n].id] BY <1>4, <3>1
        <3>3. new[origin[n].id] \in Ids \ used BY <1>3, <3>1
        <3> QED BY <3>2, <3>3
    <2> QED BY <1>2, <2>1, BothAreFinite DEF UidInv, FreshIsUnused
<1>7. IsFiniteSet(copies) /\ IsFiniteSet(In(ids)) /\ Bytes(In(ids)) \in Nat /\ Cardinality(In(ids)) \in Nat
      /\ Bytes(copies) \in Nat /\ Cardinality(copies) \in Nat
    <2>1. copies \in SUBSET messages' BY <1>2
    <2> QED BY <1>3, <2>1, BothAreFinite, MailIsFinite
<1>8. Bytes(copies) <= Bytes(In(ids)) /\ Cardinality(copies) <= Cardinality(In(ids))
    <2>1. SameSizes(origin, copies) BY <1>4, <1>5 DEF SameSizes
    <2>2. \A k, n \in copies : origin[k] = origin[n] => k = n BY <1>5
    <2>3. In(ids) \in SUBSET Message BY <1>3
    <2> QED BY <1>5, <1>6, <1>7, <2>1, <2>2, <2>3, OriginsBound
<1>9. Bytes(messages') = Bytes(messages) + Bytes(copies) BY <1>2, <1>6, <1>7, BothAreFinite, BytesUnion
<1>10. Cardinality(messages') = Cardinality(messages) + Cardinality(copies)
    <2>1. Cardinality(messages \cap copies) = 0 BY <1>6, FS_EmptySet
    <2>2. Cardinality(messages \cup copies)
          = Cardinality(messages) + Cardinality(copies) - Cardinality(messages \cap copies)
        BY <1>7, BothAreFinite, FS_Union
    <2> QED BY <1>2, <1>7, <2>1, <2>2, BothAreFinite
<1>11. /\ Bytes(In(ids)) <= 0 \/ Bytes(messages) + Bytes(In(ids)) <= quota
       /\ Cardinality(ids) <= 0 \/ Cardinality(messages) + Cardinality(ids) <= MaxMessages
    BY DEF Copy, AllFit, FitsQuota
<1>12. Cardinality(In(ids)) <= Cardinality(ids) /\ Cardinality(ids) \in Nat
    <2> DEFINE name == [m \in In(ids) |-> m.id]
    <2>1. IsFiniteSet(ids) /\ Cardinality(ids) \in Nat
        BY FS_Subset, FS_CardinalityType, MailboxAssumption DEF MailboxAssumption
    <2>2. \A k, n \in In(ids) : name[k] = name[n] => k = n BY <1>3, BothAreFinite
    <2>3. name \in [In(ids) -> ids] BY <1>3
    <2>4. name \in Injection(In(ids), ids) BY <2>2, <2>3 DEF Injection, IsInjective
    <2> QED BY <2>1, <2>4, FS_Injection
<1>13. MaxMessages \in Nat BY MailboxAssumption DEF MailboxAssumption
<1>14. Bytes(messages') > Bytes(messages) => Bytes(messages') <= quota
    BY <1>7, <1>8, <1>9, <1>11, BothAreFinite
<1>15. Cardinality(messages') > Cardinality(messages) => Cardinality(messages') <= MaxMessages
    BY <1>7, <1>8, <1>10, <1>11, <1>12, <1>13, BothAreFinite
<1> QED BY <1>14, <1>15 DEF Within

(* A message that moves keeps its identifier and its content. *)
LEMMA RelocateFits ==
    ASSUME UidInv, UidInv', NEW ids \in SUBSET Ids, NEW target, Relocate(ids, target)
    PROVE  Within
<1>1. PICK uids \in FreshUids(ids) :
          messages' = (messages \ In(ids)) \cup {[m EXCEPT !.uid = uids[m.id], !.folder = target] : m \in In(ids)}
    BY DEF Relocate
<1> DEFINE Moved(m) == [m EXCEPT !.uid = uids[m.id], !.folder = target]
<1>2. \A m \in In(ids) : m \in messages /\ Moved(m).id = m.id /\ Moved(m).size = m.size
    BY BothAreFinite DEF In, Message
<1>3. messages' = (messages \ In(ids)) \cup {Moved(m) : m \in In(ids)} BY <1>1
<1> HIDE DEF Moved
<1>4. ASSUME NEW n \in messages' PROVE \E m \in messages : m.id = n.id /\ m.size = n.size
    <2>1. CASE n \in messages \ In(ids) BY <2>1
    <2>2. CASE \E m \in In(ids) : n = Moved(m) BY <1>2, <2>2
    <2> QED BY <1>3, <2>1, <2>2
<1> QED BY <1>4, NothingNew

(* Steps that take messages away, or none. *)
LEMMA FewerFit == ASSUME UidInv, UidInv', messages' \in SUBSET messages PROVE Within
BY NothingNew

(* Calls about one message. *)
LEMMA MessageStepFits ==
    ASSUME UidInv, UidInv', quota \in Nat, MessageStep
    PROVE  Within
<1>1. PICK i \in Ids :
          \/ \E f \in DOMAIN folders, s \in Sizes, d \in BOOLEAN : Insert(i, f, s, d)
          \/ \E f \in {Drafts, Sent}, s \in Sizes : Rewrite(i, 0, f, s)
          \/ \E d \in BOOLEAN : SetDeleted(i, 0, <<>>, d)
    BY DEF MessageStep
<1>2. CASE \E f \in DOMAIN folders, s \in Sizes, d \in BOOLEAN : Insert(i, f, s, d) BY <1>2, InsertFits
<1>3. CASE \E f \in {Drafts, Sent}, s \in Sizes : Rewrite(i, 0, f, s) BY <1>3, RewriteFits
<1>4. CASE \E d \in BOOLEAN : SetDeleted(i, 0, <<>>, d)
    <2>1. PICK d \in BOOLEAN, m \in In({i}) : messages' = (messages \ {m}) \cup {[m EXCEPT !.deleted = d]}
        BY <1>4 DEF SetDeleted
    <2>2. m \in messages /\ [m EXCEPT !.deleted = d].id = m.id /\ [m EXCEPT !.deleted = d].size = m.size
        BY BothAreFinite DEF In, Message
    <2>3. \A n \in messages' : \E k \in messages : k.id = n.id /\ k.size = n.size BY <2>1, <2>2
    <2> QED BY <2>3, NothingNew
<1> QED BY <1>1, <1>2, <1>3, <1>4

(* Calls about several. *)
LEMMA BatchStepFits ==
    ASSUME UidInv, UidInv', quota \in Nat, BatchStep
    PROVE  Within
<1>1. PICK ids \in SUBSET Ids :
          \/ \E f, t \in DOMAIN folders :
                Copy(ids, Unguarded(ids), f, t) \/ MoveAll(ids, Unguarded(ids), f, t)
          \/ \E t \in DOMAIN folders : MoveSome(ids, t)
          \/ RemovePermanently(Unguarded(ids), <<>>, FALSE)
    BY DEF BatchStep, Batches
<1>2. CASE \E f, t \in DOMAIN folders : Copy(ids, Unguarded(ids), f, t) BY <1>2, CopyFits
<1>3. CASE \E f, t \in DOMAIN folders : MoveAll(ids, Unguarded(ids), f, t) BY <1>3, RelocateFits DEF MoveAll
<1>4. CASE \E t \in DOMAIN folders : MoveSome(ids, t)
    <2>1. PICK t \in DOMAIN folders : MoveSome(ids, t) BY <1>4
    <2> DEFINE some == {m.id : m \in {k \in In(ids) : k.folder # t}}
    <2>2. some \in SUBSET Ids BY BothAreFinite DEF In, Message
    <2>3. Relocate(some, t) BY <2>1 DEF MoveSome
    <2> HIDE DEF some
    <2> QED BY <2>2, <2>3, RelocateFits
<1>5. CASE RemovePermanently(Unguarded(ids), <<>>, FALSE) BY <1>5, FewerFit DEF RemovePermanently
<1> QED BY <1>1, <1>2, <1>3, <1>4, <1>5

(* Folder operations move mail or delete it. *)
LEMMA FolderStepFits ==
    ASSUME UidInv, UidInv', FolderStep
    PROVE  Within
<1>1. CASE \E n \in ClientNames : CreateFolder(n) BY <1>1, FewerFit DEF CreateFolder
<1>2. CASE \E n \in DOMAIN folders : DeleteFolder(n) BY <1>2, FewerFit DEF DeleteFolder
<1>3. CASE \E n \in DOMAIN folders, t \in ClientNames : RenameFolder(n, t)
    <2>1. PICK n \in DOMAIN folders, t \in ClientNames : RenameFolder(n, t) BY <1>3
    <2> DEFINE There(m) == [m EXCEPT !.folder = FolderAfter(n, t, m.folder)]
    <2>2. messages' = {There(m) : m \in messages} BY <2>1 DEF RenameFolder
    <2>3. \A m \in messages : There(m).id = m.id /\ There(m).size = m.size BY BothAreFinite DEF Message
    <2> HIDE DEF There
    <2>4. \A k \in messages' : \E m \in messages : m.id = k.id /\ m.size = k.size BY <2>2, <2>3
    <2> QED BY <2>4, NothingNew
<1>4. CASE \E n \in DOMAIN folders, v \in BOOLEAN : Subscribe(n, v) BY <1>4, FewerFit DEF Subscribe
<1> QED BY <1>1, <1>2, <1>3, <1>4 DEF FolderStep

(* However a batch is made up and whatever quota was set before it, usage only grows within the    *)
(* quota: quota_available before deliver, append, copy and draft_save store anything.              *)
THEOREM UsageStaysWithinQuota == MailboxSpec => GrowsWithinQuota
<1>1. ASSUME MailboxInv, MailboxInv', [MailboxNext]_mailboxVars PROVE Within
    <2>1. UidInv /\ UidInv' /\ quota \in Nat BY <1>1, MailboxAssumption DEF MailboxInv, MailboxAssumption
    <2>2. CASE ReadStep
        BY <2>1, <2>2, FewerFit DEF ReadStep, ListClaiming, ListSizes, SearchMail
    <2>3. CASE \E q \in Quotas : SetQuota(q) BY <2>1, <2>3, FewerFit DEF SetQuota
    <2>4. CASE UNCHANGED mailboxVars BY <2>1, <2>4, FewerFit DEF mailboxVars
    <2> QED BY <1>1, <2>1, <2>2, <2>3, <2>4, MessageStepFits, BatchStepFits, FolderStepFits DEF MailboxNext
<1>2. MailboxInv /\ MailboxInv' /\ [MailboxNext]_mailboxVars
      => [/\ Bytes(messages') > Bytes(messages) => Bytes(messages') <= quota
          /\ Cardinality(messages') > Cardinality(messages) => Cardinality(messages') <= MaxMessages]_mailboxVars
    BY <1>1 DEF Within
<1> QED BY <1>2, MailboxInvHolds, PTL DEF MailboxSpec, GrowsWithinQuota

-----------------------------------------------------------------------------
(* The sessions *)

(* What each step may rely on. *)
Sound == MailboxInv /\ CatalogInv

LEMMA SystemExists == ASSUME CatalogInv PROVE System \subseteq DOMAIN folders
BY DEF CatalogInv, Holds, Boxes

LEMMA SelectableExists ==
    ASSUME CatalogInv, NEW f, Selectable(f)
    PROVE  f \in DOMAIN folders
BY SystemExists DEF Selectable

LEMMA AnyBatch ==
    ASSUME NEW ids, ids \subseteq Ids, \E i \in ids : TRUE
    PROVE  ids \in Batches
BY DEF Batches

(* A guarded permanent delete is an unguarded one of what it removes. *)
LEMMA DestroyIsRemoval ==
    ASSUME Sound, NEW r, Destroy(r)
    PROVE  [MailboxNext]_mailboxVars
<1> DEFINE gone == Doomed(Expected(r.saw), r.folder, r.by = "imap")
           ids == {m.id : m \in gone}
<1>1. /\ messages' = messages \ gone /\ Cascade(gone)
      /\ UNCHANGED <<uidnext, quota, folders, used, meaning, claims>>
    BY DEF Destroy, RemovePermanently
<1>2. gone \subseteq messages BY DEF Doomed
<1>3. /\ \A m, n \in messages : m.id = n.id => m = n
      /\ \A m \in messages : m.id \in Ids
    BY DEF Sound, MailboxInv, UidInv, OneMessage, RowsTyped, Message
<1>4. CASE gone = {}
    <2> HIDE DEF gone
    <2>1. messages' = messages /\ search' = search /\ pop3' = pop3 BY <1>1, <1>4 DEF Cascade
    <2> QED BY <1>1, <2>1 DEF mailboxVars
<1>5. CASE gone # {}
    <2>1. ids \in Batches
        <3>1. ids \subseteq Ids BY <1>2, <1>3
        <3>2. PICK m \in gone : TRUE BY <1>5
        <3>3. m.id \in ids OBVIOUS
        <3> QED BY <3>1, <3>3, AnyBatch
    <2>2. Doomed(Unguarded(ids), <<>>, FALSE) = {m \in messages : m.id \in ids}
        BY DEF Doomed, MayRemove, Unguarded
    <2> HIDE DEF gone
    <2>3. {m \in messages : m.id \in ids} = gone BY <1>2, <1>3
    <2> HIDE DEF ids
    <2>4. RemovePermanently(Unguarded(ids), <<>>, FALSE) BY <1>1, <2>2, <2>3 DEF RemovePermanently
    <2> QED BY <2>1, <2>4 DEF MailboxNext, BatchStep
<1> QED BY <1>4, <1>5

LEMMA GiveUpIsNoStep == ASSUME NEW r, GiveUp(r) PROVE UNCHANGED mailboxVars
BY DEF GiveUp, mailboxVars

(* Listing is a read step, or none. *)
LEMMA ListForIsRead ==
    ASSUME Sound, NEW f, NEW readonly, ListFor(f, readonly)
    PROVE  [MailboxNext]_mailboxVars
<1>1. CASE readonly BY <1>1 DEF ListFor
<1>2. CASE ~readonly
    <2>1. ListClaiming(f) BY <1>2 DEF ListFor
    <2>2. f \in DOMAIN folders BY <2>1, SelectableExists DEF ListClaiming, Sound
    <2> QED BY <2>1, <2>2 DEF MailboxNext, ReadStep
<1> QED BY <1>1, <1>2

(* A guarded copy or move is one without guards, which may do more. *)
LEMMA TransferIsBatch ==
    ASSUME Sound, NEW s \in Imap, NEW numbers \in (SUBSET DOMAIN imap[s].rows) \ {{}},
           NEW target \in DOMAIN folders, NEW move \in BOOLEAN, Transfer(s, numbers, target, move)
    PROVE  MailboxNext
<1> DEFINE saw == {imap[s].rows[i] : i \in numbers}
           ids == {m.id : m \in saw}
           expected == Expected(saw)
           source == imap[s].folder
<1>1. \E i \in ids : TRUE
    <2>1. numbers # {} OBVIOUS
    <2>2. PICK i \in numbers : TRUE BY <2>1
    <2>3. imap[s].rows[i] \in saw OBVIOUS
    <2>4. imap[s].rows[i].id \in ids BY <2>3
    <2> QED BY <2>4
<1>2. IF move THEN MoveAll(ids, expected, source, target) ELSE Copy(ids, expected, source, target)
    BY DEF Transfer
<1> HIDE DEF saw, ids, expected, source
<1>3. CopyGuard(ids, expected, source, target) BY <1>2 DEF MoveAll, Copy
<1>4. source \in DOMAIN folders BY <1>3, SelectableExists DEF CopyGuard, Sound
<1>5. \A m \in Sources(ids, expected, source) : m \in Sources(ids, Unguarded(ids), source) /\ m.id \in Ids
    BY DEF Sources, In, Unguarded, Sound, MailboxInv, UidInv, RowsTyped, Message
<1>6. ids \in Batches /\ CopyGuard(ids, Unguarded(ids), source, target)
    <2>1. ids \subseteq Ids BY <1>3, <1>5 DEF CopyGuard
    <2>2. CopyGuard(ids, Unguarded(ids), source, target) BY <1>3, <1>5 DEF CopyGuard
    <2> QED BY <1>1, <2>1, <2>2, AnyBatch
<1>7. CASE move
    <2>1. MoveAll(ids, Unguarded(ids), source, target) BY <1>2, <1>6, <1>7 DEF MoveAll
    <2> QED BY <1>4, <1>6, <2>1 DEF MailboxNext, BatchStep
<1>8. CASE ~move
    <2>1. Copy(ids, Unguarded(ids), source, target) BY <1>2, <1>6, <1>8 DEF Copy
    <2> QED BY <1>4, <1>6, <2>1 DEF MailboxNext, BatchStep
<1> QED BY <1>7, <1>8

(* STORE names a message by UID. *)
LEMMA StoreIsSetDeleted ==
    ASSUME Sound, NEW s, NEW i, NEW value \in BOOLEAN, Store(s, i, value)
    PROVE  MailboxNext
<1> DEFINE id == imap[s].rows[i].id
<1>1. SetDeleted(id, imap[s].rows[i].uid, <<>>, value) BY DEF Store
<1> HIDE DEF id
<1>2. id \in Ids BY <1>1 DEF SetDeleted, In, Sound, MailboxInv, UidInv, RowsTyped, Message
<1>3. SetDeleted(id, 0, <<>>, value) BY <1>1 DEF SetDeleted
<1> QED BY <1>2, <1>3 DEF MailboxNext, MessageStep

LEMMA ImapStepRefines ==
    ASSUME Sound, NEW s \in Imap, ImapStep(s)
    PROVE  [MailboxNext]_mailboxVars
<1>1. ASSUME NEW f, NEW readonly, Select(s, f, readonly) PROVE [MailboxNext]_mailboxVars
    BY <1>1, ListForIsRead DEF Select
<1>2. CASE Disconnect(s) BY <1>2 DEF Disconnect
<1>3. CASE Noop(s) \/ Expunge(s)
    BY <1>3, ListForIsRead DEF Noop, Expunge, Refresh
<1>4. CASE ListFlagged(s) BY <1>4 DEF ListFlagged
<1>5. CASE Expunged(s) BY <1>5, DestroyIsRemoval DEF Expunged
<1>6. CASE ExpungeFails(s) BY <1>6, GiveUpIsNoStep DEF ExpungeFails
<1>7. ASSUME NEW i, NEW value \in BOOLEAN, Store(s, i, value) PROVE MailboxNext
    BY <1>7, StoreIsSetDeleted
<1>8. ASSUME NEW id \in Ids, NEW f \in DOMAIN folders, NEW size \in Sizes, NEW deleted \in BOOLEAN,
             AppendMessage(s, id, f, size, deleted)
      PROVE  MailboxNext
    BY <1>8 DEF AppendMessage, MailboxNext, MessageStep
<1>9. ASSUME NEW n \in ClientNames, Create(s, n) PROVE MailboxNext
    BY <1>9 DEF Create, MailboxNext, FolderStep
<1>10. ASSUME NEW n \in DOMAIN folders, Delete(s, n) PROVE MailboxNext
    BY <1>10 DEF Delete, MailboxNext, FolderStep
<1>11. ASSUME NEW n \in DOMAIN folders, NEW target \in ClientNames, Rename(s, n, target) PROVE MailboxNext
    BY <1>11 DEF Rename, MailboxNext, FolderStep
<1> QED BY <1>1, <1>2, <1>3, <1>4, <1>5, <1>6, <1>7, <1>8, <1>9, <1>10, <1>11, TransferIsBatch DEF ImapStep

LEMMA PopStepRefines ==
    ASSUME Sound, NEW p \in Pop, PopStep(p)
    PROVE  [MailboxNext]_mailboxVars
<1>1. CASE Open(p)
    <2>1. Inbox \in DOMAIN folders BY SystemExists, SessionAssumption DEF Sound, SessionAssumption
    <2> QED BY <1>1, <2>1 DEF Open, MailboxNext, ReadStep
<1>2. CASE Committed(p) BY <1>2, DestroyIsRemoval, GiveUpIsNoStep DEF Committed
<1>3. CASE UNCHANGED mailboxVars BY <1>3
<1> QED BY <1>1, <1>2, <1>3 DEF PopStep, Login, Quit, Leave, Mark

LEMMA InsertIsStep ==
    ASSUME Sound, NEW id \in Ids, NEW f \in System, NEW size \in Sizes, Insert(id, f, size, FALSE)
    PROVE  MailboxNext
<1>1. f \in DOMAIN folders BY SystemExists DEF Sound
<1> QED BY <1>1 DEF MailboxNext, MessageStep

LEMMA WebStepRefines ==
    ASSUME Sound, NEW w \in Web, WebStep(w)
    PROVE  [MailboxNext]_mailboxVars
<1>1. CASE LookUp(w) BY <1>1 DEF LookUp
<1>2. CASE WebDelete(w) BY <1>2, DestroyIsRemoval, GiveUpIsNoStep DEF WebDelete
<1>3. CASE WebChange(w)
    <2>1. PICK id \in Ids :
            \/ \E f \in DOMAIN folders : MoveSome({id}, f)
            \/ \E f \in {Drafts, Sent}, size \in Sizes :
                  Insert(id, f, size, FALSE) \/ Rewrite(id, 0, f, size)
        BY <1>3 DEF WebChange
    <2>2. ASSUME NEW f \in DOMAIN folders, MoveSome({id}, f) PROVE MailboxNext
        <3>1. {id} \in Batches BY AnyBatch
        <3> QED BY <2>2, <3>1 DEF MailboxNext, BatchStep
    <2>3. ASSUME NEW f \in {Drafts, Sent}, NEW size \in Sizes, Insert(id, f, size, FALSE) PROVE MailboxNext
        <3>1. f \in System BY MailboxAssumption DEF MailboxAssumption
        <3> QED BY <2>3, <3>1, InsertIsStep
    <2>4. ASSUME NEW f \in {Drafts, Sent}, NEW size \in Sizes, Rewrite(id, 0, f, size) PROVE MailboxNext
        BY <2>4 DEF MailboxNext, MessageStep
    <2> QED BY <2>1, <2>2, <2>3, <2>4
<1> QED BY <1>1, <1>2, <1>3 DEF WebStep

(* Each step of the sessions is one operation of the mailbox, or none. *)
LEMMA NextRefines ==
    ASSUME Sound, [Next]_vars
    PROVE  [MailboxNext]_mailboxVars
<1>1. ASSUME NEW r \in late, RunLate(r) PROVE [MailboxNext]_mailboxVars
    BY <1>1, DestroyIsRemoval DEF RunLate
<1>2. CASE Deliver
    <2>1. PICK id \in Ids, f \in {Inbox, Junk}, size \in Sizes : Insert(id, f, size, FALSE)
        BY <1>2 DEF Deliver
    <2>2. f \in System BY SessionAssumption DEF SessionAssumption
    <2> QED BY <2>1, <2>2, InsertIsStep
<1>3. CASE UNCHANGED vars BY <1>3 DEF vars
<1> QED BY <1>1, <1>2, <1>3, ImapStepRefines, PopStepRefines, WebStepRefines DEF Next

-----------------------------------------------------------------------------
(* Theorems *)

LEMMA SoundHolds == Spec => []Sound
<1>1. Init => Sound BY InitMailboxInv, InitCatalogInv DEF Init, Sound
<1>2. Sound /\ [Next]_vars => Sound'
    BY NextRefines, NextMailboxInv, NextCatalogInv DEF Sound
<1> QED BY <1>1, <1>2, PTL DEF Spec

(* IMAP, POP3 and web, their stale snapshots and deletes that come late do
   nothing to a mailbox that its operations would not do for some caller.    *)
THEOREM SessionsImplementMailbox == Spec => MailboxSpec
<1>1. Init => MailboxInit BY DEF Init
<1>2. Sound /\ [Next]_vars => [MailboxNext]_mailboxVars BY NextRefines
<1> QED BY <1>1, <1>2, SoundHolds, PTL DEF Spec, MailboxSpec

(* Whatever the sessions do, a UID stays the name of one content, derived rows
   stay true and mail stays in folders that can be opened.                    *)
THEOREM SessionsKeepMailbox ==
    Spec => [](MailboxTypeOK /\ UidNamesOneContent /\ DerivedRowsTrue /\ CatalogHoldsMail)
BY SessionsImplementMailbox, MailboxTypes, UidsNameOneContent, DerivedRowsAreTrue, MailStaysReachable, PTL

-----------------------------------------------------------------------------
(* The lease on the maildrop *)

MaildropInv == pop \in [Pop -> PopSession] /\ MaildropHasOneOwner

LEMMA PopStepKeepsOwner ==
    ASSUME Sound, MaildropInv, NEW p \in Pop, PopStep(p)
    PROVE  MaildropInv'
<1>1. /\ pop \in [Pop -> PopSession] /\ pop[p] \in PopSession
      /\ leased <=> \E q \in Pop : pop[q].at # "off"
      /\ \A q, r \in Pop : pop[q].at # "off" /\ pop[r].at # "off" => q = r
    BY DEF MaildropInv, MaildropHasOneOwner
<1>2. messages \in SUBSET Message BY DEF Sound, MailboxInv, UidInv, RowsTyped
<1>3. CASE Login(p)
    <2>1. ~leased /\ leased' = TRUE /\ pop' = [pop EXCEPT ![p].at = "login"] BY <1>3 DEF Login
    <2>2. pop' \in [Pop -> PopSession] /\ pop'[p].at = "login" /\ \A q \in Pop \ {p} : pop'[q] = pop[q]
        BY <1>1, <2>1 DEF PopSession
    <2> QED BY <1>1, <2>1, <2>2 DEF MaildropInv, MaildropHasOneOwner
<1>4. ASSUME NEW s \in PopSession, s.at # "off", pop[p].at # "off", UNCHANGED leased, pop' = [pop EXCEPT ![p] = s]
      PROVE  MaildropInv'
    <2>1. pop' \in [Pop -> PopSession] /\ pop'[p] = s /\ \A q \in Pop \ {p} : pop'[q] = pop[q]
        BY <1>1, <1>4
    <2> QED BY <1>1, <1>4, <2>1 DEF MaildropInv, MaildropHasOneOwner
<1>5. CASE Open(p)
    <2> DEFINE s == [pop[p] EXCEPT !.at = "open", !.rows = {m \in messages : m.folder = Inbox}]
    <2>1. pop' = [pop EXCEPT ![p] = s] /\ UNCHANGED leased /\ pop[p].at = "login" BY <1>1, <1>5 DEF Open
    <2>2. {m \in messages : m.folder = Inbox} \in SUBSET Message BY <1>2
    <2>3. s \in PopSession /\ s.at = "open" BY <1>1, <2>2 DEF PopSession
    <2> QED BY <1>4, <2>1, <2>3
<1>6. ASSUME NEW marked \in SUBSET pop[p].rows, Mark(p, marked) PROVE MaildropInv'
    <2> DEFINE s == [pop[p] EXCEPT !.marked = marked]
    <2>1. pop' = [pop EXCEPT ![p] = s] /\ UNCHANGED leased /\ pop[p].at = "open" BY <1>1, <1>6 DEF Mark
    <2>2. s \in PopSession /\ s.at = pop[p].at BY <1>1 DEF PopSession
    <2> QED BY <1>4, <2>1, <2>2
<1>7. CASE Quit(p)
    <2> DEFINE s == [pop[p] EXCEPT !.at = "quit"]
    <2>1. pop' = [pop EXCEPT ![p] = s] /\ UNCHANGED leased /\ pop[p].at = "open" BY <1>1, <1>7 DEF Quit
    <2>2. s \in PopSession /\ s.at = "quit" BY <1>1 DEF PopSession
    <2> QED BY <1>4, <2>1, <2>2
<1>8. CASE Committed(p) \/ Leave(p)
    <2>1. leased' = Release(p) /\ pop' = [pop EXCEPT ![p] = PopOff] BY <1>8 DEF Committed, Leave
    <2>2. PopOff \in PopSession /\ PopOff.at = "off" BY DEF PopOff, PopSession
    <2>3. pop' \in [Pop -> PopSession] /\ pop'[p].at = "off" /\ \A q \in Pop \ {p} : pop'[q] = pop[q]
        BY <1>1, <2>1, <2>2
    <2>4. CASE pop[p].at = "off" BY <1>1, <2>1, <2>3, <2>4 DEF Release, MaildropInv, MaildropHasOneOwner
    <2>5. CASE pop[p].at # "off"
        <3>1. leased' = FALSE BY <2>1, <2>5 DEF Release
        <3>2. \A q \in Pop : pop'[q].at = "off" BY <1>1, <2>3, <2>5
        <3> QED BY <2>3, <3>1, <3>2 DEF MaildropInv, MaildropHasOneOwner
    <2> QED BY <2>4, <2>5
<1> QED BY <1>3, <1>5, <1>6, <1>7, <1>8 DEF PopStep

(* Only POP3 steps touch the lease. *)
LEMMA NextKeepsOwner ==
    ASSUME Sound, MaildropInv, [Next]_vars
    PROVE  MaildropInv'
<1>1. CASE UNCHANGED <<pop, leased>> BY <1>1 DEF MaildropInv, MaildropHasOneOwner
<1>2. ASSUME NEW s \in Imap, ImapStep(s) PROVE UNCHANGED <<pop, leased>>
    BY <1>2 DEF ImapStep, Select, Disconnect, Noop, Expunge, Refresh, ListFlagged, Expunged, ExpungeFails,
        Store, AppendMessage, Transfer, Create, Delete, Rename, ImapOnly
<1>3. ASSUME NEW w \in Web, WebStep(w) PROVE UNCHANGED <<pop, leased>>
    BY <1>3 DEF WebStep, LookUp, WebDelete, WebChange, WebOnly
<1>4. CASE (\E r \in late : RunLate(r)) \/ Deliver \/ UNCHANGED vars
    BY <1>1, <1>4 DEF RunLate, Deliver, sessionVars, vars
<1> QED BY <1>1, <1>2, <1>3, <1>4, PopStepKeepsOwner DEF Next

(* MaildropLease: whatever sessions log in, fail, quit or are cut off, one owns
   the maildrop at a time, and none when all have gone.                         *)
THEOREM OneMaildropOwner == Spec => []MaildropHasOneOwner
<1>1. Init => MaildropInv
    BY DEF Init, MaildropInv, MaildropHasOneOwner, PopOff, PopSession
<1>2. Sound /\ MaildropInv /\ [Next]_vars => MaildropInv' BY NextKeepsOwner
<1>3. MaildropInv => MaildropHasOneOwner BY DEF MaildropInv
<1> QED BY <1>1, <1>2, <1>3, SoundHolds, PTL DEF Spec
-----------------------------------------------------------------------------
(* What permanent deletes destroy.  A caller deletes by identifier and UID and
   may do so long after it looked; that the UID still stands for what it saw
   rests on the history of meanings, and which folder it looked into on what
   each kind of session has noted in between.                               *)

(* A row as it was shown stays known by its UID, wherever the message goes. *)
Known(m) == m \in Message /\ meaning[m.uid] = m.size
ShownIn(f, saw) == \A m \in saw : Known(m) /\ m.folder = f

Fields == {"folder", "readonly", "rows", "recent", "at", "doomed"}

(* An IMAP session has doomed messages only while it waits for their delete. *)
ImapShown(x) ==
    /\ DOMAIN x = Fields
    /\ ShownIn(x.folder, x.doomed)
    /\ x.at \notin {"remove", "close"} => x.doomed = {}

(* What is marked in a maildrop was listed when it was opened. *)
PopShown(x) ==
    /\ ShownIn(Inbox, x.rows) /\ x.marked \subseteq x.rows
    /\ x.at \in {"off", "login"} => x.marked = {}

ShownInv ==
    /\ imap = [s \in Imap |-> imap[s]] /\ \A s \in Imap : ImapShown(imap[s])
    /\ \A p \in Pop : PopShown(pop[p])
    /\ web = [w \in Web |-> web[w]] /\ \A w \in Web : ShownIn(Trash, web[w])
    /\ \A r \in late : ShownIn(r.folder, r.saw)
    /\ DestroysWhatWasShown

(* A UID with a meaning keeps it in every operation. *)
LEMMA MeaningsStay ==
    ASSUME MailboxInv, [MailboxNext]_mailboxVars
    PROVE  \A m : Known(m) => m \in Message /\ meaning'[m.uid] = m.size
<1>1. ASSUME NEW rows, Give(rows) PROVE \A u \in Uids : meaning[u] # 0 => meaning'[u] = meaning[u]
    BY <1>1 DEF Give
<1>2. (\E rows : Give(rows)) \/ UNCHANGED meaning
    <2>1. ASSUME MessageStep PROVE (\E rows : Give(rows)) \/ UNCHANGED meaning
        BY <2>1, Zenon DEF MessageStep, Insert, Rewrite, SetDeleted
    <2>2. ASSUME BatchStep PROVE (\E rows : Give(rows)) \/ UNCHANGED meaning
        <3>1. ASSUME NEW ids, NEW f, NEW t, Copy(ids, Unguarded(ids), f, t) PROVE \E rows : Give(rows)
            BY <3>1, Zenon DEF Copy
        <3>2. ASSUME NEW ids, NEW t, Relocate(ids, t) PROVE \E rows : Give(rows) BY <3>2, Zenon DEF Relocate
        <3>3. ASSUME NEW ids, RemovePermanently(Unguarded(ids), <<>>, FALSE) PROVE UNCHANGED meaning
            BY <3>3 DEF RemovePermanently
        <3> QED BY <2>2, <3>1, <3>2, <3>3 DEF BatchStep, MoveAll, MoveSome
    <2>3. ASSUME ReadStep PROVE UNCHANGED meaning
        BY <2>3 DEF ReadStep, ListClaiming, ListSizes, SearchMail
    <2>4. ASSUME FolderStep PROVE UNCHANGED meaning
        BY <2>4 DEF FolderStep, CreateFolder, DeleteFolder, RenameFolder, Subscribe
    <2> QED BY <2>1, <2>2, <2>3, <2>4 DEF MailboxNext, SetQuota, mailboxVars
<1>3. \A m \in Message : m.uid \in Uids /\ m.size # 0 BY MailboxAssumption DEF Message, MailboxAssumption, Uids
<1> QED BY <1>1, <1>2, <1>3 DEF Known

(* What is listed is known. *)
LEMMA ListedIsKnown ==
    ASSUME MailboxInv
    PROVE  \A m \in messages : Known(m)
BY DEF MailboxInv, UidInv, RowsTyped, FreshIsUnused, Known

(* What goes has the UID, hence the content, of what the caller saw. *)
LEMMA DestroyTells ==
    ASSUME MailboxInv, NEW r, Destroy(r), ShownIn(r.folder, r.saw), DestroysWhatWasShown
    PROVE  DestroysWhatWasShown'
<1> DEFINE Seen(i) == CHOOSE n \in r.saw : n.id = i
           gone == Doomed(Expected(r.saw), r.folder, r.by = "imap")
<1>1. Expected(r.saw) = [i \in {m.id : m \in r.saw} |-> Seen(i).uid] BY DEF Expected
<1>2. destroyed' = destroyed \cup {[by |-> r.by, saw |-> Seen(m.id), was |-> m] : m \in gone}
    BY DEF Destroy
<1>3. \A i : (\E n \in r.saw : n.id = i) => Seen(i) \in r.saw BY Zenon
<1> HIDE DEF Seen
<1>4. ASSUME NEW m \in gone
      PROVE  m.size = Seen(m.id).size /\ m.folder = Seen(m.id).folder /\ (r.by = "imap" => m.deleted)
    <2>1. m \in messages /\ MayRemove(m, Expected(r.saw), r.folder, r.by = "imap") BY DEF Doomed
    <2>2. \E n \in r.saw : n.id = m.id BY <1>1, <2>1 DEF MayRemove
    <2>3. Seen(m.id) \in Message /\ meaning[Seen(m.id).uid] = Seen(m.id).size /\ Seen(m.id).folder = r.folder
        BY <1>3, <2>2 DEF ShownIn, Known
    <2>4. Seen(m.id).uid # 0 /\ r.folder # <<>> BY <2>3, NamesAreSequences DEF Message, Uids
    <2>5. Expected(r.saw)[m.id] = Seen(m.id).uid BY <1>1, <2>2
    <2>6. m.uid = Seen(m.id).uid /\ m.folder = r.folder /\ (r.by = "imap" => m.deleted)
        BY <2>1, <2>4, <2>5 DEF MayRemove
    <2>7. meaning[m.uid] = m.size BY <2>1, ListedIsKnown DEF Known
    <2> QED BY <2>3, <2>6, <2>7
<1> HIDE DEF gone
<1>5. ASSUME NEW d \in destroyed'
      PROVE  d.was.size = d.saw.size /\ d.was.folder = d.saw.folder /\ (d.by = "imap" => d.was.deleted)
    <2>1. CASE d \in destroyed BY <2>1 DEF DestroysWhatWasShown
    <2>2. CASE \E m \in gone : d = [by |-> r.by, saw |-> Seen(m.id), was |-> m] BY <2>2, <1>4
    <2> QED BY <1>2, <2>1, <2>2
<1> QED BY <1>5 DEF DestroysWhatWasShown

-----------------------------------------------------------------------------
(* Each kind of session. *)

(* How a step changes the IMAP session that takes it: what it dooms, it has listed. *)
ImapEvolves(s) ==
    /\ imap' = [t \in Imap |-> IF t = s THEN imap'[s] ELSE imap[t]]
    /\ DOMAIN imap'[s] = Fields
    /\ \/ imap'[s].doomed = {}
       \/ /\ imap'[s].at \in {"remove", "close"}
          /\ \A m \in imap'[s].doomed : m \in messages /\ m.folder = imap'[s].folder

LEMMA ImapStepShown ==
    ASSUME ShownInv, NEW s \in Imap, ImapStep(s)
    PROVE  ImapEvolves(s)
<1>1. /\ imap = [t \in Imap |-> imap[t]]
      /\ DOMAIN imap[s] = Fields
      /\ imap[s].at \notin {"remove", "close"} => imap[s].doomed = {}
    BY DEF ShownInv, ImapShown
<1>2. CASE Disconnect(s) BY <1>1, <1>2 DEF Disconnect, Unselected, ImapEvolves, Fields
<1>3. ASSUME NEW f, NEW readonly, Select(s, f, readonly) PROVE ImapEvolves(s)
    BY <1>1, <1>3 DEF Select, Unselected, ImapEvolves, Fields
<1>4. ASSUME NEW next, Refresh(s, next), imap[s].at \notin {"remove", "close"} PROVE ImapEvolves(s)
    <2>1. \E rows, recent : imap' = [imap EXCEPT ![s].rows = rows, ![s].at = next, ![s].recent = recent]
        BY <1>4, Zenon DEF Refresh
    <2> QED BY <1>1, <1>4, <2>1 DEF ImapEvolves, Fields
<1>5. CASE ListFlagged(s)
    <2>1. PICK doomed \in SUBSET Flagged(s), at \in {"refresh", "remove", "close"} :
            /\ imap' = [imap EXCEPT ![s].doomed = doomed, ![s].at = at]
            /\ at = "refresh" => doomed = {}
        BY <1>5 DEF ListFlagged
    <2>2. \A m \in Flagged(s) : m \in messages /\ m.folder = imap[s].folder BY DEF Flagged
    <2> QED BY <1>1, <2>1, <2>2 DEF ImapEvolves, Fields
<1>6. CASE Expunged(s)
    <2>1. \/ \E rows, recent : imap' = [imap EXCEPT ![s].rows = rows, ![s].at = "refresh", ![s].doomed = {},
                                                   ![s].recent = recent]
          \/ imap' = [imap EXCEPT ![s] = Unselected]
        BY <1>6 DEF Expunged
    <2>2. CASE imap' = [imap EXCEPT ![s] = Unselected] BY <1>1, <2>2 DEF Unselected, ImapEvolves, Fields
    <2>3. ASSUME NEW rows, NEW recent,
                 imap' = [imap EXCEPT ![s].rows = rows, ![s].at = "refresh", ![s].doomed = {}, ![s].recent = recent]
          PROVE  ImapEvolves(s)
        BY <1>1, <2>3 DEF ImapEvolves, Fields
    <2> QED BY <2>1, <2>2, <2>3
<1>7. CASE ExpungeFails(s) BY <1>1, <1>7 DEF ExpungeFails, ImapEvolves, Fields
<1>8. ASSUME NEW i, NEW value, Store(s, i, value) PROVE ImapEvolves(s)
    BY <1>1, <1>8 DEF Store, Idle, ImapEvolves, Fields
<1>9. ASSUME NEW refresh, Idle(s), imap' = Owing(s, refresh) PROVE ImapEvolves(s)
    BY <1>1, <1>9 DEF Owing, Idle, ImapEvolves, Fields
<1>10. ASSUME NEW n, NEW target, Rename(s, n, target) PROVE ImapEvolves(s)
    BY <1>1, <1>10 DEF Rename, Idle, ImapEvolves, Fields
<1>11. ASSUME Idle(s), UNCHANGED imap PROVE ImapEvolves(s) BY <1>1, <1>11 DEF Idle, ImapEvolves, Fields
<1>12. (\E id, f, size, deleted : AppendMessage(s, id, f, size, deleted)) => ImapEvolves(s)
    BY <1>9 DEF AppendMessage
<1>13. (\E numbers, target, move : Transfer(s, numbers, target, move)) => ImapEvolves(s)
    BY <1>9 DEF Transfer
<1>14. CASE Noop(s) \/ Expunge(s) BY <1>4, <1>14 DEF Noop, Expunge, Idle
<1>15. (\E n : Create(s, n) \/ Delete(s, n)) => ImapEvolves(s) BY <1>11 DEF Create, Delete
<1> QED BY <1>2, <1>3, <1>5, <1>6, <1>7, <1>8, <1>10, <1>12, <1>13, <1>14, <1>15 DEF ImapStep

(* How the maildrop of a POP3 session changes: it lists what is in the inbox. *)
PopEvolves(x, y) ==
    /\ y.marked \subseteq y.rows
    /\ y.at \in {"off", "login"} => y.marked = {}
    /\ \A m \in y.rows : m \in x.rows \/ (m \in messages /\ m.folder = Inbox)

LEMMA PopStepShown ==
    ASSUME ShownInv, MaildropInv, NEW p \in Pop, PopStep(p)
    PROVE  \A q \in Pop : PopEvolves(pop[q], pop'[q])
<1>1. pop \in [Pop -> PopSession] /\ \A q \in Pop : PopEvolves(pop[q], pop[q])
    BY DEF MaildropInv, ShownInv, PopShown, PopEvolves
<1>2. ASSUME NEW x, pop' = [pop EXCEPT ![p] = x], PopEvolves(pop[p], x)
      PROVE  \A q \in Pop : PopEvolves(pop[q], pop'[q])
    <2>1. pop'[p] = x /\ \A q \in Pop \ {p} : pop'[q] = pop[q] BY <1>1, <1>2
    <2> QED BY <1>1, <1>2, <2>1
<1>3. pop[p] \in PopSession /\ PopEvolves(pop[p], pop[p]) BY <1>1
<1>4. CASE Login(p)
    <2>1. pop[p].at = "off" /\ pop' = [pop EXCEPT ![p] = [pop[p] EXCEPT !.at = "login"]] BY <1>4 DEF Login
    <2>2. PopEvolves(pop[p], [pop[p] EXCEPT !.at = "login"]) BY <1>3, <2>1 DEF PopEvolves, PopSession
    <2> QED BY <1>2, <2>1, <2>2
<1>5. CASE Quit(p)
    <2>1. pop' = [pop EXCEPT ![p] = [pop[p] EXCEPT !.at = "quit"]] BY <1>5 DEF Quit
    <2>2. PopEvolves(pop[p], [pop[p] EXCEPT !.at = "quit"]) BY <1>3 DEF PopEvolves, PopSession
    <2> QED BY <1>2, <2>1, <2>2
<1>6. CASE Open(p)
    <2> DEFINE listed == {m \in messages : m.folder = Inbox}
    <2>1. pop[p].at = "login" /\ pop' = [pop EXCEPT ![p] = [pop[p] EXCEPT !.at = "open", !.rows = listed]]
        BY <1>1, <1>6 DEF Open
    <2>2. \A m \in listed : m \in messages /\ m.folder = Inbox OBVIOUS
    <2> HIDE DEF listed
    <2>3. PopEvolves(pop[p], [pop[p] EXCEPT !.at = "open", !.rows = listed])
        BY <1>3, <2>1, <2>2 DEF PopEvolves, PopSession
    <2> QED BY <1>2, <2>1, <2>3
<1>7. ASSUME NEW marked \in SUBSET pop[p].rows, Mark(p, marked)
      PROVE  \A q \in Pop : PopEvolves(pop[q], pop'[q])
    <2>1. pop[p].at = "open" /\ pop' = [pop EXCEPT ![p] = [pop[p] EXCEPT !.marked = marked]] BY <1>7 DEF Mark
    <2>2. PopEvolves(pop[p], [pop[p] EXCEPT !.marked = marked]) BY <1>3, <2>1 DEF PopEvolves, PopSession
    <2> QED BY <1>2, <2>1, <2>2
<1>8. CASE Committed(p) \/ Leave(p)
    <2>1. pop' = [pop EXCEPT ![p] = PopOff] BY <1>8 DEF Committed, Leave
    <2>2. PopEvolves(pop[p], PopOff) BY DEF PopEvolves, PopOff
    <2> QED BY <1>2, <2>1, <2>2
<1> QED BY <1>4, <1>5, <1>6, <1>7, <1>8 DEF PopStep

(* What a web session looks up is in Trash. *)
LEMMA WebStepShown ==
    ASSUME ShownInv, NEW w \in Web, WebStep(w)
    PROVE  /\ web' = [v \in Web |-> web'[v]]
           /\ \A v \in Web : \A m \in web'[v] : m \in web[v] \/ (m \in messages /\ m.folder = Trash)
<1>1. web = [v \in Web |-> web[v]] BY DEF ShownInv
<1>2. ASSUME NEW saw, web' = [web EXCEPT ![w] = saw], \A m \in saw : m \in messages /\ m.folder = Trash
      PROVE  /\ web' = [v \in Web |-> web'[v]]
             /\ \A v \in Web : \A m \in web'[v] : m \in web[v] \/ (m \in messages /\ m.folder = Trash)
    BY <1>1, <1>2
<1>3. CASE LookUp(w) BY <1>2, <1>3 DEF LookUp
<1>4. CASE WebDelete(w) 
    <2>1. web' = [web EXCEPT ![w] = {}] BY <1>4 DEF WebDelete
    <2>2. web'[w] = {} /\ \A v \in Web \ {w} : web'[v] = web[v] BY <1>1, <2>1
    <2> QED BY <1>1, <2>1, <2>2
<1>5. CASE WebChange(w) BY <1>1, <1>5 DEF WebChange
<1> QED BY <1>3, <1>4, <1>5 DEF WebStep

(* What is destroyed, or left to be destroyed later, is what the request shows. *)
LEMMA Requests ==
    ASSUME ShownInv, NEW r, ShownIn(r.folder, r.saw), MailboxInv, Destroy(r) \/ GiveUp(r)
    PROVE  DestroysWhatWasShown'
<1>1. CASE Destroy(r) BY <1>1, DestroyTells DEF ShownInv
<1>2. CASE GiveUp(r) BY <1>2 DEF GiveUp, ShownInv, DestroysWhatWasShown
<1> QED BY <1>1, <1>2

(* A step is one of the sessions of a kind, or leaves them as they are. *)
LEMMA StepsOfSessions ==
    ASSUME [Next]_vars
    PROVE  /\ (\E s \in Imap : ImapStep(s)) \/ UNCHANGED imap
           /\ (\E p \in Pop : PopStep(p)) \/ UNCHANGED pop
           /\ (\E w \in Web : WebStep(w)) \/ UNCHANGED web
<1>1. ASSUME NEW s \in Imap, ImapStep(s) PROVE UNCHANGED <<pop, web>>
    BY <1>1 DEF ImapStep, Select, Disconnect, Noop, Expunge, Refresh, ListFlagged, Expunged, ExpungeFails,
        Store, AppendMessage, Transfer, Create, Delete, Rename, ImapOnly
<1>2. ASSUME NEW p \in Pop, PopStep(p) PROVE UNCHANGED <<imap, web>>
    BY <1>2 DEF PopStep, Login, Open, Mark, Quit, Committed, Leave, PopOnly
<1>3. ASSUME NEW w \in Web, WebStep(w) PROVE UNCHANGED <<imap, pop>>
    BY <1>3 DEF WebStep, LookUp, WebDelete, WebChange, WebOnly
<1>4. ASSUME (\E r \in late : RunLate(r)) \/ Deliver \/ UNCHANGED vars PROVE UNCHANGED <<imap, pop, web>>
    BY <1>4 DEF RunLate, Deliver, sessionVars, vars
<1> QED BY <1>1, <1>2, <1>3, <1>4 DEF Next

(* A step leaves both histories alone, or deletes on a session's request, now or later. *)
Deletes(r) ==
    \/ Destroy(r) /\ late' \subseteq late
    \/ GiveUp(r)

LEMMA StepsDelete ==
    ASSUME [Next]_vars
    PROVE  \/ UNCHANGED <<late, destroyed>>
           \/ \E s \in Imap : Deletes(ImapRequest(s))
           \/ \E p \in Pop : Deletes(PopRequest(p))
           \/ \E w \in Web : Deletes(WebRequest(w))
           \/ \E r \in late : Deletes(r)
<1>1. ASSUME NEW s \in Imap, ImapStep(s) PROVE UNCHANGED <<late, destroyed>> \/ Deletes(ImapRequest(s))
    BY <1>1 DEF ImapStep, Select, Disconnect, Noop, Expunge, Refresh, ListFlagged, Expunged, ExpungeFails,
        Store, AppendMessage, Transfer, Create, Delete, Rename, ImapOnly, Deletes
<1>2. ASSUME NEW p \in Pop, PopStep(p) PROVE UNCHANGED <<late, destroyed>> \/ Deletes(PopRequest(p))
    BY <1>2 DEF PopStep, Login, Open, Mark, Quit, Committed, Leave, Deletes
<1>3. ASSUME NEW w \in Web, WebStep(w) PROVE UNCHANGED <<late, destroyed>> \/ Deletes(WebRequest(w))
    BY <1>3 DEF WebStep, LookUp, WebDelete, WebChange, Deletes
<1>4. ASSUME NEW r \in late, RunLate(r) PROVE Deletes(r) BY <1>4 DEF RunLate, Deletes
<1>5. CASE Deliver \/ UNCHANGED vars BY <1>5 DEF Deliver, vars, sessionVars
<1> QED BY <1>1, <1>2, <1>3, <1>4, <1>5 DEF Next

(* Each request names what its caller was shown. *)
LEMMA RequestsAreShown ==
    ASSUME ShownInv
    PROVE  /\ \A s \in Imap : ShownIn(ImapRequest(s).folder, ImapRequest(s).saw)
           /\ \A p \in Pop : ShownIn(PopRequest(p).folder, PopRequest(p).saw)
           /\ \A w \in Web : ShownIn(WebRequest(w).folder, WebRequest(w).saw)
           /\ \A r \in late : ShownIn(r.folder, r.saw)
BY DEF ShownInv, ImapShown, PopShown, ShownIn, ImapRequest, PopRequest, WebRequest

(* Each part of the invariant, in a step of the sessions it is about. *)
LEMMA ShownInvStep ==
    ASSUME Sound, MaildropInv, ShownInv, [Next]_vars
    PROVE  ShownInv'
<1>1. MailboxInv /\ [MailboxNext]_mailboxVars BY NextRefines DEF Sound
<1>2. \A m : Known(m) => Known(m)' BY <1>1, MeaningsStay DEF Known
<1>3. \A m \in messages : Known(m)' BY <1>1, <1>2, ListedIsKnown
<1>4. imap' = [s \in Imap |-> imap'[s]] /\ \A s \in Imap : ImapShown(imap[s])'
    <2>1. CASE UNCHANGED imap BY <1>2, <2>1 DEF ShownInv, ImapShown, ShownIn
    <2>2. ASSUME NEW s \in Imap, ImapStep(s)
          PROVE  imap' = [t \in Imap |-> imap'[t]] /\ \A t \in Imap : ImapShown(imap[t])'
        <3>1. ImapEvolves(s) BY <2>2, ImapStepShown
        <3> QED BY <1>2, <1>3, <3>1 DEF ImapEvolves, ShownInv, ImapShown, ShownIn
    <2>3. (\E s \in Imap : ImapStep(s)) \/ UNCHANGED imap BY StepsOfSessions
    <2> QED BY <2>1, <2>2, <2>3
<1>5. \A p \in Pop : PopShown(pop[p])'
    <2>1. CASE UNCHANGED pop BY <1>2, <2>1 DEF ShownInv, PopShown, ShownIn
    <2>2. ASSUME NEW p \in Pop, PopStep(p) PROVE \A q \in Pop : PopShown(pop[q])'
        <3>1. \A q \in Pop : PopEvolves(pop[q], pop'[q]) BY <2>2, PopStepShown
        <3> QED BY <1>2, <1>3, <3>1 DEF PopEvolves, ShownInv, PopShown, ShownIn
    <2>3. (\E p \in Pop : PopStep(p)) \/ UNCHANGED pop BY StepsOfSessions
    <2> QED BY <2>1, <2>2, <2>3
<1>6. web' = [w \in Web |-> web'[w]] /\ \A w \in Web : ShownIn(Trash, web[w])'
    <2>1. CASE UNCHANGED web BY <1>2, <2>1 DEF ShownInv, ShownIn
    <2>2. ASSUME NEW w \in Web, WebStep(w)
          PROVE  web' = [v \in Web |-> web'[v]] /\ \A v \in Web : ShownIn(Trash, web[v])'
        BY <1>2, <1>3, <2>2, WebStepShown DEF ShownInv, ShownIn
    <2>3. (\E w \in Web : WebStep(w)) \/ UNCHANGED web BY StepsOfSessions
    <2> QED BY <2>1, <2>2, <2>3
<1>7. (\A r \in late' : ShownIn(r.folder, r.saw)') /\ DestroysWhatWasShown'
    <2>1. ASSUME NEW r, Deletes(r), ShownIn(r.folder, r.saw)
          PROVE  (\A x \in late' : x \in late \/ x = r) /\ DestroysWhatWasShown'
        BY <1>1, <2>1, Requests DEF Deletes, GiveUp
    <2>2. CASE UNCHANGED <<late, destroyed>>
        BY <1>2, <2>2 DEF ShownInv, ShownIn, DestroysWhatWasShown
    <2>3. ASSUME NEW r, Deletes(r), ShownIn(r.folder, r.saw)
          PROVE  (\A x \in late' : ShownIn(x.folder, x.saw)') /\ DestroysWhatWasShown'
        <3>1. \A x \in late' : ShownIn(x.folder, x.saw) BY <2>1, <2>3 DEF ShownInv
        <3>2. \A x : ShownIn(x.folder, x.saw) => ShownIn(x.folder, x.saw)' BY <1>2 DEF ShownIn
        <3> QED BY <2>1, <2>3, <3>1, <3>2
    <2> QED BY <2>2, <2>3, StepsDelete, RequestsAreShown
<1> QED BY <1>4, <1>5, <1>6, <1>7 DEF ShownInv

LEMMA ShownInvInit == Init => ShownInv
BY DEF Init, ShownInv, ImapShown, PopShown, ShownIn, Unselected, Fields, PopOff, DestroysWhatWasShown

(* Whatever the sessions do between a look and a delete, and however late a
   delete comes: it destroys the content the caller was shown under that UID, in
   the folder it was shown in, and an IMAP expunge only what is still flagged
   (remove in storage's mailbox code, and what its callers pass to it).        *)
THEOREM OnlyTheShownIsDestroyed == Spec => []DestroysWhatWasShown
<1>1. Init => MaildropInv
    BY DEF Init, MaildropInv, MaildropHasOneOwner, PopOff, PopSession
<1>2. Sound /\ MaildropInv /\ ShownInv /\ [Next]_vars => MaildropInv' /\ ShownInv'
    BY NextKeepsOwner, ShownInvStep
<1>3. ShownInv => DestroysWhatWasShown BY DEF ShownInv
<1> QED BY <1>1, <1>2, <1>3, ShownInvInit, SoundHolds, PTL DEF Spec

-----------------------------------------------------------------------------
(* Sequence numbers.  Storage lists a folder in the order of its UIDs; from then
   on the client learns only of differences, as numbers that are true once the
   responses before have been taken into account.  The loop over the rows is a
   recursive function, so what it keeps is shown for the least row that would
   break it.                                                                 *)
Ascending(r) == \A i, j \in DOMAIN r : i < j => r[i].uid < r[j].uid

(* r lists the rows of S in the order of their UIDs. *)
Lists(r, S) == r \in Seq(S) /\ Ascending(r) /\ \A m \in S : \E i \in DOMAIN r : r[i] = m

LEMMA UidsAreNumbers == \A m \in Message : m.uid \in Nat /\ m.uid < MaxUid
BY MailboxAssumption DEF MailboxAssumption, Message, Uids

(* Finitely many messages have a last one. *)
LEMMA LastMessage ==
    ASSUME NEW s \in SUBSET Message, s # {}
    PROVE  \E m \in s : \A n \in s : n.uid <= m.uid
<1> DEFINE T == {MaxUid - m.uid : m \in s}
<1>1. MaxUid \in Nat BY MailboxAssumption DEF MailboxAssumption
<1>2. \A m \in s : m.uid \in Nat /\ MaxUid - m.uid \in Nat BY <1>1, UidsAreNumbers
<1>3. T \in SUBSET Nat /\ T # {} BY <1>2
<1>4. \A x : x \in T <=> \E m \in s : x = MaxUid - m.uid OBVIOUS
<1> HIDE DEF T
<1>5. PICK x \in T : \A y \in Nat : y < x => y \notin T BY <1>3, LeastOf
<1>6. PICK m \in s : x = MaxUid - m.uid BY <1>4, <1>5
<1>7. ASSUME NEW n \in s PROVE n.uid <= m.uid
    <2>1. MaxUid - n.uid \in Nat /\ MaxUid - n.uid \in T BY <1>2, <1>4
    <2>2. ~(MaxUid - n.uid < MaxUid - m.uid) BY <1>5, <1>6, <2>1
    <2> QED BY <1>1, <1>2, <2>2
<1> QED BY <1>7

(* Messages with different UIDs can be put in order. *)
LEMMA CanBeSorted ==
    ASSUME NEW S \in SUBSET Message, IsFiniteSet(S), \A m, n \in S : m.uid = n.uid => m = n
    PROVE  \E r \in [1..Cardinality(S) -> S] : Ascending(r)
<1> DEFINE Sorted(s) == \E r \in [1..Cardinality(s) -> s] : Ascending(r)
           T == {n \in Nat : \E s \in SUBSET S : Cardinality(s) = n /\ ~Sorted(s)}
<1>1. \A s \in SUBSET S : IsFiniteSet(s) /\ Cardinality(s) \in Nat BY FS_Subset, FS_CardinalityType
<1> HIDE DEF Sorted
<1>2. ASSUME T # {} PROVE FALSE
    <2>1. PICK n \in T : \A k \in Nat : k < n => k \notin T BY <1>2, LeastOf
    <2>2. PICK s \in SUBSET S : Cardinality(s) = n /\ ~Sorted(s) BY <2>1
    <2>3. s # {}
        <3>1. CASE s = {}
            <4>1. Cardinality(s) = 0 BY <3>1, FS_EmptySet
            <4> DEFINE r == [i \in 1..0 |-> i]
            <4>2. r \in [1..0 -> s] /\ Ascending(r) BY DEF Ascending
            <4>3. Sorted(s) BY <4>1, <4>2 DEF Sorted
            <4> QED BY <2>2, <4>3
        <3> QED BY <3>1
    <2>4. PICK m \in s : \A k \in s : k.uid <= m.uid
        <3>1. s \in SUBSET Message OBVIOUS
        <3> QED BY <2>3, <3>1, LastMessage
    <2> DEFINE t == s \ {m}
    <2>5. t \in SUBSET S /\ Cardinality(t) \in Nat /\ Cardinality(t) = n - 1 /\ n \in Nat
        <3>1. IsFiniteSet(s) /\ t \in SUBSET S BY <1>1
        <3>2. Cardinality(t) = Cardinality(s) - 1 BY <3>1, FS_RemoveElement
        <3>3. Cardinality(t) \in Nat BY <1>1, <3>1
        <3> QED BY <2>2, <3>1, <3>2, <3>3
    <2>6. Cardinality(t) \notin T
        <3> HIDE DEF T
        <3> QED BY <2>1, <2>5
    <2>7. Sorted(t) BY <2>5, <2>6
    <2>8. PICK r \in [1..(n - 1) -> t] : Ascending(r) BY <2>5, <2>7 DEF Sorted
    <2>9. \A k \in t : k.uid < m.uid
        <3>1. ASSUME NEW k \in t PROVE k.uid < m.uid
            <4>1. k \in S /\ m \in S /\ k # m /\ k.uid <= m.uid BY <2>4
            <4>2. k.uid # m.uid BY <4>1
            <4>3. k.uid \in Nat /\ m.uid \in Nat BY <4>1, UidsAreNumbers
            <4> QED BY <4>1, <4>2, <4>3
        <3> QED BY <3>1
    <2> DEFINE q == [i \in 1..n |-> IF i = n THEN m ELSE r[i]]
    <2>10. q \in [1..n -> s] BY <2>5
    <2>11. Ascending(q)
        <3>1. SUFFICES ASSUME NEW i \in 1..n, NEW j \in 1..n, i < j PROVE q[i].uid < q[j].uid BY DEF Ascending
        <3>2. i \in 1..(n - 1) /\ q[i] = r[i] /\ r[i] \in t BY <2>5, <3>1
        <3>3. CASE j = n BY <2>9, <3>2, <3>3
        <3>4. CASE j # n
            <4>1. j \in 1..(n - 1) /\ q[j] = r[j] BY <2>5, <3>4
            <4> QED BY <2>8, <3>1, <3>2, <4>1 DEF Ascending
        <3> QED BY <3>3, <3>4
    <2> HIDE DEF q
    <2> QED BY <2>2, <2>10, <2>11 DEF Sorted
<1>3. S \in SUBSET S OBVIOUS
<1> QED BY <1>1, <1>2, <1>3 DEF Sorted

(* Storage lists a folder in the order of its UIDs. *)
LEMMA ListingLists ==
    ASSUME UidInv, NEW f
    PROVE  Lists(Listing(f), {m \in messages : m.folder = f})
<1> DEFINE S == {m \in messages : m.folder = f}
           r == Listing(f)
<1>1. S \in SUBSET messages /\ S \in SUBSET Message BY DEF UidInv, RowsTyped
<1>2. \A m, n \in S : m.uid = n.uid => m = n BY <1>1 DEF UidInv, OneMessage
<1>3. IsFiniteSet(S) /\ Cardinality(S) \in Nat
    <2>1. messages \in SUBSET Message /\ \A m, n \in messages : m.id = n.id => m = n
        BY DEF UidInv, RowsTyped, OneMessage
    <2> QED BY <1>1, <2>1, MailIsFinite
<1>4. r = CHOOSE x \in [1..Cardinality(S) -> S] : Ascending(x) BY DEF Listing, Ascending
<1> HIDE DEF S, r
<1>5. r \in [1..Cardinality(S) -> S] /\ Ascending(r) BY <1>1, <1>2, <1>3, <1>4, CanBeSorted
<1>6. r \in Injection(1..Cardinality(S), S)
    <2>1. ASSUME NEW i \in 1..Cardinality(S), NEW j \in 1..Cardinality(S), r[i] = r[j] PROVE i = j
        <3>1. r[i].uid \in Nat BY <1>1, <1>5, UidsAreNumbers
        <3>2. ~(i < j) /\ ~(j < i) BY <1>5, <2>1, <3>1 DEF Ascending
        <3> QED BY <1>3, <3>2
    <2> QED BY <1>5, <2>1 DEF Injection, IsInjective
<1>7. Cardinality(1..Cardinality(S)) = Cardinality(S) BY <1>3, FS_Interval
<1>8. r \in Surjection(1..Cardinality(S), S) BY <1>3, <1>6, <1>7, FS_Injection
<1>9. \A m \in S : \E i \in DOMAIN r : r[i] = m BY <1>5, <1>8 DEF Surjection
<1>10. r \in Seq(S) BY <1>3, <1>5
<1> QED BY <1>5, <1>9, <1>10 DEF Lists, S, r

(* A sequence without its n-th element. *)
LEMMA WithoutParts ==
    ASSUME NEW D, NEW s \in Seq(D), NEW n \in 1..Len(s)
    PROVE  /\ Without(s, n) \in Seq(D) /\ Len(Without(s, n)) = Len(s) - 1
           /\ \A a \in 1..(Len(s) - 1) : Without(s, n)[a] = IF a < n THEN s[a] ELSE s[a + 1]
<1> DEFINE before == SubSeq(s, 1, n - 1)
           behind == SubSeq(s, n + 1, Len(s))
<1>1. Len(s) \in Nat /\ n \in Nat /\ 1 <= n /\ n <= Len(s) /\ \A i \in 1..Len(s) : s[i] \in D OBVIOUS
<1>2. Without(s, n) = before \o behind
    <2>1. n \in DOMAIN s OBVIOUS
    <2>2. Without(s, n) = RemoveAt(s, n) BY <2>1 DEF Without
    <2> QED BY <2>2, Zenon DEF RemoveAt
<1>3. before \in Seq(D) /\ Len(before) = n - 1 /\ \A a \in 1..(n - 1) : before[a] = s[a]
    <2>1. 1 \in Int /\ n - 1 \in Int /\ \A i \in 1..(n - 1) : s[i] \in D BY <1>1
    <2>2. /\ before \in Seq(D)
          /\ Len(before) = IF 1 <= n - 1 THEN (n - 1) - 1 + 1 ELSE 0
          /\ \A i \in 1 .. (n - 1) - 1 + 1 : before[i] = s[1 + i - 1]
        BY <2>1, SubSeqProperties
    <2> HIDE DEF before
    <2> QED BY <1>1, <2>2
<1>4. behind \in Seq(D) /\ Len(behind) = Len(s) - n /\ \A a \in 1..(Len(s) - n) : behind[a] = s[n + a]
    <2>1. n + 1 \in Int /\ Len(s) \in Int /\ \A i \in (n + 1)..Len(s) : s[i] \in D BY <1>1
    <2>2. /\ behind \in Seq(D)
          /\ Len(behind) = IF n + 1 <= Len(s) THEN Len(s) - (n + 1) + 1 ELSE 0
          /\ \A i \in 1 .. Len(s) - (n + 1) + 1 : behind[i] = s[n + 1 + i - 1]
        BY <2>1, SubSeqProperties
    <2> HIDE DEF behind
    <2> QED BY <1>1, <2>2
<1> HIDE DEF before, behind
<1>5. /\ before \o behind \in Seq(D) /\ Len(before \o behind) = Len(before) + Len(behind)
      /\ \A i \in 1 .. Len(before) + Len(behind) :
            (before \o behind)[i] = IF i <= Len(before) THEN before[i] ELSE behind[i - Len(before)]
    BY <1>3, <1>4, ConcatProperties, Zenon
<1>6. ASSUME NEW a \in 1..(Len(s) - 1)
      PROVE  (before \o behind)[a] = IF a < n THEN s[a] ELSE s[a + 1]
    <2>1. a \in 1 .. Len(before) + Len(behind) BY <1>1, <1>3, <1>4
    <2>2. (before \o behind)[a] = IF a <= Len(before) THEN before[a] ELSE behind[a - Len(before)]
        BY <1>5, <2>1, Zenon
    <2>3. CASE a < n
        <3>1. a <= Len(before) /\ a \in 1..(n - 1) BY <1>1, <1>3, <2>3
        <3> QED BY <1>3, <2>2, <2>3, <3>1
    <2>4. CASE ~(a < n)
        <3>1. ~(a <= Len(before)) /\ a - Len(before) \in 1..(Len(s) - n) /\ n + (a - Len(before)) = a + 1
            BY <1>1, <1>3, <2>4
        <3> QED BY <1>4, <2>2, <2>4, <3>1
    <2> QED BY <2>3, <2>4
<1>7. Len(before \o behind) = Len(s) - 1 BY <1>1, <1>3, <1>4, <1>5
<1> QED BY <1>2, <1>5, <1>6, <1>7

(* The loop over the rows: after each of them the rows that stay so far, and
   what the client knows by then.                                            *)
WalkStep(g, known, rows, keys, i) ==
    IF i = 0 THEN [rows |-> <<>>, known |-> known]
    ELSE IF Key(rows[i]) \in keys THEN [g[i - 1] EXCEPT !.rows = Append(@, rows[i])]
    ELSE [g[i - 1] EXCEPT !.known = Without(@, Number(g[i - 1].rows, i))]
Walks(g, known, rows, keys) == g = [i \in 0..Len(rows) |-> WalkStep(g, known, rows, keys, i)]

LEMMA ExpungesWalk ==
    ASSUME NEW known, NEW rows, NEW keys
    PROVE  Expunges(known, rows, keys) = (CHOOSE g : Walks(g, known, rows, keys))[Len(rows)]
BY DEF Expunges, Walks, WalkStep

LEMMA WalkExists ==
    ASSUME NEW known, NEW rows, NEW keys, Len(rows) \in Nat
    PROVE  \E g : Walks(g, known, rows, keys)
<1> DEFINE Partly(g, n) == g = [i \in 0..n |-> WalkStep(g, known, rows, keys, i)]
           T == {n \in Nat : ~ \E g : Partly(g, n)}
<1>1. ASSUME T # {} PROVE FALSE
    <2>1. PICK n \in T : \A k \in Nat : k < n => k \notin T BY <1>1, LeastOf
    <2>2. n \in Nat /\ ~ \E g : Partly(g, n) OBVIOUS
    <2>3. CASE n = 0
        <3> DEFINE g == [i \in 0..0 |-> [rows |-> <<>>, known |-> known]]
        <3>1. Partly(g, 0) BY DEF WalkStep
        <3> QED BY <2>2, <2>3, <3>1
    <2>4. CASE n > 0
        <3>1. n - 1 \in Nat /\ n - 1 < n BY <2>2, <2>4
        <3>2. n - 1 \notin T
            <4> HIDE DEF T
            <4> QED BY <2>1, <3>1
        <3>3. PICK g : Partly(g, n - 1) BY <3>1, <3>2
        <3> DEFINE h == [i \in 0..n |-> WalkStep(g, known, rows, keys, i)]
        <3>4. ASSUME NEW i \in 0..n PROVE WalkStep(g, known, rows, keys, i) = WalkStep(h, known, rows, keys, i)
            <4>1. CASE i = 0 BY <4>1 DEF WalkStep
            <4>2. CASE i # 0
                <5>1. i - 1 \in 0..(n - 1) /\ i - 1 \in 0..n BY <2>2, <4>2
                <5>2. h[i - 1] = WalkStep(g, known, rows, keys, i - 1) BY <5>1
                <5>3. g[i - 1] = WalkStep(g, known, rows, keys, i - 1) BY <3>3, <5>1
                <5> HIDE DEF h
                <5> QED BY <4>2, <5>2, <5>3 DEF WalkStep
            <4> QED BY <4>1, <4>2
        <3>5. Partly(h, n) BY <3>4
        <3> QED BY <2>2, <3>5
    <2> QED BY <2>2, <2>3, <2>4
<1> QED BY <1>1 DEF Walks

(* After i rows: those that stay are the rows so far with a key among keys, and
   the client knows them and all rows that are still to come.                *)
Walked(w, rows, keys, i) ==
    /\ w = [rows |-> w.rows, known |-> w.known]
    /\ w.rows \in Seq(Message) /\ Len(w.rows) <= i /\ Ascending(w.rows)
    /\ \A a \in 1..Len(w.rows) : \E l \in 1..i : w.rows[a] = rows[l] /\ Key(rows[l]) \in keys
    /\ \A l \in 1..i : Key(rows[l]) \in keys => \E a \in 1..Len(w.rows) : w.rows[a] = rows[l]
    /\ w.known \in Seq(Ids \X Uids) /\ Len(w.known) = Len(w.rows) + Len(rows) - i
    /\ \A a \in 1..(Len(w.rows) + Len(rows) - i) :
          w.known[a] = IF a <= Len(w.rows) THEN Key(w.rows[a]) ELSE Key(rows[a - Len(w.rows) + i])

(* A pair of rows and knowledge with one of them changed. *)
LEMMA WalkUpdates ==
    ASSUME NEW w, NEW a, NEW b, w = [rows |-> a, known |-> b], NEW x
    PROVE  [w EXCEPT !.rows = x] = [rows |-> x, known |-> b] /\ [w EXCEPT !.known = x] = [rows |-> a, known |-> x]
OBVIOUS

(* A row that stays. *)
LEMMA WalkOverKept ==
    ASSUME NEW rows \in Seq(Message), Ascending(rows), NEW keys, NEW i \in 1..Len(rows), NEW w,
           Walked(w, rows, keys, i - 1), Key(rows[i]) \in keys
    PROVE  Walked([w EXCEPT !.rows = Append(@, rows[i])], rows, keys, i)
<1> DEFINE k == w.rows
           q == Append(k, rows[i])
<1>1. k \in Seq(Message) /\ Len(k) \in Nat /\ Len(k) <= i - 1 /\ Len(rows) \in Nat /\ i \in Nat /\ rows[i] \in Message
    BY DEF Walked
<1>2. q \in Seq(Message) /\ Len(q) = Len(k) + 1 /\ q[Len(k) + 1] = rows[i] /\ \A a \in 1..Len(k) : q[a] = k[a]
    <2>1. Message # {} BY <1>1
    <2> HIDE DEF k
    <2> QED BY <1>1, AppendProperties
<1>3. \A a \in 1..Len(k) : \E l \in 1..(i - 1) : k[a] = rows[l] /\ Key(rows[l]) \in keys BY DEF Walked
<1>4. \A a, b \in 1..Len(k) : a < b => k[a].uid < k[b].uid
    <2>1. DOMAIN k = 1..Len(k) BY <1>1
    <2> QED BY <2>1 DEF Walked, Ascending
<1>5. [w EXCEPT !.rows = q] = [rows |-> q, known |-> w.known]
    <2>1. w = [rows |-> w.rows, known |-> w.known] BY DEF Walked
    <2> HIDE DEF q
    <2> QED BY <2>1, WalkUpdates
<1>6. /\ \A l \in 1..(i - 1) : Key(rows[l]) \in keys => \E a \in 1..Len(k) : k[a] = rows[l]
      /\ w.known \in Seq(Ids \X Uids) /\ Len(w.known) = Len(k) + Len(rows) - (i - 1)
      /\ \A a \in 1..(Len(k) + Len(rows) - (i - 1)) :
            w.known[a] = IF a <= Len(k) THEN Key(k[a]) ELSE Key(rows[a - Len(k) + (i - 1)])
    BY DEF Walked
<1> HIDE DEF q, k
<1>7. \A l \in 1..(i - 1) : rows[l].uid < rows[i].uid
    <2>1. DOMAIN rows = 1..Len(rows) OBVIOUS
    <2> QED BY <1>1, <2>1 DEF Ascending
<1>8. Ascending(q)
    <2>1. DOMAIN q = 1..(Len(k) + 1) BY <1>1, <1>2
    <2>2. SUFFICES ASSUME NEW a \in 1..(Len(k) + 1), NEW b \in 1..(Len(k) + 1), a < b PROVE q[a].uid < q[b].uid
        BY <2>1 DEF Ascending
    <2>3. a \in 1..Len(k) /\ q[a] = k[a] BY <1>1, <1>2, <2>2
    <2>4. CASE b = Len(k) + 1 BY <1>2, <1>3, <1>7, <2>3, <2>4
    <2>5. CASE b # Len(k) + 1
        <3>1. b \in 1..Len(k) /\ q[b] = k[b] BY <1>1, <1>2, <2>5
        <3> QED BY <1>4, <2>2, <2>3, <3>1
    <2> QED BY <2>4, <2>5
<1>9. ASSUME NEW a \in 1..Len(q) PROVE \E l \in 1..i : q[a] = rows[l] /\ Key(rows[l]) \in keys
    <2>1. CASE a = Len(k) + 1 BY <1>1, <1>2, <2>1
    <2>2. CASE a # Len(k) + 1
        <3>1. a \in 1..Len(k) /\ q[a] = k[a] BY <1>1, <1>2, <2>2
        <3>2. PICK l \in 1..(i - 1) : k[a] = rows[l] /\ Key(rows[l]) \in keys BY <1>3, <3>1
        <3> QED BY <1>1, <3>1, <3>2
    <2> QED BY <2>1, <2>2
<1>10. ASSUME NEW l \in 1..i, Key(rows[l]) \in keys PROVE \E a \in 1..Len(q) : q[a] = rows[l]
    <2>1. CASE l = i BY <1>1, <1>2, <2>1
    <2>2. CASE l # i
        <3>1. l \in 1..(i - 1) BY <1>1, <2>2
        <3>2. PICK a \in 1..Len(k) : k[a] = rows[l] BY <1>6, <1>10, <3>1
        <3> QED BY <1>1, <1>2, <3>2
    <2> QED BY <2>1, <2>2
<1>11. ASSUME NEW a \in 1..(Len(q) + Len(rows) - i)
       PROVE  w.known[a] = IF a <= Len(q) THEN Key(q[a]) ELSE Key(rows[a - Len(q) + i])
    <2>1. a \in 1..(Len(k) + Len(rows) - (i - 1)) BY <1>1, <1>2
    <2>2. CASE a <= Len(k)
        <3>1. a \in 1..Len(k) BY <1>1, <2>2
        <3> QED BY <1>1, <1>2, <1>6, <2>1, <2>2, <3>1
    <2>3. CASE a = Len(k) + 1
        <3>1. a - Len(k) + (i - 1) = i /\ ~(a <= Len(k)) /\ a <= Len(q) BY <1>1, <1>2, <2>3
        <3> QED BY <1>2, <1>6, <2>1, <2>3, <3>1
    <2>4. CASE a > Len(k) + 1
        <3>0. Len(q) = Len(k) + 1 /\ Len(k) \in Nat /\ i \in Nat /\ a \in Nat /\ Len(rows) \in Nat BY <1>1, <1>2, <2>1
        <3>1. a - Len(k) + (i - 1) = a - Len(q) + i /\ ~(a <= Len(k)) /\ ~(a <= Len(q)) BY ONLY <3>0, <2>4
        <3> QED BY <1>6, <2>1, <3>1
    <2> QED BY <1>1, <2>2, <2>3, <2>4
<1>12. Len(w.known) = Len(q) + Len(rows) - i /\ Len(q) <= i BY <1>1, <1>2, <1>6
<1> DEFINE x == [rows |-> q, known |-> w.known]
<1>13. x.rows = q /\ x.known = w.known /\ x = [rows |-> x.rows, known |-> x.known] OBVIOUS
<1> HIDE DEF x
<1>14. Walked(x, rows, keys, i) BY <1>2, <1>6, <1>8, <1>9, <1>10, <1>11, <1>12, <1>13 DEF Walked
<1> QED BY <1>5, <1>14 DEF x, q, k

(* A row that is announced, under the number that the client still has for it. *)
LEMMA WalkOverGone ==
    ASSUME NEW rows \in Seq(Message), NEW keys, NEW i \in 1..Len(rows), NEW w,
           Walked(w, rows, keys, i - 1), Key(rows[i]) \notin keys
    PROVE  Walked([w EXCEPT !.known = Without(@, Number(w.rows, i))], rows, keys, i)
<1> DEFINE k == w.rows
           n == Number(k, i)
           now == Without(w.known, n)
<1>1. k \in Seq(Message) /\ Len(k) \in Nat /\ Len(k) <= i - 1 /\ Len(rows) \in Nat /\ i \in Nat /\ 1 <= i /\ i <= Len(rows)
    BY DEF Walked
<1>2. /\ Ascending(k)
      /\ \A a \in 1..Len(k) : \E l \in 1..(i - 1) : k[a] = rows[l] /\ Key(rows[l]) \in keys
      /\ \A l \in 1..(i - 1) : Key(rows[l]) \in keys => \E a \in 1..Len(k) : k[a] = rows[l]
      /\ w.known \in Seq(Ids \X Uids) /\ Len(w.known) = Len(k) + Len(rows) - (i - 1)
      /\ \A a \in 1..(Len(k) + Len(rows) - (i - 1)) :
            w.known[a] = IF a <= Len(k) THEN Key(k[a]) ELSE Key(rows[a - Len(k) + (i - 1)])
    BY DEF Walked
<1>3. [w EXCEPT !.known = now] = [rows |-> k, known |-> now]
    <2>1. w = [rows |-> w.rows, known |-> w.known] BY DEF Walked
    <2> HIDE DEF now
    <2> QED BY <2>1, WalkUpdates
<1>4. n = Len(k) + 1 BY DEF Number
<1> HIDE DEF n, k
<1>5. n \in 1..Len(w.known) BY <1>1, <1>2, <1>4
<1>6. /\ now \in Seq(Ids \X Uids) /\ Len(now) = Len(w.known) - 1
      /\ \A a \in 1..(Len(w.known) - 1) : now[a] = IF a < n THEN w.known[a] ELSE w.known[a + 1]
    BY <1>2, <1>5, WithoutParts
<1> HIDE DEF now
<1>7. ASSUME NEW a \in 1..(Len(k) + Len(rows) - i)
      PROVE  now[a] = IF a <= Len(k) THEN Key(k[a]) ELSE Key(rows[a - Len(k) + i])
    <2>1. a \in 1..(Len(w.known) - 1) /\ a \in 1..(Len(k) + Len(rows) - (i - 1))
          /\ a + 1 \in 1..(Len(k) + Len(rows) - (i - 1))
        BY <1>1, <1>2
    <2>2. CASE a <= Len(k)
        <3>1. a < n BY <1>1, <1>4, <2>2
        <3> QED BY <1>2, <1>6, <2>1, <2>2, <3>1
    <2>3. CASE ~(a <= Len(k))
        <3>1. ~(a < n) /\ ~(a + 1 <= Len(k)) /\ (a + 1) - Len(k) + (i - 1) = a - Len(k) + i BY <1>1, <1>4, <2>3
        <3>2. w.known[a + 1] = Key(rows[(a + 1) - Len(k) + (i - 1)]) BY <1>2, <2>1, <3>1
        <3> QED BY <1>6, <2>1, <2>3, <3>1, <3>2
    <2> QED BY <2>2, <2>3
<1>8. Len(now) = Len(k) + Len(rows) - i /\ Len(k) <= i BY <1>1, <1>2, <1>6
<1>9. ASSUME NEW a \in 1..Len(k) PROVE \E l \in 1..i : k[a] = rows[l] /\ Key(rows[l]) \in keys
    <2>1. PICK l \in 1..(i - 1) : k[a] = rows[l] /\ Key(rows[l]) \in keys BY <1>2
    <2> QED BY <1>1, <2>1
<1>10. ASSUME NEW l \in 1..i, Key(rows[l]) \in keys PROVE \E a \in 1..Len(k) : k[a] = rows[l]
    <2>1. l # i BY <1>10
    <2>2. l \in 1..(i - 1) BY <1>1, <2>1
    <2> QED BY <1>2, <1>10, <2>2
<1> DEFINE x == [rows |-> k, known |-> now]
<1>11. x.rows = k /\ x.known = now /\ x = [rows |-> x.rows, known |-> x.known] OBVIOUS
<1> HIDE DEF x
<1>12. Walked(x, rows, keys, i) BY <1>1, <1>2, <1>6, <1>7, <1>8, <1>9, <1>10, <1>11 DEF Walked
<1> QED BY <1>3, <1>12 DEF x, now, n, k

(* The loop starts with what the client knows. *)
LEMMA WalkStarts ==
    ASSUME NEW rows \in Seq(Message), NEW keys
    PROVE  Walked([rows |-> <<>>, known |-> Keys(rows)], rows, keys, 0)
<1> DEFINE x == [rows |-> <<>>, known |-> Keys(rows)]
<1>1. x.rows = <<>> /\ x.known = Keys(rows) /\ x = [rows |-> x.rows, known |-> x.known] OBVIOUS
<1>2. <<>> \in Seq(Message) /\ Len(<<>>) = 0 /\ Ascending(<<>>) BY DEF Ascending
<1>3. \A i \in 1..Len(rows) : rows[i] \in Message /\ Key(rows[i]) \in Ids \X Uids
    <2>1. \A m \in Message : Key(m) \in Ids \X Uids BY DEF Key, Message
    <2> QED BY <2>1
<1>4. Keys(rows) = [i \in 1..Len(rows) |-> Key(rows[i])]
    <2>1. DOMAIN rows = 1..Len(rows) OBVIOUS
    <2> QED BY <2>1 DEF Keys
<1>5. Keys(rows) \in Seq(Ids \X Uids) /\ Len(Keys(rows)) = Len(rows) BY <1>3, <1>4
<1>6. \A a \in 1..(0 + Len(rows) - 0) : Keys(rows)[a] = Key(rows[a - 0 + 0]) /\ ~(a <= 0) BY <1>4
<1> HIDE DEF x
<1>7. Len(rows) \in Nat OBVIOUS
<1>8. /\ x.known \in Seq(Ids \X Uids) /\ Len(x.known) = Len(x.rows) + Len(rows) - 0
      /\ x.rows \in Seq(Message) /\ Len(x.rows) <= 0 /\ Ascending(x.rows)
    BY <1>1, <1>2, <1>5, <1>7
<1>9. \A a \in 1..(Len(x.rows) + Len(rows) - 0) :
          x.known[a] = IF a <= Len(x.rows) THEN Key(x.rows[a]) ELSE Key(rows[a - Len(x.rows) + 0])
    BY <1>1, <1>2, <1>6
<1>10. (\A a \in 1..Len(x.rows) : FALSE) /\ (\A l \in 1..0 : FALSE) BY <1>1, <1>2
<1>11. Walked(x, rows, keys, 0) BY <1>1, <1>8, <1>9, <1>10 DEF Walked
<1> QED BY <1>11 DEF x

(* What a client is told keeps its numbers those of the session: after the
   EXPUNGE responses both have the rows with a key among keys, in order.     *)
LEMMA ExpungesAgree ==
    ASSUME NEW rows \in Seq(Message), Ascending(rows), NEW keys
    PROVE  Walked(Expunges(Keys(rows), rows, keys), rows, keys, Len(rows))
<1> DEFINE g == CHOOSE x : Walks(x, Keys(rows), rows, keys)
           T == {n \in Nat : n <= Len(rows) /\ ~Walked(g[n], rows, keys, n)}
<1>1. Len(rows) \in Nat OBVIOUS
<1>2. Walks(g, Keys(rows), rows, keys) BY <1>1, WalkExists
<1> HIDE DEF g
<1>3. \A i \in 0..Len(rows) : g[i] = WalkStep(g, Keys(rows), rows, keys, i) BY <1>2 DEF Walks
<1>4. ASSUME T # {} PROVE FALSE
    <2>1. PICK n \in T : \A k \in Nat : k < n => k \notin T BY <1>4, LeastOf
    <2>2. n \in Nat /\ n <= Len(rows) /\ ~Walked(g[n], rows, keys, n) OBVIOUS
    <2>3. g[n] = WalkStep(g, Keys(rows), rows, keys, n) BY <1>1, <1>3, <2>2
    <2>4. CASE n = 0 BY <2>2, <2>3, <2>4, WalkStarts DEF WalkStep
    <2>5. CASE n # 0
        <3>1. n - 1 \in Nat /\ n - 1 < n /\ n - 1 <= Len(rows) /\ n \in 1..Len(rows) BY <1>1, <2>2, <2>5
        <3>2. n - 1 \notin T
            <4> HIDE DEF T
            <4> QED BY <2>1, <3>1
        <3>3. Walked(g[n - 1], rows, keys, n - 1) BY <3>1, <3>2
        <3>4. CASE Key(rows[n]) \in keys
            <4>1. g[n] = [g[n - 1] EXCEPT !.rows = Append(@, rows[n])] BY <2>3, <2>5, <3>4 DEF WalkStep
            <4> QED BY <2>2, <3>1, <3>3, <3>4, <4>1, WalkOverKept
        <3>5. CASE Key(rows[n]) \notin keys
            <4>1. g[n] = [g[n - 1] EXCEPT !.known = Without(@, Number(g[n - 1].rows, n))]
                BY <2>3, <2>5, <3>5 DEF WalkStep
            <4> QED BY <2>2, <3>1, <3>3, <3>5, <4>1, WalkOverGone
        <3> QED BY <3>4, <3>5
    <2> QED BY <2>4, <2>5
<1>5. Walked(g[Len(rows)], rows, keys, Len(rows)) BY <1>1, <1>4
<1> QED BY <1>5, ExpungesWalk DEF g

(* What the client is told of a list: the key of each row. *)
KeysAreKeys ==
    \A r \in Seq(Message) : /\ Keys(r) = [i \in 1..Len(r) |-> Key(r[i])]
                            /\ Keys(r) \in Seq(Ids \X Uids) /\ Len(Keys(r)) = Len(r)

LEMMA KeysOfRows == KeysAreKeys
<1>1. SUFFICES ASSUME NEW r \in Seq(Message)
               PROVE  /\ Keys(r) = [i \in 1..Len(r) |-> Key(r[i])]
                      /\ Keys(r) \in Seq(Ids \X Uids) /\ Len(Keys(r)) = Len(r)
    BY DEF KeysAreKeys
<1>2. \A i \in 1..Len(r) : r[i] \in Message /\ Key(r[i]) \in Ids \X Uids
    <2>1. \A m \in Message : Key(m) \in Ids \X Uids BY DEF Key, Message
    <2> QED BY <2>1
<1>3. Keys(r) = [i \in 1..Len(r) |-> Key(r[i])]
    <2>1. DOMAIN r = 1..Len(r) OBVIOUS
    <2> QED BY <2>1 DEF Keys
<1> QED BY <1>2, <1>3

(* After the last row the client knows the rows that stay. *)
LEMMA WalkEnds ==
    ASSUME NEW rows \in Seq(Message), NEW keys, NEW w, Walked(w, rows, keys, Len(rows))
    PROVE  w.known = Keys(w.rows)
<1>1. /\ w.rows \in Seq(Message) /\ w.known \in Seq(Ids \X Uids) /\ Len(w.known) = Len(w.rows) + Len(rows) - Len(rows)
      /\ \A a \in 1..(Len(w.rows) + Len(rows) - Len(rows)) :
            w.known[a] = IF a <= Len(w.rows) THEN Key(w.rows[a]) ELSE Key(rows[a - Len(w.rows) + Len(rows)])
    BY DEF Walked
<1>2. Len(w.rows) \in Nat /\ Len(rows) \in Nat BY <1>1
<1>3. Len(w.known) = Len(w.rows) BY <1>1, <1>2
<1>4. ASSUME NEW a \in 1..Len(w.rows) PROVE w.known[a] = Key(w.rows[a])
    <2>1. a \in 1..(Len(w.rows) + Len(rows) - Len(rows)) /\ a <= Len(w.rows) BY <1>2
    <2> QED BY <1>1, <2>1, Zenon
<1>5. w.known = [a \in 1..Len(w.rows) |-> w.known[a]] BY <1>1, <1>3
<1>6. Keys(w.rows) = [a \in 1..Len(w.rows) |-> Key(w.rows[a])] BY <1>1, KeysOfRows DEF KeysAreKeys
<1> QED BY <1>4, <1>5, <1>6

(* Rows of which none was between others before: those that were there come first. *)
LEMMA KeptIsPrefix ==
    ASSUME NEW k \in Seq(Message), Ascending(k), NEW c \in Seq(Message), Ascending(c),
           \A a \in 1..Len(k) : \E j \in 1..Len(c) : Key(k[a]) = Key(c[j]),
           \A j \in 1..Len(c) : \/ \E a \in 1..Len(k) : Key(k[a]) = Key(c[j])
                                \/ \A a \in 1..Len(k) : k[a].uid < c[j].uid
    PROVE  Len(k) <= Len(c) /\ \A a \in 1..Len(k) : Key(k[a]) = Key(c[a])
<1> DEFINE Fits(a) == a <= Len(c) /\ Key(k[a]) = Key(c[a])
           T == {a \in Nat : a \in 1..Len(k) /\ ~Fits(a)}
<1>1. Len(k) \in Nat /\ Len(c) \in Nat /\ DOMAIN k = 1..Len(k) /\ DOMAIN c = 1..Len(c) OBVIOUS
<1>2. /\ \A a \in 1..Len(k) : k[a].uid \in Nat
      /\ \A j \in 1..Len(c) : c[j].uid \in Nat
    <2>1. \A a \in 1..Len(k) : k[a] \in Message OBVIOUS
    <2>2. \A j \in 1..Len(c) : c[j] \in Message OBVIOUS
    <2> QED BY <2>1, <2>2, UidsAreNumbers
<1>3. \A m, n : Key(m) = Key(n) => m.uid = n.uid BY DEF Key
<1>4. /\ \A a, b \in 1..Len(k) : a < b => k[a].uid < k[b].uid
      /\ \A a, b \in 1..Len(c) : a < b => c[a].uid < c[b].uid
    BY <1>1 DEF Ascending
<1>5. ASSUME T # {} PROVE FALSE
    <2>1. PICK a \in T : \A b \in Nat : b < a => b \notin T BY <1>5, LeastOf
    <2>2. a \in Nat /\ a \in 1..Len(k) /\ ~Fits(a) OBVIOUS
    <2>3. ASSUME NEW b \in 1..Len(k), b < a PROVE b \in 1..Len(c) /\ Key(k[b]) = Key(c[b])
        <3>1. b \in Nat OBVIOUS
        <3>2. b \notin T
            <4> HIDE DEF T
            <4> QED BY <2>1, <2>3, <3>1
        <3>3. Fits(b) BY <3>1, <3>2
        <3> QED BY <1>1, <3>3
    <2>4. PICK j \in 1..Len(c) : Key(k[a]) = Key(c[j]) BY <2>2
    <2>5. k[a].uid = c[j].uid BY <1>3, <2>4
    <2>6. ~(j < a)
        <3>1. CASE j < a
            <4>1. j \in 1..Len(k) BY <1>1, <2>2, <3>1
            <4>2. k[j].uid = c[j].uid BY <1>3, <2>3, <3>1, <4>1
            <4>3. k[j].uid < k[a].uid BY <1>4, <2>2, <3>1, <4>1
            <4> QED BY <1>2, <2>2, <2>5, <4>1, <4>2, <4>3
        <3> QED BY <3>1
    <2>7. a \in 1..Len(c) BY <1>1, <2>2, <2>6
    <2>8. a # j BY <1>1, <2>2, <2>4, <2>7
    <2>9. c[a].uid < k[a].uid BY <1>1, <1>4, <2>2, <2>5, <2>6, <2>7, <2>8
    <2>10. CASE \E b \in 1..Len(k) : Key(k[b]) = Key(c[a])
        <3>1. PICK b \in 1..Len(k) : Key(k[b]) = Key(c[a]) BY <2>10
        <3>2. k[b].uid = c[a].uid BY <1>3, <3>1
        <3>3. b < a
            <4>1. ~(k[a].uid < k[b].uid) /\ k[a].uid # k[b].uid BY <1>2, <2>2, <2>9, <3>2
            <4>2. ~(a < b) /\ a # b BY <1>4, <2>2, <4>1
            <4> QED BY <1>1, <2>2, <4>2
        <3>4. b \in 1..Len(c) /\ k[b].uid = c[b].uid BY <1>3, <2>3, <3>3
        <3>5. c[b].uid < c[a].uid BY <1>4, <2>7, <3>3, <3>4
        <3> QED BY <1>2, <2>7, <3>2, <3>4, <3>5
    <2>11. CASE \A b \in 1..Len(k) : k[b].uid < c[a].uid
        <3>1. k[a].uid < c[a].uid BY <2>2, <2>11
        <3> QED BY <1>2, <2>2, <2>7, <2>9, <3>1
    <2> QED BY <2>7, <2>10, <2>11
<1>6. \A a \in 1..Len(k) : Fits(a) BY <1>5
<1>7. Len(k) <= Len(c)
    <2>1. CASE Len(k) = 0 BY <1>1, <2>1
    <2>2. CASE Len(k) # 0
        <3>1. Len(k) \in 1..Len(k) BY <1>1, <2>2
        <3> QED BY <1>6, <3>1
    <2> QED BY <2>1, <2>2
<1> QED BY <1>6, <1>7

(* EXISTS completes what a client knows of a list that it has the beginning of. *)
LEMMA ExistsCompletes ==
    ASSUME NEW k \in Seq(Message), NEW c \in Seq(Message), Len(k) <= Len(c),
           \A a \in 1..Len(k) : Key(k[a]) = Key(c[a])
    PROVE  AfterExists(Keys(k), c) = Keys(c)
<1> DEFINE known == Keys(k)
           all == Keys(c)
           rest == SubSeq(all, Len(known) + 1, Len(c))
<1>1. Len(k) \in Nat /\ Len(c) \in Nat OBVIOUS
<1>2. /\ known \in Seq(Ids \X Uids) /\ Len(known) = Len(k) /\ \A a \in 1..Len(k) : known[a] = Key(k[a])
      /\ all \in Seq(Ids \X Uids) /\ Len(all) = Len(c) /\ \A a \in 1..Len(c) : all[a] = Key(c[a])
    <2>1. known = [a \in 1..Len(k) |-> Key(k[a])] /\ known \in Seq(Ids \X Uids) /\ Len(known) = Len(k)
        BY KeysOfRows DEF KeysAreKeys
    <2>2. all = [a \in 1..Len(c) |-> Key(c[a])] /\ all \in Seq(Ids \X Uids) /\ Len(all) = Len(c)
        BY KeysOfRows DEF KeysAreKeys
    <2> HIDE DEF known, all
    <2> QED BY <2>1, <2>2
<1>3. AfterExists(Keys(k), c) = known \o rest BY DEF AfterExists
<1> HIDE DEF known, all
<1>4. rest \in Seq(Ids \X Uids) /\ Len(rest) = Len(c) - Len(k) /\ \A a \in 1..(Len(c) - Len(k)) : rest[a] = all[Len(k) + a]
    <2>1. Len(k) + 1 \in Int /\ Len(c) \in Int /\ \A i \in (Len(k) + 1)..Len(c) : all[i] \in Ids \X Uids BY <1>1, <1>2
    <2>2. rest = SubSeq(all, Len(k) + 1, Len(c)) BY <1>2
    <2> HIDE DEF rest
    <2>3. /\ SubSeq(all, Len(k) + 1, Len(c)) \in Seq(Ids \X Uids)
          /\ Len(SubSeq(all, Len(k) + 1, Len(c))) = IF Len(k) + 1 <= Len(c) THEN Len(c) - (Len(k) + 1) + 1 ELSE 0
          /\ \A i \in 1 .. Len(c) - (Len(k) + 1) + 1 : SubSeq(all, Len(k) + 1, Len(c))[i] = all[Len(k) + 1 + i - 1]
        BY <2>1, SubSeqProperties
    <2>4. /\ rest \in Seq(Ids \X Uids)
          /\ Len(rest) = IF Len(k) + 1 <= Len(c) THEN Len(c) - (Len(k) + 1) + 1 ELSE 0
          /\ \A i \in 1 .. Len(c) - (Len(k) + 1) + 1 : rest[i] = all[Len(k) + 1 + i - 1]
        BY <2>2, <2>3, Zenon
    <2>5. \A i \in 1..(Len(c) - Len(k)) : i \in 1 .. Len(c) - (Len(k) + 1) + 1 /\ Len(k) + 1 + i - 1 = Len(k) + i BY <1>1
    <2> QED BY <1>1, <2>4, <2>5
<1> HIDE DEF rest
<1>5. /\ known \o rest \in Seq(Ids \X Uids) /\ Len(known \o rest) = Len(known) + Len(rest)
      /\ \A i \in 1 .. Len(known) + Len(rest) :
            (known \o rest)[i] = IF i <= Len(known) THEN known[i] ELSE rest[i - Len(known)]
    <2>1. known \in Seq(Ids \X Uids) /\ rest \in Seq(Ids \X Uids) BY <1>2, <1>4
    <2> QED BY <2>1, ConcatProperties
<1>6. Len(known \o rest) = Len(c) BY <1>1, <1>2, <1>4, <1>5
<1>7. ASSUME NEW i \in 1..Len(c) PROVE (known \o rest)[i] = all[i]
    <2>1. i \in 1 .. Len(known) + Len(rest) BY <1>1, <1>2, <1>4
    <2>2. (known \o rest)[i] = IF i <= Len(known) THEN known[i] ELSE rest[i - Len(known)] BY <1>5, <2>1, Zenon
    <2>3. CASE i <= Len(k)
        <3>1. i \in 1..Len(k) BY <1>1, <2>3
        <3> QED BY <1>2, <2>2, <2>3, <3>1
    <2>4. CASE ~(i <= Len(k))
        <3>1. i - Len(k) \in 1..(Len(c) - Len(k)) /\ Len(k) + (i - Len(k)) = i BY <1>1, <2>4
        <3> QED BY <1>2, <1>4, <2>2, <2>4, <3>1
    <2> QED BY <2>3, <2>4
<1> DEFINE both == known \o rest
<1>8. both \in Seq(Ids \X Uids) /\ Len(both) = Len(c) /\ \A i \in 1..Len(c) : both[i] = all[i] BY <1>5, <1>6, <1>7
<1> HIDE DEF both
<1>9. both = [i \in 1..Len(c) |-> both[i]] /\ all = [i \in 1..Len(c) |-> all[i]] BY <1>2, <1>8
<1>10. both = all BY <1>8, <1>9
<1> QED BY <1>3, <1>10 DEF both, all

(* The rows of a list that others were removed from or put behind. *)
Behind(rows, c) ==
    \A j \in 1..Len(c) :
        \/ \E l \in 1..Len(rows) : Key(rows[l]) = Key(c[j])
        \/ \A l \in 1..Len(rows) : rows[l].uid < c[j].uid
        \/ \A i \in 1..Len(c), l \in 1..Len(rows) : Key(rows[l]) # Key(c[i])

(* A refresh tells the client what the session then has. *)
LEMMA ToldIsListed ==
    ASSUME NEW rows \in Seq(Message), Ascending(rows), NEW c \in Seq(Message), Ascending(c), Behind(rows, c)
    PROVE  Told(Keys(rows), rows, c) = Keys(c)
<1> DEFINE keys == {Key(c[i]) : i \in DOMAIN c}
           w == Expunges(Keys(rows), rows, keys)
           k == w.rows
<1>1. Told(Keys(rows), rows, c) =
        IF Len(c) # Len(rows) \/ Len(c) # Len(k) THEN AfterExists(w.known, c) ELSE w.known
    BY DEF Told
<1>2. Walked(w, rows, keys, Len(rows)) BY ExpungesAgree
<1>3. \A x : x \in keys <=> \E i \in 1..Len(c) : x = Key(c[i])
    <2>1. DOMAIN c = 1..Len(c) OBVIOUS
    <2> QED BY <2>1
<1> HIDE DEF keys, w
<1>4. w.known = Keys(k) BY <1>2, WalkEnds
<1>5. /\ k \in Seq(Message) /\ Ascending(k)
      /\ \A a \in 1..Len(k) : \E l \in 1..Len(rows) : k[a] = rows[l] /\ Key(rows[l]) \in keys
      /\ \A l \in 1..Len(rows) : Key(rows[l]) \in keys => \E a \in 1..Len(k) : k[a] = rows[l]
    BY <1>2 DEF Walked
<1> HIDE DEF k
<1>6. \A a \in 1..Len(k) : \E j \in 1..Len(c) : Key(k[a]) = Key(c[j]) BY <1>3, <1>5
<1>7. ASSUME NEW j \in 1..Len(c)
      PROVE  (\E a \in 1..Len(k) : Key(k[a]) = Key(c[j])) \/ (\A a \in 1..Len(k) : k[a].uid < c[j].uid)
    <2>1. CASE \E l \in 1..Len(rows) : Key(rows[l]) = Key(c[j])
        <3>1. PICK l \in 1..Len(rows) : Key(rows[l]) = Key(c[j]) BY <2>1
        <3>2. Key(rows[l]) \in keys BY <1>3, <3>1
        <3> QED BY <1>5, <3>1, <3>2
    <2>2. CASE \A l \in 1..Len(rows) : rows[l].uid < c[j].uid BY <1>5, <2>2
    <2>3. CASE \A i \in 1..Len(c), l \in 1..Len(rows) : Key(rows[l]) # Key(c[i]) BY <1>3, <1>5, <2>3
    <2> QED BY <2>1, <2>2, <2>3 DEF Behind
<1>8. Len(k) <= Len(c) /\ \A a \in 1..Len(k) : Key(k[a]) = Key(c[a]) BY <1>5, <1>6, <1>7, KeptIsPrefix
<1>9. AfterExists(Keys(k), c) = Keys(c) BY <1>5, <1>8, ExistsCompletes
<1>10. ASSUME Len(c) = Len(k) PROVE Keys(k) = Keys(c)
    <2>1. Keys(k) = [a \in 1..Len(k) |-> Key(k[a])] /\ Keys(c) = [a \in 1..Len(c) |-> Key(c[a])]
        BY <1>5, KeysOfRows DEF KeysAreKeys
    <2> QED BY <1>8, <1>10, <2>1
<1> QED BY <1>1, <1>4, <1>9, <1>10 DEF k

-----------------------------------------------------------------------------
(* Two messages in one folder after a step are new, one of them, or were in one
   folder before, under the same UIDs.                                       *)
Together ==
    \A k, n \in messages' :
        k.folder = n.folder =>
            \/ k.uid >= uidnext \/ n.uid >= uidnext
            \/ \E o, q \in messages : Key(o) = Key(k) /\ Key(q) = Key(n) /\ o.folder = q.folder

(* What is not new has stayed where it was. *)
LEMMA StaysTogether ==
    ASSUME \A m \in messages' :
              m.uid >= uidnext \/ \E k \in messages : Key(k) = Key(m) /\ k.folder = m.folder
    PROVE  Together
<1>1. SUFFICES ASSUME NEW k \in messages', NEW n \in messages', k.folder = n.folder,
                      ~(k.uid >= uidnext), ~(n.uid >= uidnext)
               PROVE  \E o, q \in messages : Key(o) = Key(k) /\ Key(q) = Key(n) /\ o.folder = q.folder
    BY DEF Together
<1>2. PICK o \in messages : Key(o) = Key(k) /\ o.folder = k.folder BY <1>1
<1>3. PICK q \in messages : Key(q) = Key(n) /\ q.folder = n.folder BY <1>1
<1> QED BY <1>1, <1>2, <1>3

LEMMA MessageStepTogether ==
    ASSUME MailboxInv, CatalogInv, MessageStep
    PROVE  Together
<1>1. messages \in SUBSET Message /\ uidnext \in Nat BY WhatIsKnown
<1>2. ASSUME NEW i, NEW f, NEW z, NEW d, Insert(i, f, z, d) PROVE Together
    <2>1. messages' = messages \cup {[id |-> i, uid |-> uidnext, folder |-> f, size |-> z, deleted |-> d]}
        BY <1>2 DEF Insert
    <2>2. \A m \in messages' : m.uid >= uidnext \/ m \in messages BY <1>1, <2>1
    <2> QED BY <2>2, StaysTogether
<1>3. ASSUME NEW i, NEW f, NEW z, Rewrite(i, 0, f, z) PROVE Together
    <2>1. PICK old \in messages : messages' = (messages \ {old}) \cup
                {[old EXCEPT !.uid = RewriteUid(old), !.size = z, !.folder = f]}
        BY <1>3 DEF Rewrite, In
    <2> DEFINE new == [old EXCEPT !.uid = uidnext, !.size = z, !.folder = f]
    <2>2. new.uid = uidnext BY <1>1 DEF Message
    <2>3. messages' = (messages \ {old}) \cup {new} BY <2>1 DEF RewriteUid
    <2> HIDE DEF new
    <2>4. \A m \in messages' : m.uid >= uidnext \/ m \in messages BY <1>1, <2>2, <2>3
    <2> QED BY <2>4, StaysTogether
<1>4. ASSUME NEW i, NEW d, SetDeleted(i, 0, <<>>, d) PROVE Together
    <2>1. PICK old \in messages : messages' = (messages \ {old}) \cup {[old EXCEPT !.deleted = d]}
        BY <1>4 DEF SetDeleted, In
    <2> DEFINE new == [old EXCEPT !.deleted = d]
    <2>2. Key(new) = Key(old) /\ new.folder = old.folder BY <1>1 DEF Message, Key
    <2> HIDE DEF new
    <2>3. \A m \in messages' : \E k \in messages : Key(k) = Key(m) /\ k.folder = m.folder BY <2>1, <2>2 DEF new
    <2> QED BY <2>3, StaysTogether
<1> QED BY <1>2, <1>3, <1>4 DEF MessageStep

LEMMA RelocateTogether ==
    ASSUME MailboxInv, CatalogInv, NEW ids \in SUBSET Ids, NEW target, Relocate(ids, target)
    PROVE  Together
<1>1. RowsTyped /\ messages \in SUBSET Message /\ uidnext \in Nat BY WhatIsKnown
<1>2. Allocate(Cardinality(ids)) BY DEF Relocate
<1>3. PICK uids \in FreshUids(ids) :
        messages' = (messages \ In(ids)) \cup {[m EXCEPT !.uid = uids[m.id], !.folder = target] : m \in In(ids)}
    BY DEF Relocate
<1>4. \A i \in ids : uids[i] >= uidnext BY <1>1, <1>2, BatchUids
<1>5. \A m \in messages' : m.uid >= uidnext \/ m \in messages BY <1>1, <1>3, <1>4 DEF In, Message
<1> QED BY <1>5, StaysTogether

LEMMA BatchStepTogether ==
    ASSUME MailboxInv, CatalogInv, BatchStep
    PROVE  Together
<1>1. RowsTyped /\ messages \in SUBSET Message /\ uidnext \in Nat BY WhatIsKnown
<1>2. \A ids \in Batches : ids \in SUBSET Ids BY DEF Batches
<1>3. ASSUME NEW ids \in SUBSET Ids, NEW f, NEW t, Copy(ids, Unguarded(ids), f, t) PROVE Together
    <2>1. PICK uids \in FreshUids(ids), new \in [ids -> Ids \ used] :
            messages' = messages \cup
                {[m EXCEPT !.id = new[m.id], !.uid = uids[m.id], !.folder = t] : m \in In(ids)}
        BY <1>3 DEF Copy
    <2>2. Allocate(Cardinality(ids)) BY <1>3 DEF Copy
    <2>3. \A i \in ids : uids[i] >= uidnext BY <1>1, <2>2, BatchUids
    <2>4. \A m \in messages' : m.uid >= uidnext \/ m \in messages BY <1>1, <2>1, <2>3 DEF In, Message
    <2> QED BY <2>4, StaysTogether
<1>4. ASSUME NEW ids \in SUBSET Ids, NEW f, NEW t, MoveAll(ids, Unguarded(ids), f, t) PROVE Together
    BY <1>4, RelocateTogether DEF MoveAll
<1>5. ASSUME NEW ids \in SUBSET Ids, NEW t, MoveSome(ids, t) PROVE Together
    <2> DEFINE moved == {m.id : m \in {n \in In(ids) : n.folder # t}}
    <2>1. moved \in SUBSET Ids BY <1>1 DEF In, Message
    <2>2. Relocate(moved, t) BY <1>5 DEF MoveSome
    <2> QED BY <2>1, <2>2, RelocateTogether
<1>6. ASSUME NEW ids, RemovePermanently(Unguarded(ids), <<>>, FALSE) PROVE Together
    <2>1. messages' \subseteq messages BY <1>6 DEF RemovePermanently
    <2> QED BY <2>1, StaysTogether
<1> QED BY <1>2, <1>3, <1>4, <1>5, <1>6 DEF BatchStep

(* No two folders become one when a subtree is renamed. *)
LEMMA FoldersStayApart ==
    ASSUME folders \in Catalogs, NEW n \in DOMAIN folders, NEW target \in ClientNames, RenameFolder(n, target),
           NEW f \in DOMAIN folders, NEW g \in DOMAIN folders,
           FolderAfter(n, target, f) = FolderAfter(n, target, g)
    PROVE  f = g
<1> DEFINE tree == Subtree(n)
           landed == {Renamed(n, target, m) : m \in tree}
<1>1. DOMAIN folders \subseteq Names /\ n \in Names /\ target \in Names
    BY MailboxAssumption DEF Catalogs, MailboxAssumption
<1>2. landed \cap (DOMAIN folders \ tree) = {} BY DEF RenameFolder
<1>3. \A m : m \in tree <=> m \in DOMAIN folders /\ (m = n \/ Above(n, m))
    BY <1>1, BelowIsAbove DEF Subtree
<1>4. \A m \in tree : FolderAfter(n, target, m) = Renamed(n, target, m) /\ Renamed(n, target, m) \in landed
    BY DEF FolderAfter
<1>5. \A m \in DOMAIN folders \ tree : FolderAfter(n, target, m) = m BY DEF FolderAfter
<1> HIDE DEF tree, landed
<1>6. CASE f \in tree /\ g \in tree
    <2>1. Renamed(n, target, f) = Renamed(n, target, g) BY <1>4, <1>6
    <2>2. f \in Names /\ g \in Names /\ (f = n \/ Above(n, f)) /\ (g = n \/ Above(n, g)) BY <1>1, <1>3, <1>6
    <2> QED BY <1>1, <2>1, <2>2, RenamedInjective
<1>7. CASE ~(f \in tree /\ g \in tree) BY <1>2, <1>4, <1>5, <1>7
<1> QED BY <1>6, <1>7

LEMMA FolderStepTogether ==
    ASSUME MailboxInv, CatalogInv, FolderStep
    PROVE  Together
<1>1. messages \in SUBSET Message /\ folders \in Catalogs /\ \A m \in messages : m.folder \in DOMAIN folders
    BY WhatIsKnown
<1>2. ASSUME messages' \subseteq messages PROVE Together BY <1>2, StaysTogether
<1>3. ASSUME NEW n \in DOMAIN folders, NEW target \in ClientNames, RenameFolder(n, target) PROVE Together
    <2> DEFINE There(m) == [m EXCEPT !.folder = FolderAfter(n, target, @)]
    <2>1. messages' = {There(m) : m \in messages} BY <1>3 DEF RenameFolder
    <2>2. \A m \in messages : Key(There(m)) = Key(m) /\ There(m).folder = FolderAfter(n, target, m.folder)
        BY <1>1 DEF Message, Key
    <2> HIDE DEF There
    <2>3. ASSUME NEW k \in messages', NEW m \in messages', k.folder = m.folder
          PROVE  \E o, q \in messages : Key(o) = Key(k) /\ Key(q) = Key(m) /\ o.folder = q.folder
        <3>1. PICK o \in messages : k = There(o) BY <2>1
        <3>2. PICK q \in messages : m = There(q) BY <2>1
        <3>3. FolderAfter(n, target, o.folder) = FolderAfter(n, target, q.folder) BY <2>2, <2>3, <3>1, <3>2
        <3>4. o.folder \in DOMAIN folders /\ q.folder \in DOMAIN folders BY <1>1
        <3>5. o.folder = q.folder BY <1>1, <1>3, <3>3, <3>4, FoldersStayApart
        <3> QED BY <2>2, <3>1, <3>2, <3>5
    <2> QED BY <2>3 DEF Together
<1>4. ASSUME NEW n, CreateFolder(n) PROVE messages' \subseteq messages BY <1>4 DEF CreateFolder
<1>5. ASSUME NEW n, DeleteFolder(n) PROVE messages' \subseteq messages BY <1>5 DEF DeleteFolder
<1>6. ASSUME NEW n, NEW v, Subscribe(n, v) PROVE messages' \subseteq messages BY <1>6 DEF Subscribe
<1> QED BY <1>2, <1>3, <1>4, <1>5, <1>6 DEF FolderStep

LEMMA NextTogether ==
    ASSUME MailboxInv, CatalogInv, [MailboxNext]_mailboxVars
    PROVE  Together /\ uidnext \in Nat /\ uidnext' \in Nat /\ uidnext <= uidnext'
<1>1. RowsTyped /\ uidnext \in Nat /\ uidnext' \in Nat
    BY WhatIsKnown, NextMailboxInv, MailboxAssumption DEF MailboxInv, UidInv, RowsTyped, MailboxAssumption
<1>2. Together
    <2>1. CASE ReadStep \/ (\E q \in Quotas : SetQuota(q)) \/ UNCHANGED mailboxVars
        <3>1. UNCHANGED messages
            BY <2>1 DEF ReadStep, ListClaiming, ListSizes, SearchMail, SetQuota, mailboxVars
        <3> QED BY <3>1, StaysTogether
    <2> QED BY <2>1, MessageStepTogether, BatchStepTogether, FolderStepTogether DEF MailboxNext
<1>3. uidnext <= uidnext'
    <2>1. ASSUME NEW ids \in SUBSET Ids, Allocate(Cardinality(ids)) PROVE uidnext <= uidnext'
        BY <1>1, <2>1, BatchSize DEF Allocate
    <2>2. ASSUME Allocate(1) PROVE uidnext <= uidnext' BY <1>1, <2>2 DEF Allocate
    <2>3. CASE UNCHANGED uidnext BY <1>1, <2>3
    <2>4. CASE MessageStep BY <2>2, <2>3, <2>4, Zenon DEF MessageStep, Insert, Rewrite, SetDeleted
    <2>5. CASE BatchStep
        <3>1. PICK ids \in SUBSET Ids :
                  \/ \E f, t \in DOMAIN folders :
                        Copy(ids, Unguarded(ids), f, t) \/ MoveAll(ids, Unguarded(ids), f, t)
                  \/ \E t \in DOMAIN folders : MoveSome(ids, t)
                  \/ RemovePermanently(Unguarded(ids), <<>>, FALSE)
            BY <2>5 DEF BatchStep, Batches
        <3> DEFINE some(t) == {m.id : m \in {k \in In(ids) : k.folder # t}}
        <3>2. \A t : some(t) \in SUBSET Ids BY <1>1 DEF RowsTyped, In, Message
        <3>3. ASSUME NEW t, MoveSome(ids, t) PROVE uidnext <= uidnext'
            <4>1. Allocate(Cardinality(some(t))) BY <3>3 DEF MoveSome, Relocate
            <4> HIDE DEF some
            <4> QED BY <2>1, <3>2, <4>1
        <3>4. ASSUME NEW f, NEW t, Copy(ids, Unguarded(ids), f, t) \/ MoveAll(ids, Unguarded(ids), f, t)
              PROVE  uidnext <= uidnext'
            BY <2>1, <3>4 DEF Copy, MoveAll, Relocate
        <3>5. ASSUME RemovePermanently(Unguarded(ids), <<>>, FALSE) PROVE uidnext <= uidnext'
            BY <2>3, <3>5 DEF RemovePermanently
        <3> QED BY <3>1, <3>3, <3>4, <3>5
    <2>6. CASE ReadStep \/ FolderStep \/ (\E q \in Quotas : SetQuota(q)) \/ UNCHANGED mailboxVars
        BY <2>3, <2>6 DEF ReadStep, ListClaiming, ListSizes, SearchMail, FolderStep, CreateFolder, DeleteFolder,
            RenameFolder, Subscribe, SetQuota, mailboxVars
    <2> QED BY <2>4, <2>5, <2>6 DEF MailboxNext
<1> QED BY <1>1, <1>2, <1>3

-----------------------------------------------------------------------------
(* The rows of a session are in the order of their UIDs, all of which were given
   out, the client knows them, and what shares a folder with one of them is one
   of them or came later.  That last part is what a refresh relies on, wherever
   the messages have gone since.                                             *)
Among(m, rows) == \E i \in DOMAIN rows : Key(rows[i]) = Key(m)
After(m, rows) == \A i \in DOMAIN rows : rows[i].uid < m.uid

Numbered(rows, known, mail, next) ==
    /\ rows \in Seq(Message) /\ Ascending(rows)
    /\ known = Keys(rows)
    /\ \A i \in DOMAIN rows : rows[i].uid < next
    /\ \A k, n \in mail : k.folder = n.folder /\ Among(k, rows) => Among(n, rows) \/ After(n, rows)

NumberingInv ==
    /\ view = [s \in Imap |-> view[s]]
    /\ \A s \in Imap : Numbered(imap[s].rows, view[s], messages, uidnext)

(* A session that lists nothing. *)
LEMMA NothingNumbered == ASSUME NEW mail, NEW next PROVE Numbered(<<>>, <<>>, mail, next)
<1>1. <<>> \in Seq(Message) /\ DOMAIN <<>> = {} /\ Len(<<>>) = 0 OBVIOUS
<1>2. Keys(<<>>) = <<>> BY <1>1 DEF Keys
<1> QED BY <1>1, <1>2 DEF Numbered, Ascending, Among

(* Steps of others do not touch what a session has listed. *)
LEMMA NumberedStays ==
    ASSUME NEW rows, NEW known, Numbered(rows, known, messages, uidnext), Together,
           uidnext \in Nat, uidnext' \in Nat, uidnext <= uidnext', messages' \in SUBSET Message
    PROVE  Numbered(rows, known, messages', uidnext')
<1>1. /\ rows \in Seq(Message) /\ Ascending(rows) /\ known = Keys(rows)
      /\ \A i \in DOMAIN rows : rows[i].uid < uidnext
      /\ \A k, n \in messages : k.folder = n.folder /\ Among(k, rows) => Among(n, rows) \/ After(n, rows)
    BY DEF Numbered
<1>2. \A i \in DOMAIN rows : rows[i].uid \in Nat
    <2>1. \A i \in DOMAIN rows : rows[i] \in Message BY <1>1
    <2> QED BY <2>1, UidsAreNumbers
<1>3. \A m \in messages' : m.uid \in Nat BY UidsAreNumbers
<1>4. \A m, n : Key(m) = Key(n) => m.uid = n.uid BY DEF Key
<1>5. ASSUME NEW k \in messages', NEW n \in messages', k.folder = n.folder, Among(k, rows)
      PROVE  Among(n, rows) \/ After(n, rows)
    <2>1. PICK i \in DOMAIN rows : Key(rows[i]) = Key(k) BY <1>5 DEF Among
    <2>2. ~(k.uid >= uidnext) BY <1>1, <1>2, <1>4, <2>1
    <2>3. CASE n.uid >= uidnext
        <3>1. \A j \in DOMAIN rows : rows[j].uid < n.uid BY <1>1, <1>2, <1>3, <2>3
        <3> QED BY <3>1 DEF After
    <2>4. CASE \E o, q \in messages : Key(o) = Key(k) /\ Key(q) = Key(n) /\ o.folder = q.folder
        <3>1. PICK o \in messages, q \in messages : Key(o) = Key(k) /\ Key(q) = Key(n) /\ o.folder = q.folder
            BY <2>4
        <3>2. Among(o, rows) BY <2>1, <3>1 DEF Among
        <3>3. Among(q, rows) \/ After(q, rows) BY <1>1, <3>1, <3>2
        <3>4. q.uid = n.uid BY <1>4, <3>1
        <3> QED BY <3>1, <3>3, <3>4 DEF Among, After
    <2> QED BY <1>5, <2>2, <2>3, <2>4 DEF Together
<1>6. \A i \in DOMAIN rows : rows[i].uid < uidnext' BY <1>1, <1>2
<1> QED BY <1>1, <1>5, <1>6 DEF Numbered

(* STORE changes a row, not its key. *)
LEMMA NumberedAnew ==
    ASSUME NEW rows, NEW known, NEW mail, NEW next, Numbered(rows, known, mail, next),
           NEW now \in Seq(Message), DOMAIN now = DOMAIN rows, \A i \in DOMAIN rows : Key(now[i]) = Key(rows[i])
    PROVE  Numbered(now, known, mail, next)
<1>1. /\ rows \in Seq(Message) /\ Ascending(rows) /\ known = Keys(rows)
      /\ \A i \in DOMAIN rows : rows[i].uid < next
      /\ \A k, n \in mail : k.folder = n.folder /\ Among(k, rows) => Among(n, rows) \/ After(n, rows)
    BY DEF Numbered
<1>2. \A i \in DOMAIN rows : now[i].uid = rows[i].uid
    <2>1. \A m, n : Key(m) = Key(n) => m.uid = n.uid BY DEF Key
    <2> QED BY <2>1
<1>3. Ascending(now) BY <1>1, <1>2 DEF Ascending
<1>4. Keys(now) = Keys(rows) BY DEF Keys
<1>5. \A m : (Among(m, now) <=> Among(m, rows)) /\ (After(m, now) <=> After(m, rows)) BY <1>2 DEF Among, After
<1>6. \A i \in DOMAIN now : now[i].uid < next BY <1>1, <1>2
<1> QED BY <1>1, <1>3, <1>4, <1>5, <1>6 DEF Numbered

(* What a list of a folder has. *)
LEMMA ListedFolder ==
    ASSUME MailboxInv, NEW f
    PROVE  /\ Listing(f) \in Seq(Message) /\ Ascending(Listing(f))
           /\ \A i \in DOMAIN Listing(f) : Listing(f)[i] \in messages /\ Listing(f)[i].folder = f
           /\ \A m \in messages : m.folder = f => \E i \in DOMAIN Listing(f) : Listing(f)[i] = m
<1> DEFINE S == {m \in messages : m.folder = f}
           r == Listing(f)
<1>1. Lists(r, S) BY ListingLists DEF MailboxInv
<1>2. messages \in SUBSET Message BY DEF MailboxInv, UidInv, RowsTyped
<1>3. \A m : m \in S <=> m \in messages /\ m.folder = f OBVIOUS
<1> HIDE DEF S, r
<1>4. r \in Seq(S) /\ Ascending(r) /\ \A m \in S : \E i \in DOMAIN r : r[i] = m BY <1>1 DEF Lists
<1>5. DOMAIN r = 1..Len(r) /\ Len(r) \in Nat /\ \A i \in DOMAIN r : r[i] \in S BY <1>4
<1>6. r \in Seq(Message)
    <2>1. \A i \in 1..Len(r) : r[i] \in Message BY <1>2, <1>3, <1>5
    <2>2. r = [i \in 1..Len(r) |-> r[i]] BY <1>4
    <2> QED BY <1>5, <2>1, <2>2
<1> QED BY <1>3, <1>4, <1>5, <1>6 DEF r

LEMMA NumberedListing ==
    ASSUME MailboxInv, NEW f
    PROVE  Numbered(Listing(f), Keys(Listing(f)), messages, uidnext)
<1> DEFINE r == Listing(f)
<1>1. /\ r \in Seq(Message) /\ Ascending(r)
      /\ \A i \in DOMAIN r : r[i] \in messages /\ r[i].folder = f
      /\ \A m \in messages : m.folder = f => \E i \in DOMAIN r : r[i] = m
    BY ListedFolder
<1> HIDE DEF r
<1>2. \A m \in messages : m.uid < uidnext BY DEF MailboxInv, UidInv, FreshIsUnused
<1>3. ASSUME NEW k \in messages, NEW n \in messages, k.folder = n.folder, Among(k, r) PROVE Among(n, r)
    <2>1. PICK i \in DOMAIN r : Key(r[i]) = Key(k) BY <1>3 DEF Among
    <2>2. r[i].id = k.id BY <2>1 DEF Key
    <2>3. r[i] = k BY <1>1, <2>2 DEF MailboxInv, UidInv, OneMessage
    <2>4. n.folder = f BY <1>1, <1>3, <2>3
    <2> QED BY <1>1, <2>4 DEF Among
<1>4. Numbered(r, Keys(r), messages, uidnext) BY <1>1, <1>2, <1>3 DEF Numbered
<1> QED BY <1>4 DEF r

(* refresh() tells the client what it lists, whichever folder that is by now. *)
LEMMA RefreshTells ==
    ASSUME MailboxInv, NEW rows, NEW known, Numbered(rows, known, messages, uidnext), NEW f
    PROVE  Told(known, rows, Listing(f)) = Keys(Listing(f))
<1> DEFINE c == Listing(f)
<1>1. /\ c \in Seq(Message) /\ Ascending(c)
      /\ \A i \in DOMAIN c : c[i] \in messages /\ c[i].folder = f
    BY ListedFolder
<1> HIDE DEF c
<1>2. /\ rows \in Seq(Message) /\ Ascending(rows) /\ known = Keys(rows)
      /\ \A k, n \in messages : k.folder = n.folder /\ Among(k, rows) => Among(n, rows) \/ After(n, rows)
    BY DEF Numbered
<1>3. DOMAIN c = 1..Len(c) /\ DOMAIN rows = 1..Len(rows) BY <1>1, <1>2
<1>4. Behind(rows, c)
    <2>1. ASSUME NEW i \in 1..Len(c), NEW l \in 1..Len(rows), Key(rows[l]) = Key(c[i]), NEW j \in 1..Len(c)
          PROVE  Among(c[j], rows) \/ After(c[j], rows)
        <3>1. Among(c[i], rows) BY <1>3, <2>1 DEF Among
        <3>2. c[i] \in messages /\ c[j] \in messages /\ c[i].folder = c[j].folder BY <1>1, <1>3
        <3> QED BY <1>2, <3>1, <3>2
    <2>2. \A m : Among(m, rows) <=> \E l \in 1..Len(rows) : Key(rows[l]) = Key(m) BY <1>3 DEF Among
    <2>3. \A m : After(m, rows) <=> \A l \in 1..Len(rows) : rows[l].uid < m.uid BY <1>3 DEF After
    <2> QED BY <2>1, <2>2, <2>3 DEF Behind
<1> QED BY <1>1, <1>2, <1>4, ToldIsListed DEF c

(* An expunge announces what it has removed. *)
LEMMA ExpungeTells ==
    ASSUME NEW rows, NEW known, NEW next, Numbered(rows, known, messages, next), NEW keys, NEW mail \in SUBSET messages,
           \A n \in mail : Among(n, rows) => Key(n) \in keys
    PROVE  Numbered(Expunges(known, rows, keys).rows, Expunges(known, rows, keys).known, mail, next)
<1> DEFINE w == Expunges(known, rows, keys)
           k == w.rows
<1>1. /\ rows \in Seq(Message) /\ Ascending(rows) /\ known = Keys(rows)
      /\ \A i \in DOMAIN rows : rows[i].uid < next
      /\ \A m, n \in messages : m.folder = n.folder /\ Among(m, rows) => Among(n, rows) \/ After(n, rows)
    BY DEF Numbered
<1>2. Walked(w, rows, keys, Len(rows)) BY <1>1, ExpungesAgree
<1> HIDE DEF w
<1>3. w.known = Keys(k) BY <1>1, <1>2, WalkEnds
<1>4. /\ k \in Seq(Message) /\ Ascending(k)
      /\ \A a \in 1..Len(k) : \E l \in 1..Len(rows) : k[a] = rows[l]
      /\ \A l \in 1..Len(rows) : Key(rows[l]) \in keys => \E a \in 1..Len(k) : k[a] = rows[l]
    BY <1>2 DEF Walked
<1> HIDE DEF k
<1>5. DOMAIN k = 1..Len(k) /\ DOMAIN rows = 1..Len(rows) BY <1>1, <1>4
<1>6. \A i \in DOMAIN k : k[i].uid < next BY <1>1, <1>4, <1>5
<1>7. \A m : Among(m, k) => Among(m, rows) BY <1>4, <1>5 DEF Among
<1>8. \A m : After(m, rows) => After(m, k) BY <1>4, <1>5 DEF After
<1>9. ASSUME NEW m \in mail, Among(m, rows) PROVE Among(m, k)
    <2>1. PICK l \in 1..Len(rows) : Key(rows[l]) = Key(m) BY <1>5, <1>9 DEF Among
    <2>2. Key(rows[l]) \in keys BY <1>9, <2>1
    <2> QED BY <1>4, <1>5, <2>1, <2>2 DEF Among
<1>10. \A m, n \in mail : m.folder = n.folder /\ Among(m, k) => Among(n, k) \/ After(n, k)
    BY <1>1, <1>7, <1>8, <1>9
<1> QED BY <1>3, <1>4, <1>6, <1>10 DEF Numbered, k, w

(* How a step changes what the IMAP session that takes it, and its client, have. *)
NumbersEvolve(s) ==
    /\ view' = [t \in Imap |-> view'[t]]
    /\ \A t \in Imap \ {s} : imap'[t].rows = imap[t].rows /\ view'[t] = view[t]
    /\ Numbered(imap'[s].rows, view'[s], messages', uidnext')

LEMMA ImapStepNumbers ==
    ASSUME Sound, ShownInv, NumberingInv, [MailboxNext]_mailboxVars, messages' \in SUBSET Message,
           NEW s \in Imap, ImapStep(s)
    PROVE  NumbersEvolve(s)
<1>1. /\ imap = [t \in Imap |-> imap[t]] /\ view = [t \in Imap |-> view[t]]
      /\ DOMAIN imap[s] = Fields
      /\ Numbered(imap[s].rows, view[s], messages, uidnext)
    BY DEF ShownInv, ImapShown, NumberingInv
<1>2. Numbered(imap[s].rows, view[s], messages', uidnext')
    BY <1>1, NextTogether, NumberedStays DEF Sound
<1>3. MailboxInv BY DEF Sound
<1>4. ASSUME NEW f, NEW readonly, ListFor(f, readonly) PROVE UNCHANGED <<messages, uidnext>>
    BY <1>4 DEF ListFor, ListClaiming, mailboxVars
<1>5. ASSUME UNCHANGED view, \A t \in Imap : imap'[t].rows = imap[t].rows PROVE NumbersEvolve(s)
    BY <1>1, <1>2, <1>5 DEF NumbersEvolve
<1>6. ASSUME imap' = [imap EXCEPT ![s] = Unselected], view' = [view EXCEPT ![s] = <<>>] PROVE NumbersEvolve(s)
    <2>1. Unselected.rows = <<>> BY DEF Unselected
    <2>2. imap'[s].rows = <<>> /\ view'[s] = <<>> BY <1>1, <1>6, <2>1
    <2> QED BY <1>1, <1>6, <2>2, NothingNumbered DEF NumbersEvolve
<1>7. CASE Disconnect(s) BY <1>6, <1>7 DEF Disconnect
<1>8. ASSUME NEW f, NEW readonly, Select(s, f, readonly) PROVE NumbersEvolve(s)
    <2> DEFINE x == [Unselected EXCEPT !.folder = f, !.readonly = readonly, !.rows = Listing(f), !.recent = Recents(f)]
    <2>1. imap' = [imap EXCEPT ![s] = x] /\ view' = [view EXCEPT ![s] = Keys(Listing(f))] /\ ListFor(f, readonly)
        BY <1>8 DEF Select
    <2>2. x.rows = Listing(f) BY DEF Unselected
    <2> HIDE DEF x
    <2>3. imap'[s].rows = Listing(f) /\ view'[s] = Keys(Listing(f)) BY <1>1, <2>1, <2>2
    <2>4. UNCHANGED <<messages, uidnext>> BY <1>4, <2>1
    <2>5. Numbered(imap'[s].rows, view'[s], messages', uidnext') BY <1>3, <2>3, <2>4, NumberedListing
    <2> QED BY <1>1, <2>1, <2>5 DEF NumbersEvolve
<1>9. ASSUME NEW next, Refresh(s, next) PROVE NumbersEvolve(s)
    <2> DEFINE f == imap[s].folder
               told == Told(view[s], imap[s].rows, Listing(f))
    <2>1. /\ \E recent : imap' = [imap EXCEPT ![s].rows = Listing(f), ![s].at = next, ![s].recent = recent]
          /\ view' = [view EXCEPT ![s] = told] /\ ListFor(f, imap[s].readonly)
        <3>1. ListFor(f, imap[s].readonly) BY <1>9 DEF Refresh
        <3>2. view' = [view EXCEPT ![s] = told] BY <1>9 DEF Refresh
        <3>3. \E recent : imap' = [imap EXCEPT ![s].rows = Listing(f), ![s].at = next, ![s].recent = recent]
            BY <1>9, Zenon DEF Refresh
        <3> QED BY <3>1, <3>2, <3>3
    <2>2. told = Keys(Listing(f)) BY <1>1, <1>3, RefreshTells
    <2> HIDE DEF told, f
    <2>3. imap'[s].rows = Listing(f) BY <1>1, <2>1 DEF Fields
    <2>4. view'[s] = Keys(Listing(f)) BY <1>1, <2>1, <2>2
    <2>5. UNCHANGED <<messages, uidnext>> BY <1>4, <2>1
    <2>6. Numbered(imap'[s].rows, view'[s], messages', uidnext') BY <1>3, <2>3, <2>4, <2>5, NumberedListing
    <2>7. \A t \in Imap \ {s} : imap'[t] = imap[t] /\ view'[t] = view[t] BY <1>1, <2>1
    <2>8. view' = [t \in Imap |-> view'[t]] BY <1>1, <2>1
    <2> QED BY <2>6, <2>7, <2>8 DEF NumbersEvolve
<1>10. CASE ListFlagged(s)
    <2>1. \E doomed, at : imap' = [imap EXCEPT ![s].doomed = doomed, ![s].at = at] BY <1>10 DEF ListFlagged
    <2>2. UNCHANGED view BY <1>10 DEF ListFlagged
    <2>3. \A t \in Imap : imap'[t].rows = imap[t].rows BY <1>1, <2>1 DEF Fields
    <2> QED BY <1>5, <2>2, <2>3
<1>11. CASE Expunged(s)
    <2>1. CASE imap' = [imap EXCEPT ![s] = Unselected] /\ view' = [view EXCEPT ![s] = <<>>] BY <1>6, <2>1
    <2> DEFINE keys == LeftAfter(s)
               w == Expunges(view[s], imap[s].rows, keys)
               gone == Doomed(Expected(imap[s].doomed), imap[s].folder, TRUE)
    <2>2. CASE /\ \E recent : imap' = [imap EXCEPT ![s].rows = w.rows, ![s].at = "refresh", ![s].doomed = {},
                                                 ![s].recent = recent]
               /\ view' = [view EXCEPT ![s] = w.known]
        <3>1. messages' = messages \ gone /\ UNCHANGED uidnext
            <4>1. /\ ImapRequest(s).by = "imap" /\ ImapRequest(s).folder = imap[s].folder
                  /\ ImapRequest(s).saw = imap[s].doomed
                BY DEF ImapRequest
            <4>2. Destroy(ImapRequest(s)) BY <1>11 DEF Expunged
            <4> QED BY <4>1, <4>2 DEF Destroy, RemovePermanently
        <3>2. gone \subseteq messages BY DEF Doomed
        <3>3. keys = {Key(m) : m \in Range(imap[s].rows)} \ {Key(m) : m \in gone} BY DEF LeftAfter
        <3> HIDE DEF keys, w, gone
        <3>4. ASSUME NEW n \in messages', Among(n, imap[s].rows) PROVE Key(n) \in keys
            <4>1. PICK i \in DOMAIN imap[s].rows : Key(imap[s].rows[i]) = Key(n) BY <3>4 DEF Among
            <4>2. imap[s].rows[i] \in Range(imap[s].rows) BY DEF Range
            <4>3. ASSUME NEW m \in gone PROVE Key(n) # Key(m)
                <5>1. m \in messages /\ n \in messages /\ n # m BY <3>1, <3>2
                <5>2. n.id # m.id BY <5>1 DEF Sound, MailboxInv, UidInv, OneMessage
                <5> QED BY <5>2 DEF Key
            <4> QED BY <3>3, <4>1, <4>2, <4>3
        <3>5. Numbered(w.rows, w.known, messages', uidnext)
            <4>1. messages' \in SUBSET messages BY <3>1
            <4> QED BY <1>1, <3>4, <4>1, ExpungeTells DEF w
        <3>6. imap'[s].rows = w.rows /\ view'[s] = w.known BY <1>1, <2>2 DEF Fields
        <3>7. \A t \in Imap \ {s} : imap'[t] = imap[t] /\ view'[t] = view[t] BY <1>1, <2>2
        <3>8. view' = [t \in Imap |-> view'[t]] BY <1>1, <2>2
        <3> QED BY <3>1, <3>5, <3>6, <3>7, <3>8 DEF NumbersEvolve
    <2>3. \/ imap' = [imap EXCEPT ![s] = Unselected] /\ view' = [view EXCEPT ![s] = <<>>]
          \/ /\ \E recent : imap' = [imap EXCEPT ![s].rows = w.rows, ![s].at = "refresh", ![s].doomed = {},
                                                 ![s].recent = recent]
             /\ view' = [view EXCEPT ![s] = w.known]
        BY <1>11, Zenon DEF Expunged
    <2> QED BY <2>1, <2>2, <2>3
<1>12. CASE ExpungeFails(s)
    <2>1. imap' = [imap EXCEPT ![s].at = "idle", ![s].doomed = {}] /\ UNCHANGED view BY <1>12 DEF ExpungeFails
    <2>2. \A t \in Imap : imap'[t].rows = imap[t].rows BY <1>1, <2>1 DEF Fields
    <2> QED BY <1>5, <2>1, <2>2
<1>13. ASSUME NEW i \in DOMAIN imap[s].rows, NEW value \in BOOLEAN, Store(s, i, value) PROVE NumbersEvolve(s)
    <2> DEFINE rows == imap[s].rows
               now == [rows EXCEPT ![i].deleted = value]
    <2>1. imap' = [imap EXCEPT ![s].rows[i].deleted = value] /\ UNCHANGED view BY <1>13 DEF Store
    <2>2. imap'[s].rows = now /\ \A t \in Imap \ {s} : imap'[t] = imap[t] BY <1>1, <2>1 DEF Fields
    <2>3. rows \in Seq(Message) BY <1>1 DEF Numbered
    <2> HIDE DEF rows
    <2>4. rows[i] \in Message /\ i \in DOMAIN rows BY <2>3 DEF rows
    <2> DEFINE m == [rows[i] EXCEPT !.deleted = value]
    <2>5. m \in Message /\ Key(m) = Key(rows[i]) BY <2>4 DEF Message, Key
    <2>6. now = [rows EXCEPT ![i] = m] OBVIOUS
    <2> HIDE DEF m, now
    <2>7. now \in Seq(Message) /\ DOMAIN now = DOMAIN rows /\ \A j \in DOMAIN rows : Key(now[j]) = Key(rows[j])
        BY <2>3, <2>4, <2>5, <2>6
    <2>8. Numbered(rows, view[s], messages', uidnext') BY <1>2 DEF rows
    <2>9. Numbered(now, view[s], messages', uidnext') BY <2>7, <2>8, NumberedAnew
    <2> QED BY <1>1, <2>1, <2>2, <2>9 DEF NumbersEvolve
<1>14. ASSUME NEW refresh, imap' = Owing(s, refresh), UNCHANGED view PROVE NumbersEvolve(s)
    <2>1. \A t \in Imap : imap'[t].rows = imap[t].rows BY <1>1, <1>14 DEF Owing, Fields
    <2> QED BY <1>5, <1>14, <2>1
<1>15. ASSUME NEW n, NEW target, Rename(s, n, target) PROVE NumbersEvolve(s)
    <2>1. \E f : imap' = [imap EXCEPT ![s].folder = f] BY <1>15, Zenon DEF Rename
    <2>2. UNCHANGED view BY <1>15 DEF Rename
    <2>3. \A t \in Imap : imap'[t].rows = imap[t].rows BY <1>1, <2>1 DEF Fields
    <2> QED BY <1>5, <2>2, <2>3
<1>16. ASSUME UNCHANGED <<imap, view>> PROVE NumbersEvolve(s) BY <1>5, <1>16
<1>17. (\E id, f, size, deleted : AppendMessage(s, id, f, size, deleted)) => NumbersEvolve(s)
    BY <1>14 DEF AppendMessage
<1>18. (\E numbers, target, move : Transfer(s, numbers, target, move)) => NumbersEvolve(s)
    BY <1>14 DEF Transfer
<1>19. (\E n : Create(s, n) \/ Delete(s, n)) => NumbersEvolve(s) BY <1>16 DEF Create, Delete
<1>20. CASE Noop(s) \/ Expunge(s) BY <1>9, <1>20 DEF Noop, Expunge
<1> QED BY <1>7, <1>8, <1>10, <1>11, <1>12, <1>13, <1>15, <1>17, <1>18, <1>19, <1>20 DEF ImapStep

(* A step is one of an IMAP session, or leaves these as they are. *)
LEMMA StepsOfImap == ASSUME [Next]_vars PROVE (\E s \in Imap : ImapStep(s)) \/ UNCHANGED <<imap, view>>
<1>1. ASSUME NEW p \in Pop, PopStep(p) PROVE UNCHANGED <<imap, view>>
    BY <1>1 DEF PopStep, Login, Open, Mark, Quit, Committed, Leave, PopOnly
<1>2. ASSUME NEW w \in Web, WebStep(w) PROVE UNCHANGED <<imap, view>>
    BY <1>2 DEF WebStep, LookUp, WebDelete, WebChange, WebOnly
<1>3. ASSUME (\E r \in late : RunLate(r)) \/ Deliver \/ UNCHANGED vars PROVE UNCHANGED <<imap, view>>
    BY <1>3 DEF RunLate, Deliver, sessionVars, vars
<1> QED BY <1>1, <1>2, <1>3 DEF Next

LEMMA NumberingInvStep ==
    ASSUME Sound, ShownInv, NumberingInv, [Next]_vars
    PROVE  NumberingInv'
<1>1. [MailboxNext]_mailboxVars /\ messages' \in SUBSET Message /\ MailboxInv /\ CatalogInv
    <2>1. [MailboxNext]_mailboxVars BY NextRefines
    <2> QED BY <2>1, NextMailboxInv DEF Sound, MailboxInv, UidInv, RowsTyped
<1>2. \A t \in Imap : Numbered(imap[t].rows, view[t], messages', uidnext')
    BY <1>1, NextTogether, NumberedStays DEF NumberingInv
<1>3. CASE UNCHANGED <<imap, view>> BY <1>2, <1>3 DEF NumberingInv
<1>4. ASSUME NEW s \in Imap, ImapStep(s) PROVE NumberingInv'
    <2>1. NumbersEvolve(s) BY <1>1, <1>4, ImapStepNumbers
    <2> QED BY <1>2, <2>1 DEF NumbersEvolve, NumberingInv
<1> QED BY <1>3, <1>4, StepsOfImap

LEMMA NumberingInvInit == Init => NumberingInv
<1>1. SUFFICES ASSUME Init PROVE NumberingInv OBVIOUS
<1>2. Unselected.rows = <<>> BY DEF Unselected
<1>3. \A s \in Imap : imap[s].rows = <<>> /\ view[s] = <<>> BY <1>1, <1>2 DEF Init
<1>4. view = [s \in Imap |-> view[s]] BY <1>1 DEF Init
<1> QED BY <1>3, <1>4, NothingNumbered DEF NumberingInv

(* Whatever arrives, moves, is renamed or expunged by others, in whatever order
   EXPUNGE and EXISTS responses tell of it: the sequence numbers of an IMAP
   client stand for the messages its session takes them for (refresh and expunge
   in imap.cpp, the lists that storage answers them with).                     *)
THEOREM NumbersAgree == Spec => []NumberingAgrees
<1>1. Init => MaildropInv
    BY DEF Init, MaildropInv, MaildropHasOneOwner, PopOff, PopSession
<1>2. Sound /\ MaildropInv /\ ShownInv /\ NumberingInv /\ [Next]_vars => MaildropInv' /\ ShownInv' /\ NumberingInv'
    BY NextKeepsOwner, ShownInvStep, NumberingInvStep
<1>3. NumberingInv => NumberingAgrees BY DEF NumberingInv, Numbered, NumberingAgrees
<1> QED BY <1>1, <1>2, <1>3, ShownInvInit, NumberingInvInit, SoundHolds, PTL DEF Spec
=============================================================================
