---------------------------- MODULE MailSessions ----------------------------
(***************************************************************************)
(* Protocol sessions on one mailbox: IMAP sessions with the numbering      *)
(* their client sees, POP3 sessions with the lease on the maildrop, and    *)
(* requests of the web interface.  Each call to storage is one operation   *)
(* of Mailbox; between two calls of a command the others move.             *)
(*                                                                         *)
(* A permanent delete whose caller gave up waiting may still be executed   *)
(* at any later time.  A session that is cut off for any reason (BYE,      *)
(* logout, credentials changed, network) is Disconnect.                    *)
(***************************************************************************)
EXTENDS Mailbox

CONSTANTS
    Imap, Pop, Web,     \* sessions of each protocol
    Inbox, Junk, Trash, \* system folders that delivery, POP3 and web single out
    MaxTimeouts         \* bound: deletes whose caller gives up waiting

ASSUME SessionAssumption ==
    /\ {Inbox, Junk, Trash} \subseteq System
    /\ MaxTimeouts \in Nat

VARIABLES
    imap,       \* imap(): selected_folder, readonly, messages, recent of each session
    view,       \* the messages an IMAP client believes its sequence numbers stand for
    pop,        \* pop3(): messages, deleted, and whether its lease has an owner
    leased,     \* MaildropLease::owners_ contains the user
    web,        \* a permanent delete between its two calls
    late,       \* deletes whose caller has gone
    timeouts,   \* number of those so far
    destroyed   \* history: what sessions removed, and what they had been shown

sessionVars == <<imap, view, pop, leased, web, late, timeouts, destroyed>>
vars == <<mailboxVars, sessionVars>>

Key(m) == <<m.id, m.uid>>
Keys(rows) == [i \in DOMAIN rows |-> Key(rows[i])]

NoFolder == <<>>
Unselected == [folder |-> NoFolder, readonly |-> FALSE, rows |-> <<>>, recent |-> {}, at |-> "idle", doomed |-> {}]

(* at: idle, or within a command that must list the messages to expunge
   ("expunge"), waits for a delete ("remove", or "close" for CLOSE), or owes
   its client a refresh ("refresh").                                         *)
ImapSession ==
    [folder : Names \cup {NoFolder}, readonly : BOOLEAN, rows : Seq(Message),
     recent : SUBSET (Ids \X Uids), at : {"idle", "expunge", "remove", "close", "refresh"},
     doomed : SUBSET Message]

PopSession == [at : {"off", "login", "open", "quit"}, rows : SUBSET Message, marked : SUBSET Message]
PopOff == [at |-> "off", rows |-> {}, marked |-> {}]

(* A permanent delete: the identifiers and UIDs of rows the caller saw, in a
   folder; IMAP also asks that they still be flagged.                        *)
Request == [by : {"imap", "pop3", "web"}, folder : Names, saw : SUBSET Message]
Destroyed == [by : {"imap", "pop3", "web"}, saw : Message, was : Message]

SessionsTypeOK ==
    /\ MailboxTypeOK
    /\ imap \in [Imap -> ImapSession]
    /\ \A s \in Imap : view[s] \in Seq(Ids \X Uids)
    /\ pop \in [Pop -> PopSession]
    /\ leased \in BOOLEAN
    /\ web \in [Web -> SUBSET Message]
    /\ late \subseteq Request /\ timeouts \in 0..MaxTimeouts
    /\ destroyed \subseteq Destroyed

Init ==
    /\ MailboxInit
    /\ imap = [s \in Imap |-> Unselected]
    /\ view = [s \in Imap |-> <<>>]
    /\ pop = [p \in Pop |-> PopOff] /\ leased = FALSE
    /\ web = [w \in Web |-> {}]
    /\ late = {} /\ timeouts = 0 /\ destroyed = {}

-----------------------------------------------------------------------------
(* Permanent deletes *)

Expected(saw) == [i \in {m.id : m \in saw} |-> (CHOOSE m \in saw : m.id = i).uid]

(* Mutant: the derived rows of a removed message stay. *)
DestroyOnly(r) ==
    LET gone == Doomed(Expected(r.saw), r.folder, r.by = "imap") IN
    /\ Selectable(r.folder)
    /\ messages' = messages \ gone
    /\ UNCHANGED <<search, pop3>>
    /\ destroyed' = destroyed
    /\ UNCHANGED <<uidnext, quota, folders, used, meaning, claims>>

Destroy(r) ==
    /\ RemovePermanently(Expected(r.saw), r.folder, r.by = "imap")
    /\ destroyed' = destroyed \cup
        {[by |-> r.by, saw |-> CHOOSE n \in r.saw : n.id = m.id, was |-> m] :
            m \in Doomed(Expected(r.saw), r.folder, r.by = "imap")}

GiveUp(r) ==
    /\ timeouts < MaxTimeouts
    /\ timeouts' = timeouts + 1
    /\ late' = late \cup {r}
    /\ UNCHANGED <<mailboxVars, destroyed>>

RunLate(r) ==
    /\ Destroy(r)
    /\ late' = late \ {r}
    /\ UNCHANGED <<imap, view, pop, leased, web, timeouts>>

-----------------------------------------------------------------------------
(* IMAP: what a client is told *)

(* A folder in the order of its UIDs. *)
Listing(f) ==
    LET rows == {m \in messages : m.folder = f} IN
    CHOOSE r \in [1..Cardinality(rows) -> rows] : \A i, j \in DOMAIN r : i < j => r[i].uid < r[j].uid

(* Mutant: the number does not account for the rows announced before. *)
NumberListed(kept, i) == i

(* The number of row i in its EXPUNGE response, when kept are left before it. *)
Number(kept, i) == Len(kept) + 1

(* What the client makes of the response. *)
Without(known, n) == IF n \in DOMAIN known THEN RemoveAt(known, n) ELSE known

(* The rows not among keys are announced one after the other, in the order of
   the list: the rows that stay, and what the client then knows.             *)
Expunges(known, rows, keys) ==
    LET after[i \in 0..Len(rows)] ==
            IF i = 0 THEN [rows |-> <<>>, known |-> known]
            ELSE IF Key(rows[i]) \in keys THEN [after[i - 1] EXCEPT !.rows = Append(@, rows[i])]
            ELSE [after[i - 1] EXCEPT !.known = Without(@, Number(after[i - 1].rows, i))]
    IN  after[Len(rows)]

(* EXISTS: the client learns of rows beyond those it knows. *)
AfterExists(known, rows) == known \o SubSeq(Keys(rows), Len(known) + 1, Len(rows))

(* refresh(): EXPUNGEs, then EXISTS if the number of messages changed. *)
Told(known, rows, current) ==
    LET after == Expunges(known, rows, {Key(current[i]) : i \in DOMAIN current})
    IN  IF Len(current) # Len(rows) \/ Len(current) # Len(after.rows)
        THEN AfterExists(after.known, current) ELSE after.known

-----------------------------------------------------------------------------
(* IMAP: commands *)

Selected(s) == imap[s].folder # NoFolder
Idle(s) == imap[s].at = "idle"
Writable(s) == Selected(s) /\ ~imap[s].readonly

ImapOnly == UNCHANGED <<pop, leased, web, late, timeouts, destroyed>>

(* Listing a folder; a writable session claims what is recent. *)
ListFor(f, readonly) ==
    IF readonly THEN Selectable(f) /\ UNCHANGED mailboxVars ELSE ListClaiming(f)

Recents(f) == {Key(m) : m \in RecentIn(f)}

(* SELECT, EXAMINE *)
Select(s, f, readonly) ==
    /\ Idle(s)
    /\ ListFor(f, readonly)
    /\ imap' = [imap EXCEPT ![s] = [Unselected EXCEPT
                    !.folder = f, !.readonly = readonly, !.rows = Listing(f), !.recent = Recents(f)]]
    /\ view' = [view EXCEPT ![s] = Keys(Listing(f))]
    /\ ImapOnly

(* UNSELECT, a failed SELECT, and the end of a session.  Before a list that a
   command owes, the session may be cut off because its folder has gone.     *)
Disconnect(s) ==
    /\ imap[s].at \in {"idle", "expunge", "refresh"} /\ Selected(s)
    /\ imap' = [imap EXCEPT ![s] = Unselected]
    /\ view' = [view EXCEPT ![s] = <<>>]
    /\ UNCHANGED mailboxVars /\ ImapOnly

(* refresh() *)
Refresh(s, next) ==
    LET f == imap[s].folder
        keys == {Key(m) : m \in {n \in messages : n.folder = f}}
    IN
    /\ Selected(s)
    /\ ListFor(f, imap[s].readonly)
    /\ view' = [view EXCEPT ![s] = Told(view[s], imap[s].rows, Listing(f))]
    /\ imap' = [imap EXCEPT ![s].rows = Listing(f), ![s].at = next,
                            ![s].recent = (@ \cap keys) \cup Recents(f)]
    /\ ImapOnly

(* NOOP and each poll of IDLE; the end of a command that owes a refresh. *)
Noop(s) == imap[s].at \in {"idle", "refresh"} /\ Refresh(s, "idle")

(* EXPUNGE and UID EXPUNGE refresh first. *)
Expunge(s) == Idle(s) /\ Writable(s) /\ Refresh(s, "expunge")

Flagged(s) == {m \in messages : m.folder = imap[s].folder /\ m.deleted}

(* expunge() lists the folder again; UID EXPUNGE names some of its messages.
   CLOSE expunges without announcing and deselects.                          *)
ListFlagged(s) ==
    /\ Selectable(imap[s].folder)
    /\ \/ /\ imap[s].at = "expunge"
          /\ \E doomed \in SUBSET Flagged(s) :
                imap' = [imap EXCEPT ![s].doomed = doomed,
                                     ![s].at = IF doomed = {} THEN "refresh" ELSE "remove"]
       \/ /\ Idle(s) /\ Writable(s) /\ Flagged(s) # {}
          /\ imap' = [imap EXCEPT ![s].doomed = Flagged(s), ![s].at = "close"]
    /\ UNCHANGED <<mailboxVars, view>> /\ ImapOnly

ImapRequest(s) == [by |-> "imap", folder |-> imap[s].folder, saw |-> imap[s].doomed]

(* The rows that stay: not asked for, or not among deleted_ids. *)
LeftAfter(s) ==
    LET gone == Doomed(Expected(imap[s].doomed), imap[s].folder, TRUE) IN
    {Key(m) : m \in Range(imap[s].rows)} \ {Key(m) : m \in gone}

(* Storage removes the messages and the session learns which. *)
Expunged(s) ==
    /\ imap[s].at \in {"remove", "close"}
    /\ Destroy(ImapRequest(s))
    /\ \/ /\ imap[s].at = "remove"
          /\ view' = [view EXCEPT ![s] = Expunges(@, imap[s].rows, LeftAfter(s)).known]
          /\ imap' = [imap EXCEPT ![s].rows = Expunges(view[s], @, LeftAfter(s)).rows, ![s].at = "refresh", ![s].doomed = {},
                                  ![s].recent = @ \cap LeftAfter(s)]
       \/ /\ imap[s].at = "close"
          /\ view' = [view EXCEPT ![s] = <<>>]
          /\ imap' = [imap EXCEPT ![s] = Unselected]
    /\ UNCHANGED <<pop, leased, web, late, timeouts>>

(* The delete is refused, or its answer does not come in time. *)
ExpungeFails(s) ==
    /\ imap[s].at \in {"remove", "close"}
    /\ \/ ~Selectable(imap[s].folder) /\ UNCHANGED <<mailboxVars, destroyed, late, timeouts>>
       \/ GiveUp(ImapRequest(s))
    /\ imap' = [imap EXCEPT ![s].at = "idle", ![s].doomed = {}]
    /\ UNCHANGED <<view, pop, leased, web>>

(* STORE, one message of its sequence: identified by UID, not by folder. *)
Store(s, i, value) ==
    /\ Idle(s) /\ Writable(s)
    /\ SetDeleted(imap[s].rows[i].id, imap[s].rows[i].uid, <<>>, value)
    /\ imap' = [imap EXCEPT ![s].rows[i].deleted = value]
    /\ UNCHANGED view /\ ImapOnly

Owing(s, refresh) == [imap EXCEPT ![s].at = IF refresh THEN "refresh" ELSE "idle"]

AppendMessage(s, id, f, size, deleted) ==
    /\ Idle(s)
    /\ Insert(id, f, size, deleted)
    /\ imap' = Owing(s, f = imap[s].folder)
    /\ UNCHANGED view /\ ImapOnly

(* COPY, MOVE *)
Transfer(s, numbers, target, move) ==
    LET saw == {imap[s].rows[i] : i \in numbers}
        ids == {m.id : m \in saw}
    IN
    /\ Idle(s) /\ Selected(s) /\ (move => Writable(s))
    /\ IF move THEN MoveAll(ids, Expected(saw), imap[s].folder, target)
               ELSE Copy(ids, Expected(saw), imap[s].folder, target)
    /\ imap' = Owing(s, move \/ target = imap[s].folder)
    /\ UNCHANGED view /\ ImapOnly

(* CREATE, DELETE, RENAME *)
Create(s, n) == Idle(s) /\ CreateFolder(n) /\ UNCHANGED <<imap, view>> /\ ImapOnly

Delete(s, n) ==
    /\ Idle(s) /\ n # imap[s].folder
    /\ DeleteFolder(n)
    /\ UNCHANGED <<imap, view>> /\ ImapOnly

Rename(s, n, target) ==
    LET f == imap[s].folder IN
    /\ Idle(s)
    /\ RenameFolder(n, target)
    /\ imap' = [imap EXCEPT ![s].folder = IF f = n \/ Below(n, f) THEN Renamed(n, target, f) ELSE f]
    /\ UNCHANGED view /\ ImapOnly

ImapStep(s) ==
    \/ \E f \in DOMAIN folders, readonly \in BOOLEAN : Select(s, f, readonly)
    \/ Disconnect(s)
    \/ Noop(s) \/ Expunge(s) \/ ListFlagged(s) \/ Expunged(s) \/ ExpungeFails(s)
    \/ \E i \in DOMAIN imap[s].rows, value \in BOOLEAN : Store(s, i, value)
    \/ \E id \in Ids, f \in DOMAIN folders, size \in Sizes, deleted \in BOOLEAN :
          AppendMessage(s, id, f, size, deleted)
    \/ \E numbers \in (SUBSET DOMAIN imap[s].rows) \ {{}}, target \in DOMAIN folders, move \in BOOLEAN :
          Transfer(s, numbers, target, move)
    \/ \E n \in ClientNames : Create(s, n)
    \/ \E n \in DOMAIN folders : Delete(s, n) \/ \E target \in ClientNames : Rename(s, n, target)

-----------------------------------------------------------------------------
(* POP3.  A session that is not off owns the lease. *)

PopOnly == UNCHANGED <<imap, view, web>>

(* Mutant: a session without the lease frees it, too. *)
ReleaseAnyway(p) == FALSE

(* MaildropLease::release, also by its destructor *)
Release(p) == IF pop[p].at = "off" THEN leased ELSE FALSE

(* Credentials are verified; a leased maildrop answers IN-USE. *)
Login(p) ==
    /\ pop[p].at = "off" /\ ~leased
    /\ leased' = TRUE
    /\ pop' = [pop EXCEPT ![p].at = "login"]
    /\ UNCHANGED <<mailboxVars, late, timeouts, destroyed>> /\ PopOnly

Open(p) ==
    /\ pop[p].at = "login"
    /\ ListSizes(Inbox)
    /\ pop' = [pop EXCEPT ![p].at = "open", ![p].rows = {m \in messages : m.folder = Inbox}]
    /\ UNCHANGED <<leased, late, timeouts, destroyed>> /\ PopOnly

(* DELE and RSET *)
Mark(p, marked) ==
    /\ pop[p].at = "open"
    /\ marked = {} \/ \E m \in pop[p].rows \ pop[p].marked : marked = pop[p].marked \cup {m}
    /\ pop' = [pop EXCEPT ![p].marked = marked]
    /\ UNCHANGED <<mailboxVars, leased, late, timeouts, destroyed>> /\ PopOnly

(* QUIT with deletions sends them to storage. *)
Quit(p) ==
    /\ pop[p].at = "open" /\ pop[p].marked # {}
    /\ pop' = [pop EXCEPT ![p].at = "quit"]
    /\ UNCHANGED <<mailboxVars, leased, late, timeouts, destroyed>> /\ PopOnly

PopRequest(p) == [by |-> "pop3", folder |-> Inbox, saw |-> pop[p].marked]

Committed(p) ==
    /\ pop[p].at = "quit"
    /\ \/ Destroy(PopRequest(p)) /\ UNCHANGED <<late, timeouts>>
       \/ GiveUp(PopRequest(p))
    /\ leased' = Release(p)
    /\ pop' = [pop EXCEPT ![p] = PopOff]
    /\ PopOnly

(* QUIT without deletions, a failed list, IN-USE, or a broken connection. *)
Leave(p) ==
    /\ pop[p].at # "quit"
    /\ leased' = Release(p)
    /\ pop' = [pop EXCEPT ![p] = PopOff]
    /\ UNCHANGED <<mailboxVars, late, timeouts, destroyed>> /\ PopOnly

PopStep(p) ==
    \/ Login(p) \/ Open(p) \/ Quit(p) \/ Committed(p) \/ Leave(p)
    \/ \E marked \in SUBSET pop[p].rows : Mark(p, marked)

-----------------------------------------------------------------------------
(* Web: calls name a message by its identifier alone. *)

WebOnly == UNCHANGED <<imap, view, pop, leased>>

(* DELETE ?permanent=true looks the message up ... *)
LookUp(w) ==
    /\ web[w] = {}
    /\ \E m \in messages : m.folder = Trash /\ web' = [web EXCEPT ![w] = {m}]
    /\ UNCHANGED <<mailboxVars, late, timeouts, destroyed>> /\ WebOnly

WebRequest(w) == [by |-> "web", folder |-> Trash, saw |-> web[w]]

(* ... and removes that version from Trash. *)
WebDelete(w) ==
    /\ web[w] # {}
    /\ \/ Destroy(WebRequest(w)) /\ UNCHANGED <<late, timeouts>>
       \/ GiveUp(WebRequest(w))
    /\ web' = [web EXCEPT ![w] = {}]
    /\ WebOnly

(* Moving, DELETE without permanent, saving a draft, sending. *)
WebChange(w) ==
    /\ \E id \in Ids :
        \/ \E f \in DOMAIN folders : MoveSome({id}, f)
        \/ \E f \in {Drafts, Sent}, size \in Sizes :
              Insert(id, f, size, FALSE) \/ Rewrite(id, 0, f, size)
    /\ UNCHANGED <<web, late, timeouts, destroyed>> /\ WebOnly

WebStep(w) == LookUp(w) \/ WebDelete(w) \/ WebChange(w)

-----------------------------------------------------------------------------
(* The delivery worker stores mail, spam in a folder of its own. *)
Deliver ==
    /\ \E id \in Ids, f \in {Inbox, Junk}, size \in Sizes : Insert(id, f, size, FALSE)
    /\ UNCHANGED sessionVars

Next ==
    \/ \E s \in Imap : ImapStep(s)
    \/ \E p \in Pop : PopStep(p)
    \/ \E w \in Web : WebStep(w)
    \/ \E r \in late : RunLate(r)
    \/ Deliver

Spec == Init /\ [][Next]_vars

-----------------------------------------------------------------------------
(* Properties *)

(* A client's sequence numbers stand for what the session takes them for,
   after every order of arrivals, moves and expunges by others: what STORE,
   COPY or MOVE acts on is what the client meant.                            *)
NumberingAgrees == \A s \in Imap : view[s] = Keys(imap[s].rows)

(* No two sessions that may change flags show one message as recent. *)
RecentToOneSession ==
    \A s, t \in Imap : s # t /\ Writable(s) /\ Writable(t) => imap[s].recent \cap imap[t].recent = {}

(* What a session destroys is what it was shown: the content of that UID in
   that folder, however late the delete is executed; and an IMAP expunge spares
   a message whose flag another session has cleared.                          *)
DestroysWhatWasShown ==
    \A d \in destroyed :
        /\ d.was.size = d.saw.size /\ d.was.folder = d.saw.folder
        /\ d.by = "imap" => d.was.deleted

(* A maildrop has at most one POP3 session, and is free when it has none. *)
MaildropHasOneOwner ==
    /\ leased <=> \E p \in Pop : pop[p].at # "off"
    /\ \A p, q \in Pop : pop[p].at # "off" /\ pop[q].at # "off" => p = q
=============================================================================
