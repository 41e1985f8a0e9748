------------------------------ MODULE LogFiles ------------------------------
(***************************************************************************)
(* One service's log: processes append entries under a lock file and rotate *)
(* the files when the current one is full (append_file); the log page reads *)
(* them backwards, page after page, without the lock (read_logs).  A cursor *)
(* names each file by its identity, which survives a rename, and how far it *)
(* has been read.  An entry is its time; a file is full at Capacity entries. *)
(* A line is appended in one write.                                         *)
(***************************************************************************)
EXTENDS Naturals, FiniteSets, FiniteSetsExt, Functions

CONSTANTS
    Loggers,        \* processes that write this log
    Backups,        \* log_backups
    Capacity,       \* entries that fit into log_max_bytes
    Limit,          \* entries of a page
    MaxEntries,     \* bound: entries ever logged
    MaxChains       \* bound: readings from the start

ASSUME LogAssumption ==
    /\ Backups \in Nat \ {0} /\ Capacity \in Nat \ {0} /\ Limit \in Nat \ {0}
    /\ {MaxEntries, MaxChains} \subseteq Nat

VARIABLES
    lgPart,         \* part 0 (the current file) to Backups -> the file, 0 for none
    lgTimes,        \* file -> its entries
    lgLock,         \* the processes that hold the lock file: at most one
    lgAt,           \* process -> what it does next
    lgScan,         \* the request being served: the next part to open
    lgReaders,      \* part -> what was opened there: file and entries still to read
    lgCursor,       \* part -> the position the last page left, for the parts it names
    lgClock, lgChains,
    lgRaced,        \* files were renamed or removed while a request opened them
    lgWanted,       \* entries that existed when the reading began
    lgRead,         \* entry -> how often the reading returned it
    lgTold          \* a page said that files had been rotated away

lgVars == <<lgPart, lgTimes, lgLock, lgAt, lgScan, lgReaders, lgCursor, lgClock, lgChains,
            lgRaced, lgWanted, lgRead, lgTold>>

Parts == 0..Backups
Files == 1..MaxEntries
Entries == 1..MaxEntries
Position == [file : Files \cup {0}, left : 0..Capacity]
Unopened == [file |-> 0, left |-> 0]
Idle == Backups + 1         \* no request is being served
Step(at, part) == [at |-> at, part |-> part]
Steps == [at : {"idle", "locked", "rotate", "append"}, part : Parts]

LogTypeOK ==
    /\ lgPart \in [Parts -> Files \cup {0}] /\ lgTimes \in [Files -> SUBSET Entries]
    /\ lgLock \subseteq Loggers /\ Cardinality(lgLock) <= 1 /\ lgAt \in [Loggers -> Steps]
    /\ lgScan \in 0..Backups + 2
    /\ lgReaders \in [Parts -> Position] /\ lgCursor \in [Parts -> Position]
    /\ lgClock \in 0..MaxEntries /\ lgChains \in 0..MaxChains
    /\ lgRaced \in BOOLEAN /\ lgWanted \subseteq Entries
    /\ lgRead \in [Entries -> Nat] /\ lgTold \in BOOLEAN

LogInit ==
    /\ lgPart = [p \in Parts |-> 0] /\ lgTimes = [f \in Files |-> {}]
    /\ lgLock = {} /\ lgAt = [w \in Loggers |-> Step("idle", 0)]
    /\ lgScan = Idle
    /\ lgReaders = [p \in Parts |-> Unopened] /\ lgCursor = [p \in Parts |-> Unopened]
    /\ lgClock = 0 /\ lgChains = 0
    /\ lgRaced = FALSE /\ lgWanted = {} /\ lgRead = [e \in Entries |-> 0] /\ lgTold = FALSE

-----------------------------------------------------------------------------
ReaderUnchanged == UNCHANGED <<lgScan, lgReaders, lgCursor, lgChains, lgWanted, lgRead, lgTold>>
Continues(w, at, part) == lgAt' = [lgAt EXCEPT ![w] = Step(at, part)]
Scanning == lgScan \in 1..Backups

(* FileLock *)
LockLog(w) ==
    /\ lgAt[w].at = "idle" /\ lgClock < MaxEntries
    /\ lgLock = {} /\ lgLock' = {w}
    /\ Continues(w, "locked", 0)
    /\ UNCHANGED <<lgPart, lgTimes, lgClock, lgRaced>> /\ ReaderUnchanged

Full == lgPart[0] # 0 /\ Cardinality(lgTimes[lgPart[0]]) >= Capacity

Measure(w) ==
    /\ lgAt[w].at = "locked"
    /\ (IF Full THEN Continues(w, "rotate", Backups) ELSE Continues(w, "append", 0))
    /\ UNCHANGED <<lgPart, lgTimes, lgLock, lgClock, lgRaced>> /\ ReaderUnchanged

(* The oldest backup is replaced first; each file moves up by one name. *)
Rotate(w) ==
    \E i \in 1..Backups :
        /\ lgAt[w] = Step("rotate", i)
        /\ lgPart' = [lgPart EXCEPT ![i] = lgPart[i - 1], ![i - 1] = 0]
        /\ lgRaced' = (lgRaced \/ Scanning)
        /\ (IF i = 1 THEN Continues(w, "append", 0) ELSE Continues(w, "rotate", i - 1))
        /\ UNCHANGED <<lgTimes, lgLock, lgClock>> /\ ReaderUnchanged

(* The current file is created when it is missing. *)
AppendEntry(w) ==
    /\ lgAt[w].at = "append"
    /\ lgClock' = lgClock + 1
    /\ LET file == IF lgPart[0] = 0 THEN lgClock' ELSE lgPart[0]
       IN  /\ lgPart' = [lgPart EXCEPT ![0] = file]
           /\ lgTimes' = [lgTimes EXCEPT ![file] = @ \cup {lgClock'}]
    /\ lgLock' = lgLock \ {w}
    /\ Continues(w, "idle", 0)
    /\ UNCHANGED lgRaced /\ ReaderUnchanged

(* log catches every error: the entry is lost, the lock released. *)
LogFails(w) ==
    /\ lgAt[w].at # "idle"
    /\ lgLock' = lgLock \ {w}
    /\ Continues(w, "idle", 0)
    /\ UNCHANGED <<lgPart, lgTimes, lgClock, lgRaced>> /\ ReaderUnchanged

-----------------------------------------------------------------------------
LoggersUnchanged == UNCHANGED <<lgPart, lgTimes, lgLock, lgAt, lgClock>>

positions == {p \in Parts : lgCursor[p].left > 0}
Continued == positions # {}

(* read_logs without a cursor, or with that of the page before. *)
RequestPage ==
    /\ lgScan = Idle
    /\ lgScan' = 0
    /\ lgReaders' = [p \in Parts |-> Unopened]
    /\ \/ /\ Continued
          /\ UNCHANGED <<lgCursor, lgChains, lgRaced, lgRead, lgTold>>
       \/ /\ lgChains < MaxChains
          /\ lgChains' = lgChains + 1
          /\ lgCursor' = [p \in Parts |-> Unopened]
          /\ lgRead' = [e \in Entries |-> 0]
          /\ lgRaced' = FALSE /\ lgTold' = FALSE
    /\ UNCHANGED lgWanted /\ LoggersUnchanged

Logged == UNION {lgTimes[lgPart[p]] : p \in {q \in Parts : lgPart[q] # 0}}

(* A part is opened and identified; what a cursor does not name is not read. *)
Saved(file) == {p \in positions : lgCursor[p].file = file}
Opened(file) ==
    IF file = 0 THEN Unopened
    ELSE IF ~Continued THEN [file |-> file, left |-> Cardinality(lgTimes[file])]
    ELSE IF Saved(file) # {} THEN lgCursor[Min(Saved(file))]
    ELSE Unopened

OpenPart ==
    /\ lgScan \in Parts
    /\ lgReaders' = [lgReaders EXCEPT ![lgScan] = Opened(lgPart[lgScan])]
    /\ lgScan' = IF lgScan = Backups THEN Backups + 2 ELSE lgScan + 1
    /\ lgWanted' = IF lgScan = 0 /\ ~Continued THEN Logged ELSE lgWanted
    /\ UNCHANGED <<lgCursor, lgChains, lgRaced, lgRead, lgTold>> /\ LoggersUnchanged

(* The entries before a reader's position, as <<part, time>>. *)
Earliest(times, n) == {t \in times : Cardinality({u \in times : u < t}) < n}
Unread == UNION {{p} \X Earliest(lgTimes[lgReaders[p].file], lgReaders[p].left) :
                   p \in {q \in Parts : lgReaders[q].file # 0}}
NewestFirst(page) == \A x \in page, y \in Unread \ page : x[2] >= y[2]

(* Mutant: a file that has been rotated away is not reported. *)
unreported == FALSE

(* Fewer files were opened than the cursor names. *)
files_rotated == Cardinality({p \in Parts : lgReaders[p].file # 0}) < Cardinality(positions)

(* The newest entries, at most Limit; fewer when the scan budget is used up.  *)
(* The open files keep their contents whatever happens to their names.        *)
AnswerPage ==
    /\ lgScan = Backups + 2
    /\ \E n \in 0..Limit : \E page \in kSubset(n, Unread) :
         /\ NewestFirst(page)
         /\ lgRead' = [e \in Entries |-> lgRead[e] + Cardinality({x \in page : x[2] = e})]
         /\ lgCursor' = [p \in Parts |->
              [lgReaders[p] EXCEPT !.left = @ - Cardinality({x \in page : x[1] = p})]]
    /\ lgTold' = (lgTold \/ files_rotated)
    /\ lgScan' = Idle
    /\ UNCHANGED <<lgReaders, lgChains, lgRaced, lgWanted>> /\ LoggersUnchanged

LogNext ==
    \/ \E w \in Loggers : LockLog(w) \/ Measure(w) \/ Rotate(w) \/ AppendEntry(w) \/ LogFails(w)
    \/ RequestPage \/ OpenPart \/ AnswerPage
LogSpec == LogInit /\ [][LogNext]_lgVars

-----------------------------------------------------------------------------
(* The pages of one reading return no entry twice, and when the last cursor  *)
(* is empty every entry that existed at its beginning was returned, unless a *)
(* page reported that files were rotated away: read_logs, with entries        *)
(* appended and files rotated between the pages.  A rotation while a request *)
(* opens the files may show one twice (docs/architecture.md: "File rotation   *)
(* can race with reads").                                                    *)
PagesAreExact ==
    lgRaced \/ /\ \A e \in Entries : lgRead[e] <= 1
               /\ lgScan = Idle /\ lgChains > 0 /\ ~Continued /\ ~lgTold =>
                     \A e \in lgWanted : lgRead[e] = 1
=============================================================================
