---------------------------- MODULE ReleaseProofs ----------------------------
(***************************************************************************)
(* Proofs about Supervisor, for any modules, releases, services and update  *)
(* jobs: whatever is interrupted, fails or is rolled back, the journal says *)
(* which modules an update may have replaced, the others are those of the   *)
(* baseline's release, and the group serves from one release.               *)
(***************************************************************************)
EXTENDS SupervisorProofs

-----------------------------------------------------------------------------
(* A second invariant, beside SupervisorInvariant, follows the modules
   through each prefix of an apply and of a rollback: what is neither
   journalled nor replaced by hand is that of the baseline's release.        *)

(* What a job has journalled as replaced and has not settled. *)
Written(j) == IF Unfinished(j) THEN journal[j].applied ELSE {}

(* An entry says what it has begun, and one at most has begun. *)
EntryFits(j) ==
    /\ journal[j].applied \subseteq journal[j].files
    /\ journal[j].state \in {"none", "staging", "staged", "cancelled", "rolled_back"}
       => journal[j].applied = {} /\ ~journal[j].metadataApplied
    /\ journal[j].metadataApplied => journal[j].state \in {"installed", "failed", "complete"}
    /\ Unfinished(j) =>
        \/ metadata = journal[j].oldMetadata
        \/ journal[j].metadataApplied /\ metadata = journal[j].version

JournalFits ==
    /\ \A j \in Jobs : EntryFits(j)
    /\ \A i, j \in Jobs : Unfinished(i) /\ Unfinished(j) => i = j
    /\ staging # NoJob =>
        /\ call.fn \in {"idle", "apply", "ok", "failed"}
        /\ \A j \in Jobs : ~Unfinished(j)

(* What the operation in progress may rely on at its next write. *)
AllReplacedBy(j) == \A f \in journal[j].files : installed[f] \in {New(j, f), HandEdit}

WritesFit ==
    LET j == call.job IN
    /\ call.fn \in {"replace", "write"} => journal[j].state = "applying"
    /\ call.fn = "write" => call.file \in journal[j].applied
    /\ call.fn \in {"roll", "restore"} =>
        /\ journal[j].state \notin {"none", "staging", "complete", "rolled_back"}
        /\ call.marks \subseteq journal[j].files
        /\ call.marks # {} => journal[j].state = "applying"
    /\ call.fn = "restore" =>
        /\ call.file \in journal[j].applied /\ installed[call.file] \in {journal[j].old[call.file], HandEdit}
        /\ ~journal[j].metadataApplied
    /\ call.fn = "remark" => journal[j].state = "rolled_back"
    /\ call.fn \in {"baseline", "mark"} =>
        journal[j].state = "installed" /\ journal[j].metadataApplied /\ AllReplacedBy(j)
    /\ call.fn = "mark" => metadata = journal[j].version

(* The baseline that counts: an unfinished job's is the one it was begun with. *)
Counts(b) ==
    \/ \E j \in Jobs : Unfinished(j) /\ b = journal[j].oldMetadata
    \/ (\A j \in Jobs : ~Unfinished(j)) /\ b = metadata

ReleaseOf(b) == IF b = 0 THEN 1 ELSE b
Lasting == {"staged", "applying", "installed"}

(* Of a job that may still be applied, what it leaves alone is what its release has. *)
Spares(j, b) ==
    \A f \in Modules \ journal[j].files, q \in Releases :
        ReleaseOf(b) <= q /\ q <= journal[j].version => Build[q][f] = New(j, f)

FitsRelease(b) ==
    /\ \A f \in Modules : (\A j \in Jobs : f \notin Written(j)) => installed[f] \in {Build[ReleaseOf(b)][f], HandEdit}
    /\ \A j \in Jobs : Unfinished(j) =>
        \A f \in journal[j].files : journal[j].old[f] \in {Build[ReleaseOf(b)][f], HandEdit}
    /\ \A j \in Jobs : journal[j].state \in Lasting => Spares(j, b)

ModulesFit == \A b \in 0 .. Newest : Counts(b) => FitsRelease(b)

(* The launcher that runs is the one installed, but for a job that replaces it. *)
Keeping ==
    {"recover", "recover_wait", "resume", "start", "ready", "released", "ack", "ack_wait", "serve",
     "u_stop", "u_prepare", "u_start", "u_commit", "u_restore"} \cup RestartPhases
LauncherKept == installed[Launcher] \in {self, HandEdit}

LauncherFits ==
    /\ sup.phase \in Keeping \/ (sup.phase \in {"finish", "report"} /\ sup.exit = "none") => LauncherKept
    /\ sup.phase \in {"u_start", "u_commit"} => ~HasLauncher(sup.job)
    /\ sup.phase \in {"u_stop", "u_prepare"} \/ (sup.phase = "u_apply" /\ call.fn = "apply")
       => ~Unfinished(sup.job)
    /\ sup.phase \in {"u_apply", "u_undo"} =>
        /\ Launcher \notin Written(sup.job) => LauncherKept
        /\ Unfinished(sup.job) /\ HasLauncher(sup.job) => journal[sup.job].old[Launcher] \in {self, HandEdit}

(* A running service has the modules it was started from; those of an update are stopped. *)
Stopped == {"down", "pre", "pre_wait", "exec", "exec_wait", "recover", "recover_wait", "resume",
            "resume_wait", "unwind_wait"}

RunsInstalled(s) ==
    running[s] # NotRunning => \A f \in Modules : s \in UsedBy[f] => installed[f] \in {running[s][f], HandEdit}

RunningFits ==
    /\ \A s \in Group : RunsInstalled(s)
    /\ sup.phase \in Stopped => running = Nothing
    /\ sup.phase \in {"u_stop", "u_prepare", "u_apply", "u_start", "u_commit", "u_undo"}
       => sup.plan = UpdatePlan(sup.job)
    /\ sup.phase \in {"u_prepare", "u_apply", "u_undo"} => \A s \in sup.plan : running[s] = NotRunning

ReleaseInvariant ==
    /\ JournalFits /\ WritesFit
    /\ Superseded \/ ModulesFit
    /\ LauncherFits /\ RunningFits

-----------------------------------------------------------------------------
(* What a write of the operation in progress does to its job and to the modules *)

EntryBecomes(j, state, replaced, oldMetadata, committing) ==
    /\ journal'[j].state = state /\ journal'[j].applied = replaced
    /\ journal'[j].oldMetadata = oldMetadata /\ journal'[j].metadataApplied = committing
    /\ journal'[j].files = journal[j].files /\ journal'[j].version = journal[j].version
    /\ journal'[j].old = journal[j].old
    /\ \A i \in Jobs : i # j => journal'[i] = journal[i]

CallBecomes(fn, file, marks) ==
    call'.fn = fn /\ call'.file = file /\ call'.marks = marks /\ call'.job = call.job

KeepsEntry(j) ==
    EntryBecomes(j, journal[j].state, journal[j].applied, journal[j].oldMetadata, journal[j].metadataApplied)

(* Saving a job changes the fields that are named, and no other job. *)
LEMMA SavedBecomes ==
    ASSUME journal \in [Jobs -> Entries], NEW j \in Jobs, NEW state \in States, NEW replaced \in SUBSET Modules,
           NEW base \in 0 .. Newest, NEW committing \in BOOLEAN
    PROVE  /\ State(j, state) => EntryBecomes(j, state, journal[j].applied, journal[j].oldMetadata, journal[j].metadataApplied)
           /\ save_job(j, [journal[j] EXCEPT !.applied = replaced])
              => EntryBecomes(j, journal[j].state, replaced, journal[j].oldMetadata, journal[j].metadataApplied)
           /\ save_job(j, [journal[j] EXCEPT !.metadataApplied = committing])
              => EntryBecomes(j, journal[j].state, journal[j].applied, journal[j].oldMetadata, committing)
           /\ save_job(j, [journal[j] EXCEPT !.state = state, !.applied = replaced])
              => EntryBecomes(j, state, replaced, journal[j].oldMetadata, journal[j].metadataApplied)
           /\ save_job(j, [journal[j] EXCEPT !.state = state, !.oldMetadata = base, !.metadataApplied = committing])
              => EntryBecomes(j, state, journal[j].applied, base, committing)
<1>1. journal[j] \in Entries
  OBVIOUS
<1>2. \A e : save_job(j, e) => journal'[j] = e /\ \A i \in Jobs : i # j => journal'[i] = journal[i]
  BY DEF save_job
<1>3. State(j, state) => EntryBecomes(j, state, journal[j].applied, journal[j].oldMetadata, journal[j].metadataApplied)
  BY <1>1, <1>2 DEF State, Entries, EntryBecomes
<1>4. save_job(j, [journal[j] EXCEPT !.applied = replaced])
      => EntryBecomes(j, journal[j].state, replaced, journal[j].oldMetadata, journal[j].metadataApplied)
  BY <1>1, <1>2 DEF Entries, EntryBecomes
<1>5. save_job(j, [journal[j] EXCEPT !.metadataApplied = committing])
      => EntryBecomes(j, journal[j].state, journal[j].applied, journal[j].oldMetadata, committing)
  BY <1>1, <1>2 DEF Entries, EntryBecomes
<1>6. save_job(j, [journal[j] EXCEPT !.state = state, !.applied = replaced])
      => EntryBecomes(j, state, replaced, journal[j].oldMetadata, journal[j].metadataApplied)
  <2> DEFINE g == [journal[j] EXCEPT !.state = state, !.applied = replaced]
  <2>1. /\ g.state = state /\ g.applied = replaced /\ g.oldMetadata = journal[j].oldMetadata
        /\ g.metadataApplied = journal[j].metadataApplied
        /\ g.files = journal[j].files /\ g.version = journal[j].version /\ g.old = journal[j].old
    BY <1>1 DEF Entries
  <2> HIDE DEF g
  <2>2. save_job(j, g) => EntryBecomes(j, state, replaced, journal[j].oldMetadata, journal[j].metadataApplied)
    BY <1>2, <2>1 DEF EntryBecomes
  <2> QED BY <2>2 DEF g
<1>7. save_job(j, [journal[j] EXCEPT !.state = state, !.oldMetadata = base, !.metadataApplied = committing])
      => EntryBecomes(j, state, journal[j].applied, base, committing)
  <2> DEFINE g == [journal[j] EXCEPT !.state = state, !.oldMetadata = base, !.metadataApplied = committing]
  <2>1. /\ g.state = state /\ g.applied = journal[j].applied /\ g.oldMetadata = base /\ g.metadataApplied = committing
        /\ g.files = journal[j].files /\ g.version = journal[j].version /\ g.old = journal[j].old
    BY <1>1 DEF Entries
  <2> HIDE DEF g
  <2>2. save_job(j, g) => EntryBecomes(j, state, journal[j].applied, base, committing)
    BY <1>2, <2>1 DEF EntryBecomes
  <2> QED BY <2>2 DEF g
<1> QED BY <1>3, <1>4, <1>5, <1>6, <1>7

(* A journal that is not written. *)
LEMMA SameBecomes ==
    ASSUME NEW j \in Jobs, journal' = journal
    PROVE  KeepsEntry(j)
BY DEF KeepsEntry, EntryBecomes

LEMMA AnswerBecomes ==
    ASSUME call \in CallRecords, NEW fn \in Steps
    PROVE  Answer(fn) => CallBecomes(fn, call.file, call.marks)
BY DEF Answer, CallRecords, CallBecomes

(* apply_staged_update up to its first write *)
LEMMA ApplyEffects ==
    ASSUME UpdateTypeOK, NEW j \in Jobs, j = call.job
    PROVE  /\ ApplyAnswered => KeepsEntry(j) /\ staging = NoJob /\ CallBecomes("ok", call.file, call.marks)
           /\ ApplyRefused =>
                /\ CallBecomes("failed", call.file, call.marks)
                /\ \/ KeepsEntry(j)
                   \/ /\ journal[j].state = "staged"
                      /\ EntryBecomes(j, "failed", journal[j].applied, journal[j].oldMetadata, journal[j].metadataApplied)
           /\ ApplyChecked =>
                /\ journal[j].state = "staged" /\ Unchanged(j) /\ staging = NoJob
                /\ EntryBecomes(j, "applying", journal[j].applied, metadata, FALSE)
                /\ CallBecomes("replace", call.file, call.marks)
           /\ ApplyAnswered \/ ApplyRefused \/ ApplyChecked
              => call.fn = "apply" /\ UNCHANGED <<installed, metadata, staging, handoff>>
<1>1. journal \in [Jobs -> Entries] /\ call \in CallRecords /\ metadata \in 0 .. Newest
  BY DEF UpdateTypeOK, CallRecords
<1>2. {"ok", "failed", "replace"} \subseteq Steps
  BY DEF Steps
<1>3. ASSUME ApplyAnswered
      PROVE  KeepsEntry(j) /\ staging = NoJob /\ CallBecomes("ok", call.file, call.marks)
  BY <1>1, <1>2, <1>3, SameBecomes, AnswerBecomes DEF ApplyAnswered, diskVars, Lease
<1>4. ASSUME ApplyRefused
      PROVE  /\ CallBecomes("failed", call.file, call.marks)
             /\ \/ KeepsEntry(j)
                \/ /\ journal[j].state = "staged"
                   /\ EntryBecomes(j, "failed", journal[j].applied, journal[j].oldMetadata, journal[j].metadataApplied)
  <2>1. CallBecomes("failed", call.file, call.marks)
    BY <1>1, <1>2, <1>4, AnswerBecomes DEF ApplyRefused
  <2>2. journal' = journal \/ (journal[j].state = "staged" /\ State(j, "failed"))
    BY <1>4 DEF ApplyRefused
  <2> QED BY <1>1, <2>1, <2>2, SavedBecomes, SameBecomes, StatesAreStrings
<1>5. ASSUME ApplyChecked
      PROVE  /\ journal[j].state = "staged" /\ Unchanged(j) /\ staging = NoJob
             /\ EntryBecomes(j, "applying", journal[j].applied, metadata, FALSE)
             /\ CallBecomes("replace", call.file, call.marks)
  BY <1>1, <1>2, <1>5, SavedBecomes, StatesAreStrings, AnswerBecomes DEF ApplyChecked, Lease
<1> QED BY <1>3, <1>4, <1>5 DEF ApplyAnswered, ApplyRefused, ApplyChecked, diskVars

(* ... and its writes *)
LEMMA ReplaceEffects ==
    ASSUME UpdateTypeOK, NEW j \in Jobs, j = call.job
    PROVE  /\ JournalModule => call.fn = "replace" /\ \E f \in journal[j].files \ journal[j].applied :
                /\ EntryBecomes(j, journal[j].state, journal[j].applied \cup {f}, journal[j].oldMetadata, journal[j].metadataApplied)
                /\ CallBecomes("write", f, call.marks) /\ installed' = installed
           /\ WriteModule =>
                /\ call.fn = "write" /\ KeepsEntry(j) /\ CallBecomes("replace", NoModule, call.marks)
                /\ installed' = [installed EXCEPT ![call.file] = New(j, call.file)]
           /\ WriteFails =>
                /\ call.fn = "write" /\ KeepsEntry(j) /\ installed' = installed
                /\ CallBecomes("roll", NoModule, journal[j].applied) /\ call'.then = "failed"
           /\ AllReplaced =>
                /\ call.fn = "replace" /\ installed' = installed /\ CallBecomes("ok", call.file, call.marks)
                /\ EntryBecomes(j, "installed", journal[j].applied, journal[j].oldMetadata, journal[j].metadataApplied)
           /\ JournalModule \/ WriteModule \/ WriteFails \/ AllReplaced => UNCHANGED <<metadata, staging, handoff>>
<1>1. journal \in [Jobs -> Entries] /\ call \in CallRecords /\ journal[j] \in Entries
  BY DEF UpdateTypeOK, CallRecords
<1>2. journal[j].applied \in SUBSET Modules /\ journal[j].files \in SUBSET Modules
  BY <1>1 DEF Entries
<1>3. ASSUME JournalModule
      PROVE  call.fn = "replace" /\ \E f \in journal[j].files \ journal[j].applied :
                /\ EntryBecomes(j, journal[j].state, journal[j].applied \cup {f}, journal[j].oldMetadata, journal[j].metadataApplied)
                /\ CallBecomes("write", f, call.marks) /\ installed' = installed
  <2>1. PICK f \in journal[j].files \ journal[j].applied :
          JournalFirst(j, f) /\ call' = [call EXCEPT !.fn = "write", !.file = f]
    BY <1>3 DEF JournalModule
  <2>2. CallBecomes("write", f, call.marks)
    BY <1>1, <2>1 DEF CallRecords, CallBecomes
  <2>3. journal[j].applied \cup {f} \in SUBSET Modules
    BY <1>2
  <2>4. save_job(j, [journal[j] EXCEPT !.applied = journal[j].applied \cup {f}])
    BY <2>1 DEF JournalFirst
  <2>5. EntryBecomes(j, journal[j].state, journal[j].applied \cup {f}, journal[j].oldMetadata, journal[j].metadataApplied)
    <3> DEFINE a == journal[j].applied \cup {f}
    <3> HIDE DEF a
    <3>1. save_job(j, [journal[j] EXCEPT !.applied = a]) /\ a \in SUBSET Modules
      BY <2>3, <2>4 DEF a
    <3>2. "failed" \in States /\ 0 \in 0 .. Newest /\ TRUE \in BOOLEAN
      BY StatesAreStrings, ModuleUpdateAssumption
    <3>3. EntryBecomes(j, journal[j].state, a, journal[j].oldMetadata, journal[j].metadataApplied)
      BY <1>1, <3>1, <3>2, SavedBecomes
    <3> QED BY <3>3 DEF a
  <2> QED BY <1>3, <2>1, <2>2, <2>5 DEF JournalModule
<1>4. ASSUME WriteModule
      PROVE  /\ call.fn = "write" /\ KeepsEntry(j) /\ CallBecomes("replace", NoModule, call.marks)
             /\ installed' = [installed EXCEPT ![call.file] = New(j, call.file)]
  BY <1>1, <1>4, SameBecomes DEF WriteModule, CallRecords, CallBecomes
<1>5. ASSUME WriteFails
      PROVE  /\ call.fn = "write" /\ KeepsEntry(j) /\ installed' = installed
             /\ CallBecomes("roll", NoModule, journal[j].applied) /\ call'.then = "failed"
  BY <1>1, <1>5, SameBecomes DEF WriteFails, CallRecords, CallBecomes, diskVars
<1>6. ASSUME AllReplaced
      PROVE  /\ call.fn = "replace" /\ installed' = installed /\ CallBecomes("ok", call.file, call.marks)
             /\ EntryBecomes(j, "installed", journal[j].applied, journal[j].oldMetadata, journal[j].metadataApplied)
  <2>1. "ok" \in Steps /\ "installed" \in States
    BY DEF Steps, States
  <2>2. 0 \in 0 .. Newest
    BY ModuleUpdateAssumption
  <2> QED BY <1>1, <1>2, <1>6, <2>1, <2>2, SavedBecomes, AnswerBecomes DEF AllReplaced
<1> QED BY <1>3, <1>4, <1>5, <1>6 DEF JournalModule, WriteModule, WriteFails, AllReplaced, diskVars

(* rollback *)
LEMMA RollEffects ==
    ASSUME UpdateTypeOK, NEW j \in Jobs, j = call.job
    PROVE  /\ RollMetadata =>
                /\ call.fn = "roll" /\ journal[j].metadataApplied /\ call' = call /\ installed' = installed
                /\ \/ /\ metadata = journal[j].oldMetadata /\ metadata' = metadata
                      /\ EntryBecomes(j, journal[j].state, journal[j].applied, journal[j].oldMetadata, FALSE)
                   \/ metadata' = journal[j].oldMetadata /\ KeepsEntry(j)
           /\ RollModule =>
                /\ call.fn = "roll" /\ ~journal[j].metadataApplied /\ KeepsEntry(j) /\ metadata' = metadata
                /\ \E f \in journal[j].applied : /\ installed' = [installed EXCEPT ![f] = journal[j].old[f]]
                                                /\ CallBecomes("restore", f, call.marks)
           /\ JournalRestored =>
                /\ call.fn = "restore" /\ UNCHANGED <<installed, metadata>>
                /\ EntryBecomes(j, journal[j].state, journal[j].applied \ {call.file}, journal[j].oldMetadata, journal[j].metadataApplied)
                /\ CallBecomes("roll", NoModule, call.marks)
           /\ RollFails =>
                /\ call.fn = "roll" /\ UNCHANGED <<installed, metadata>> /\ CallBecomes("failed", call.file, call.marks)
                /\ \/ KeepsEntry(j)
                   \/ EntryBecomes(j, "failed", journal[j].applied \cup call.marks, journal[j].oldMetadata, journal[j].metadataApplied)
           /\ RolledBack =>
                /\ call.fn = "roll" /\ ~journal[j].metadataApplied /\ journal[j].applied = {} /\ UNCHANGED <<installed, metadata>>
                /\ EntryBecomes(j, "rolled_back", journal[j].applied, journal[j].oldMetadata, journal[j].metadataApplied)
                /\ CallBecomes(call.then, call.file, call.marks)
           /\ RemarkFailed =>
                /\ call.fn = "remark" /\ UNCHANGED <<installed, metadata>> /\ CallBecomes("ok", call.file, call.marks)
                /\ EntryBecomes(j, "failed", journal[j].applied, journal[j].oldMetadata, journal[j].metadataApplied)
           /\ RollMetadata \/ RollModule \/ JournalRestored \/ RollFails \/ RolledBack \/ RemarkFailed
              => UNCHANGED <<staging, handoff>>
<1>1. journal \in [Jobs -> Entries] /\ call \in CallRecords /\ journal[j] \in Entries
  BY DEF UpdateTypeOK, CallRecords
<1>2. journal[j].applied \in SUBSET Modules /\ call.marks \in SUBSET Modules /\ 0 \in 0 .. Newest
  BY <1>1, ModuleUpdateAssumption DEF Entries, CallRecords
<1>3. {"ok", "failed", "remark"} \subseteq Steps /\ call.then \in {"ok", "failed", "remark"}
  BY <1>1 DEF Steps, CallRecords
<1>4. ASSUME RollMetadata
      PROVE  /\ call.fn = "roll" /\ journal[j].metadataApplied /\ call' = call /\ installed' = installed
             /\ \/ /\ metadata = journal[j].oldMetadata /\ metadata' = metadata
                   /\ EntryBecomes(j, journal[j].state, journal[j].applied, journal[j].oldMetadata, FALSE)
                \/ metadata' = journal[j].oldMetadata /\ KeepsEntry(j)
  <2>1. \/ /\ metadata = journal[j].oldMetadata /\ metadata' = metadata
           /\ save_job(j, [journal[j] EXCEPT !.metadataApplied = FALSE])
        \/ metadata' = journal[j].oldMetadata /\ journal' = journal
    BY <1>4 DEF RollMetadata
  <2>2. save_job(j, [journal[j] EXCEPT !.metadataApplied = FALSE])
        => EntryBecomes(j, journal[j].state, journal[j].applied, journal[j].oldMetadata, FALSE)
    BY <1>1, <1>2, StatesAreStrings, SavedBecomes
  <2> QED BY <1>4, <2>1, <2>2, SameBecomes DEF RollMetadata
<1>5. ASSUME RollModule
      PROVE  /\ call.fn = "roll" /\ ~journal[j].metadataApplied /\ KeepsEntry(j) /\ metadata' = metadata
             /\ \E f \in journal[j].applied : /\ installed' = [installed EXCEPT ![f] = journal[j].old[f]]
                                              /\ CallBecomes("restore", f, call.marks)
  <2>1. PICK f \in journal[j].applied : /\ installed' = [installed EXCEPT ![f] = journal[j].old[f]]
                                        /\ call' = [call EXCEPT !.fn = "restore", !.file = f]
    BY <1>5 DEF RollModule
  <2>2. CallBecomes("restore", f, call.marks)
    BY <1>1, <2>1 DEF CallRecords, CallBecomes
  <2> QED BY <1>5, <2>1, <2>2, SameBecomes DEF RollModule
<1>6. ASSUME JournalRestored
      PROVE  /\ call.fn = "restore" /\ UNCHANGED <<installed, metadata>>
             /\ EntryBecomes(j, journal[j].state, journal[j].applied \ {call.file}, journal[j].oldMetadata, journal[j].metadataApplied)
             /\ CallBecomes("roll", NoModule, call.marks)
  <2> DEFINE a == journal[j].applied \ {call.file}
  <2>1. save_job(j, [journal[j] EXCEPT !.applied = a]) /\ a \in SUBSET Modules
    BY <1>2, <1>6 DEF JournalRestored
  <2>2. CallBecomes("roll", NoModule, call.marks)
    BY <1>1, <1>6 DEF JournalRestored, CallRecords, CallBecomes
  <2> HIDE DEF a
  <2>3. EntryBecomes(j, journal[j].state, a, journal[j].oldMetadata, journal[j].metadataApplied)
    BY <1>1, <1>2, <2>1, StatesAreStrings, SavedBecomes
  <2> QED BY <1>6, <2>2, <2>3 DEF JournalRestored, a
<1>7. ASSUME RollFails
      PROVE  /\ call.fn = "roll" /\ UNCHANGED <<installed, metadata>> /\ CallBecomes("failed", call.file, call.marks)
             /\ \/ KeepsEntry(j)
                \/ EntryBecomes(j, "failed", journal[j].applied \cup call.marks, journal[j].oldMetadata, journal[j].metadataApplied)
  <2> DEFINE a == journal[j].applied \cup call.marks
  <2>1. a \in SUBSET Modules
    BY <1>2
  <2>2. journal' = journal \/ save_job(j, [journal[j] EXCEPT !.state = "failed", !.applied = a])
    BY <1>7 DEF RollFails
  <2>3. CallBecomes("failed", call.file, call.marks)
    BY <1>1, <1>3, <1>7, AnswerBecomes DEF RollFails
  <2> HIDE DEF a
  <2>4. KeepsEntry(j) \/ EntryBecomes(j, "failed", a, journal[j].oldMetadata, journal[j].metadataApplied)
    BY <1>1, <1>2, <2>1, <2>2, StatesAreStrings, SavedBecomes, SameBecomes
  <2> QED BY <1>7, <2>3, <2>4 DEF RollFails, a
<1>8. ASSUME RolledBack
      PROVE  /\ call.fn = "roll" /\ ~journal[j].metadataApplied /\ journal[j].applied = {} /\ UNCHANGED <<installed, metadata>>
             /\ EntryBecomes(j, "rolled_back", journal[j].applied, journal[j].oldMetadata, journal[j].metadataApplied)
             /\ CallBecomes(call.then, call.file, call.marks)
  <2>1. EntryBecomes(j, "rolled_back", journal[j].applied, journal[j].oldMetadata, journal[j].metadataApplied)
    BY <1>1, <1>2, <1>8, StatesAreStrings, SavedBecomes DEF RolledBack
  <2>2. CallBecomes(call.then, call.file, call.marks)
    BY <1>1, <1>3, <1>8, AnswerBecomes DEF RolledBack
  <2> QED BY <1>8, <2>1, <2>2 DEF RolledBack
<1>9. ASSUME RemarkFailed
      PROVE  /\ call.fn = "remark" /\ UNCHANGED <<installed, metadata>> /\ CallBecomes("ok", call.file, call.marks)
             /\ EntryBecomes(j, "failed", journal[j].applied, journal[j].oldMetadata, journal[j].metadataApplied)
  <2>1. EntryBecomes(j, "failed", journal[j].applied, journal[j].oldMetadata, journal[j].metadataApplied)
    BY <1>1, <1>2, <1>9, StatesAreStrings, SavedBecomes DEF RemarkFailed
  <2>2. CallBecomes("ok", call.file, call.marks)
    BY <1>1, <1>3, <1>9, AnswerBecomes DEF RemarkFailed
  <2> QED BY <1>9, <2>1, <2>2 DEF RemarkFailed
<1>10. RollMetadata \/ RollModule \/ JournalRestored \/ RollFails \/ RolledBack \/ RemarkFailed
       => UNCHANGED <<staging, handoff>>
  BY DEF RollMetadata, RollModule, JournalRestored, RollFails, RolledBack, RemarkFailed
<1> QED BY <1>4, <1>5, <1>6, <1>7, <1>8, <1>9, <1>10

(* commit_staged_update *)
LEMMA CommitEffects ==
    ASSUME UpdateTypeOK, NEW j \in Jobs, j = call.job
    PROVE  /\ WriteMetadata =>
                /\ call.fn = "baseline" /\ metadata' = journal[j].version /\ KeepsEntry(j)
                /\ CallBecomes("mark", call.file, call.marks)
           /\ MarkComplete =>
                /\ call.fn = "mark" /\ metadata' = metadata /\ CallBecomes("ok", call.file, call.marks)
                /\ EntryBecomes(j, "complete", journal[j].applied, journal[j].oldMetadata, journal[j].metadataApplied)
           /\ CommitFails =>
                /\ call.fn \in {"baseline", "mark"} /\ metadata' = metadata /\ KeepsEntry(j)
                /\ CallBecomes("failed", call.file, call.marks)
           /\ WriteMetadata \/ MarkComplete \/ CommitFails => UNCHANGED <<installed, staging, handoff>>
<1>1. journal \in [Jobs -> Entries] /\ call \in CallRecords /\ 0 \in 0 .. Newest
  BY ModuleUpdateAssumption DEF UpdateTypeOK, CallRecords
<1>2. {"ok", "failed", "mark"} \subseteq Steps
  BY DEF Steps
<1>3. MarkComplete => EntryBecomes(j, "complete", journal[j].applied, journal[j].oldMetadata, journal[j].metadataApplied)
  BY <1>1, StatesAreStrings, SavedBecomes DEF MarkComplete
<1> QED BY <1>1, <1>2, <1>3, SameBecomes, AnswerBecomes DEF WriteMetadata, MarkComplete, CommitFails, diskVars

-----------------------------------------------------------------------------
(* The journal and the operation in progress stay in step. *)

(* The job of a write is known, and nothing else is half done when it is applied. *)
LEMMA WriteContext ==
    ASSUME SupervisorInvariant, CallStep
    PROVE  /\ UpdateTypeOK /\ journal \in [Jobs -> Entries] /\ call \in CallRecords
           /\ call.job \in Jobs /\ journal[call.job] \in Entries
           /\ journal[call.job].state \notin {"none", "staging"}
           /\ call.fn \notin {"idle", "ok", "failed"}
           /\ call.fn \in {"apply", "replace", "write"} => sup.phase = "u_apply" /\ call.job = sup.job
           /\ call.fn \in {"baseline", "mark"} => sup.phase \in {"ack_wait", "u_commit"} /\ call.job = sup.job
           /\ call.fn = "apply" => \A i \in Jobs : Unfinished(i) => i = call.job
<1> USE DEF SupervisorInvariant
<1>1. UpdateTypeOK /\ journal \in [Jobs -> Entries] /\ call \in CallRecords
  BY TypesSplit DEF UpdateTypeOK, CallRecords
<1>2. call.fn \notin {"idle", "ok", "failed"}
  BY DEF CallStep, ApplyAnswered, ApplyRefused, ApplyChecked, JournalModule, WriteModule, WriteFails, AllReplaced,
         RollMetadata, RollModule, JournalRestored, RollFails, RolledBack, WriteMetadata, MarkComplete, CommitFails,
         RemarkFailed
<1>3. call.job \in Jobs /\ journal[call.job].state \notin {"none", "staging"}
  BY <1>2, CallHasJob
<1>4. sup.phase \in WaitPhases
  BY <1>2 DEF CallFits
<1>5. call.fn \in {"apply", "replace", "write"} => sup.phase = "u_apply" /\ call.job = sup.job
  BY <1>4 DEF CallFits, WaitPhases, Rolling
<1>6. call.fn \in {"baseline", "mark"} => sup.phase \in {"ack_wait", "u_commit"} /\ call.job = sup.job
  BY <1>4 DEF CallFits, WaitPhases, Rolling
<1>7. call.fn = "apply" => \A i \in Jobs : Unfinished(i) => i = call.job
  <2>1. NoJob \notin Jobs
    BY ModuleUpdateAssumption
  <2> QED BY <1>5, <2>1 DEF OneUnfinished, PhasesFit, BeforeRecovery
<1> QED BY <1>1, <1>2, <1>3, <1>5, <1>6, <1>7

(* A job that is not written stays as it was. *)
LEMMA EntryStays ==
    ASSUME NEW i \in Jobs, journal'[i] = journal[i]
    PROVE  /\ Unfinished(i)' <=> Unfinished(i)
           /\ Written(i)' = Written(i)
           /\ EntryFits(i) /\ (metadata' = metadata \/ ~Unfinished(i)) => EntryFits(i)'
<1>1. Unfinished(i)' <=> Unfinished(i)
  BY DEF Unfinished
<1> QED BY <1>1 DEF Written, EntryFits

JournalMoves(j) ==
    /\ EntryFits(j)'
    /\ metadata' = metadata \/ Unfinished(j)
    /\ Unfinished(j)' => Unfinished(j) \/ (staging = NoJob /\ \A i \in Jobs : ~Unfinished(i))
    /\ staging # NoJob => call'.fn = "failed"
    /\ staging' = staging

LEMMA ApplyJournal ==
    ASSUME SupervisorInvariant, JournalFits, WritesFit, NEW j \in Jobs, j = call.job,
           ApplyAnswered \/ ApplyRefused \/ ApplyChecked
    PROVE  JournalMoves(j)
<1>1. CallStep
  BY DEF CallStep
<1>2. /\ UpdateTypeOK /\ j \in Jobs /\ journal[j] \in Entries
      /\ call.fn = "apply" /\ \A i \in Jobs : Unfinished(i) => i = j
      /\ EntryFits(j) /\ metadata' = metadata /\ staging' = staging
  BY <1>1, WriteContext, ApplyEffects DEF JournalFits
<1>4. CASE ApplyAnswered
  BY <1>2, <1>4, ApplyEffects DEF KeepsEntry, EntryBecomes, EntryFits, Unfinished, JournalMoves, CallBecomes
<1>5. CASE ApplyRefused
  <2>1. CallBecomes("failed", call.file, call.marks)
    BY <1>2, <1>5, ApplyEffects
  <2>2. CASE KeepsEntry(j)
    BY <1>2, <2>1, <2>2 DEF KeepsEntry, EntryBecomes, EntryFits, Unfinished, JournalMoves, CallBecomes
  <2>3. CASE ~KeepsEntry(j)
    <3>1. /\ journal[j].state = "staged"
          /\ EntryBecomes(j, "failed", journal[j].applied, journal[j].oldMetadata, journal[j].metadataApplied)
      BY <1>2, <1>5, <2>3, ApplyEffects
    <3> QED BY <1>2, <2>1, <3>1 DEF EntryBecomes, EntryFits, Unfinished, JournalMoves, CallBecomes
  <2> QED BY <2>2, <2>3
<1>6. CASE ApplyChecked
  <2>1. /\ journal[j].state = "staged" /\ staging = NoJob
        /\ EntryBecomes(j, "applying", journal[j].applied, metadata, FALSE)
    BY <1>2, <1>6, ApplyEffects
  <2>2. EntryFits(j)'
    BY <1>2, <2>1 DEF EntryBecomes, EntryFits, Unfinished
  <2>3. \A i \in Jobs : ~Unfinished(i)
    BY <1>2, <2>1 DEF Unfinished
  <2> QED BY <1>2, <2>1, <2>2, <2>3 DEF JournalMoves
<1> QED BY <1>4, <1>5, <1>6

LEMMA ReplaceJournal ==
    ASSUME SupervisorInvariant, JournalFits, WritesFit, NEW j \in Jobs, j = call.job,
           JournalModule \/ WriteModule \/ WriteFails \/ AllReplaced
    PROVE  JournalMoves(j)
<1>1. CallStep
  BY DEF CallStep
<1>2. /\ UpdateTypeOK /\ j \in Jobs /\ journal[j] \in Entries
      /\ EntryFits(j) /\ metadata' = metadata /\ staging' = staging /\ call.fn \in {"replace", "write"}
  BY <1>1, WriteContext, ReplaceEffects DEF JournalFits
<1>3. journal[j].state = "applying" /\ Unfinished(j) /\ staging = NoJob
  BY <1>2 DEF WritesFit, Unfinished, JournalFits
<1>5. CASE JournalModule
  <2>1. PICK f \in journal[j].files \ journal[j].applied :
           EntryBecomes(j, journal[j].state, journal[j].applied \cup {f}, journal[j].oldMetadata, journal[j].metadataApplied)
    BY <1>2, <1>5, ReplaceEffects
  <2> QED BY <1>2, <1>3, <2>1 DEF EntryBecomes, EntryFits, Unfinished, JournalMoves
<1>6. CASE WriteModule \/ WriteFails
  <2>1. KeepsEntry(j)
    BY <1>2, <1>6, ReplaceEffects
  <2> QED BY <1>2, <1>3, <2>1 DEF KeepsEntry, EntryBecomes, EntryFits, Unfinished, JournalMoves
<1>7. CASE AllReplaced
  <2>1. EntryBecomes(j, "installed", journal[j].applied, journal[j].oldMetadata, journal[j].metadataApplied)
    BY <1>2, <1>7, ReplaceEffects
  <2> QED BY <1>2, <1>3, <2>1 DEF EntryBecomes, EntryFits, Unfinished, JournalMoves
<1> QED BY <1>5, <1>6, <1>7

LEMMA RollJournal ==
    ASSUME SupervisorInvariant, JournalFits, WritesFit, NEW j \in Jobs, j = call.job,
           RollMetadata \/ RollModule \/ JournalRestored \/ RollFails \/ RolledBack \/ RemarkFailed
    PROVE  JournalMoves(j)
<1>1. CallStep
  BY DEF CallStep
<1>2. /\ UpdateTypeOK /\ j \in Jobs /\ journal[j] \in Entries
      /\ EntryFits(j) /\ staging' = staging /\ call.fn \in {"roll", "restore", "remark"}
  BY <1>1, WriteContext, RollEffects DEF JournalFits
<1>3. staging = NoJob
  BY <1>2 DEF JournalFits
<1>4. /\ call.fn \in {"roll", "restore"} =>
          /\ journal[j].state \notin {"none", "staging", "complete", "rolled_back"}
          /\ call.marks \subseteq journal[j].files /\ (call.marks # {} => journal[j].state = "applying")
      /\ call.fn = "restore" => call.file \in journal[j].applied /\ ~journal[j].metadataApplied
      /\ call.fn = "remark" => journal[j].state = "rolled_back"
  BY DEF WritesFit
<1>6. CASE RollMetadata
  <2>1. journal[j].metadataApplied /\ call.fn = "roll"
    BY <1>2, <1>6, RollEffects
  <2>2. Unfinished(j)
    BY <1>2, <1>4, <2>1 DEF EntryFits, Unfinished
  <2>3. CASE metadata' = metadata /\ metadata = journal[j].oldMetadata
             /\ EntryBecomes(j, journal[j].state, journal[j].applied, journal[j].oldMetadata, FALSE)
    BY <1>2, <1>3, <2>1, <2>2, <2>3 DEF EntryBecomes, EntryFits, Unfinished, JournalMoves
  <2>4. CASE metadata' = journal[j].oldMetadata /\ KeepsEntry(j)
    BY <1>2, <1>3, <2>1, <2>2, <2>4 DEF KeepsEntry, EntryBecomes, EntryFits, Unfinished, JournalMoves
  <2> QED BY <1>2, <1>6, <2>3, <2>4, RollEffects
<1>7. CASE RollModule
  <2>1. KeepsEntry(j) /\ metadata' = metadata
    BY <1>2, <1>7, RollEffects
  <2> QED BY <1>2, <1>3, <2>1 DEF KeepsEntry, EntryBecomes, EntryFits, Unfinished, JournalMoves
<1>8. CASE JournalRestored
  <2>1. /\ call.fn = "restore" /\ metadata' = metadata
        /\ EntryBecomes(j, journal[j].state, journal[j].applied \ {call.file}, journal[j].oldMetadata, journal[j].metadataApplied)
    BY <1>2, <1>8, RollEffects
  <2> QED BY <1>2, <1>3, <1>4, <2>1 DEF EntryBecomes, EntryFits, Unfinished, JournalMoves
<1>9. CASE RollFails
  <2>1. call.fn = "roll" /\ metadata' = metadata
    BY <1>2, <1>9, RollEffects
  <2>2. CASE KeepsEntry(j)
    BY <1>2, <1>3, <2>1, <2>2 DEF KeepsEntry, EntryBecomes, EntryFits, Unfinished, JournalMoves
  <2>3. CASE EntryBecomes(j, "failed", journal[j].applied \cup call.marks, journal[j].oldMetadata, journal[j].metadataApplied)
    <3>1. Unfinished(j)' => Unfinished(j)
      <4>1. journal[j].state \in {"staged", "cancelled", "applying", "installed", "failed"}
        BY <1>2, <1>4, <2>1 DEF Entries, States
      <4>2. journal[j].state \in {"staged", "cancelled"} =>
              journal[j].applied \cup call.marks = {} /\ ~journal[j].metadataApplied
        BY <1>2, <1>4, <2>1 DEF EntryFits
      <4>3. journal[j].state = "failed" => journal[j].applied \cup call.marks = journal[j].applied
        BY <1>4, <2>1
      <4> QED BY <4>1, <4>2, <4>3, <2>3 DEF EntryBecomes, Unfinished
    <3>2. EntryFits(j)'
      BY <1>2, <1>4, <2>1, <2>3, <3>1 DEF EntryBecomes, EntryFits
    <3> QED BY <1>2, <1>3, <2>1, <3>1, <3>2 DEF JournalMoves
  <2> QED BY <1>2, <1>9, <2>2, <2>3, RollEffects
<1>10. CASE RolledBack
  <2>1. /\ journal[j].applied = {} /\ ~journal[j].metadataApplied /\ metadata' = metadata
        /\ EntryBecomes(j, "rolled_back", journal[j].applied, journal[j].oldMetadata, journal[j].metadataApplied)
    BY <1>2, <1>10, RollEffects
  <2> QED BY <1>2, <1>3, <2>1 DEF EntryBecomes, EntryFits, Unfinished, JournalMoves
<1>11. CASE RemarkFailed
  <2>1. /\ call.fn = "remark" /\ metadata' = metadata
        /\ EntryBecomes(j, "failed", journal[j].applied, journal[j].oldMetadata, journal[j].metadataApplied)
    BY <1>2, <1>11, RollEffects
  <2> QED BY <1>2, <1>3, <1>4, <2>1 DEF EntryBecomes, EntryFits, Unfinished, JournalMoves
<1> QED BY <1>6, <1>7, <1>8, <1>9, <1>10, <1>11

LEMMA CommitJournal ==
    ASSUME SupervisorInvariant, JournalFits, WritesFit, NEW j \in Jobs, j = call.job,
           WriteMetadata \/ MarkComplete \/ CommitFails
    PROVE  JournalMoves(j)
<1>1. CallStep
  BY DEF CallStep
<1>2. /\ UpdateTypeOK /\ j \in Jobs /\ journal[j] \in Entries
      /\ EntryFits(j) /\ staging' = staging /\ call.fn \in {"baseline", "mark"}
  BY <1>1, WriteContext, CommitEffects DEF JournalFits
<1>3. /\ staging = NoJob /\ journal[j].state = "installed" /\ journal[j].metadataApplied
      /\ call.fn = "mark" => metadata = journal[j].version
  BY <1>2 DEF JournalFits, WritesFit
<1>5. CASE WriteMetadata
  <2>1. metadata' = journal[j].version /\ KeepsEntry(j)
    BY <1>2, <1>5, CommitEffects
  <2> QED BY <1>2, <1>3, <2>1 DEF KeepsEntry, EntryBecomes, EntryFits, Unfinished, JournalMoves
<1>6. CASE MarkComplete
  <2>1. /\ metadata' = metadata
        /\ EntryBecomes(j, "complete", journal[j].applied, journal[j].oldMetadata, journal[j].metadataApplied)
    BY <1>2, <1>6, CommitEffects
  <2> QED BY <1>2, <1>3, <2>1 DEF EntryBecomes, EntryFits, Unfinished, JournalMoves
<1>7. CASE CommitFails
  <2>1. metadata' = metadata /\ KeepsEntry(j)
    BY <1>2, <1>7, CommitEffects
  <2> QED BY <1>2, <1>3, <2>1 DEF KeepsEntry, EntryBecomes, EntryFits, Unfinished, JournalMoves
<1> QED BY <1>5, <1>6, <1>7

LEMMA OthersStay ==
    ASSUME SupervisorInvariant, CallStep
    PROVE  \A i \in Jobs : i # call.job => journal'[i] = journal[i]
BY WriteContext, CallStepMoves

LEMMA JournalCall ==
    ASSUME SupervisorInvariant, JournalFits, WritesFit, CallStep
    PROVE  JournalFits'
<1> PICK j \in Jobs : j = call.job
  BY WriteContext
<1>1. JournalMoves(j)
  BY ApplyJournal, ReplaceJournal, RollJournal, CommitJournal DEF CallStep
<1>2. j \in Jobs /\ \A i \in Jobs : i # j => journal'[i] = journal[i]
  BY WriteContext, OthersStay
<1>3. \A i \in Jobs : i # j => (Unfinished(i)' <=> Unfinished(i))
  BY <1>2, EntryStays
<1>4. \A i \in Jobs : EntryFits(i)'
  <2> SUFFICES ASSUME NEW i \in Jobs, i # j
               PROVE  EntryFits(i)'
    BY <1>1 DEF JournalMoves
  <2>1. metadata' = metadata \/ ~Unfinished(i)
    BY <1>1, <1>2 DEF JournalMoves, JournalFits
  <2> QED BY <1>2, <2>1, EntryStays DEF JournalFits
<1>5. \A i, k \in Jobs : Unfinished(i)' /\ Unfinished(k)' => i = k
  <2>1. Unfinished(j)' => Unfinished(j) \/ \A i \in Jobs : ~Unfinished(i)
    BY <1>1 DEF JournalMoves
  <2>2. \A i, k \in Jobs : Unfinished(i) /\ Unfinished(k) => i = k
    BY DEF JournalFits
  <2> QED BY <1>2, <1>3, <2>1, <2>2
<1>6. staging' # NoJob => call'.fn \in {"idle", "apply", "ok", "failed"} /\ \A i \in Jobs : ~Unfinished(i)'
  BY <1>1, <1>2, <1>3 DEF JournalMoves, JournalFits
<1> QED BY <1>4, <1>5, <1>6 DEF JournalFits

LEMMA WritesCall ==
    ASSUME SupervisorInvariant, JournalFits, WritesFit, CallStep
    PROVE  WritesFit'
<1> PICK j \in Jobs : j = call.job
  BY WriteContext
<1>1. /\ UpdateTypeOK /\ journal[j] \in Entries /\ call \in CallRecords /\ EntryFits(j)
      /\ installed \in [Modules -> Contents]
  BY WriteContext DEF UpdateTypeOK, JournalFits
<1>2. journal[j].applied \subseteq Modules /\ journal[j].applied \subseteq journal[j].files
  BY <1>1 DEF Entries, EntryFits
<1>3. /\ call.fn \in {"replace", "write"} => journal[j].state = "applying"
      /\ call.fn \in {"roll", "restore"} =>
          /\ journal[j].state \notin {"none", "staging", "complete", "rolled_back"}
          /\ call.marks \subseteq journal[j].files /\ (call.marks # {} => journal[j].state = "applying")
      /\ call.fn = "restore" => call.file \in journal[j].applied /\ ~journal[j].metadataApplied
      /\ call.fn \in {"baseline", "mark"} =>
          journal[j].state = "installed" /\ journal[j].metadataApplied /\ AllReplacedBy(j)
  BY DEF WritesFit
<1>4. CASE call'.fn \in {"ok", "failed"}
  BY <1>4 DEF WritesFit
<1>5. CASE ApplyChecked
  <2>1. call'.fn = "replace" /\ call'.job = j /\ journal'[j].state = "applying"
    BY <1>1, <1>5, ApplyEffects DEF CallBecomes, EntryBecomes
  <2> QED BY <2>1 DEF WritesFit
<1>6. CASE JournalModule
  <2>1. PICK f \in journal[j].files \ journal[j].applied :
          /\ EntryBecomes(j, journal[j].state, journal[j].applied \cup {f}, journal[j].oldMetadata, journal[j].metadataApplied)
          /\ CallBecomes("write", f, call.marks) /\ call.fn = "replace"
    BY <1>1, <1>6, ReplaceEffects
  <2>2. call'.fn = "write" /\ call'.job = j /\ call'.file \in journal'[j].applied /\ journal'[j].state = "applying"
    BY <1>3, <2>1 DEF EntryBecomes, CallBecomes
  <2> QED BY <2>2 DEF WritesFit
<1>7. CASE WriteModule
  <2>1. call'.fn = "replace" /\ call'.job = j /\ journal'[j].state = "applying"
    BY <1>1, <1>3, <1>7, ReplaceEffects DEF CallBecomes, KeepsEntry, EntryBecomes
  <2> QED BY <2>1 DEF WritesFit
<1>8. CASE WriteFails
  <2>1. call'.fn = "roll" /\ call'.job = j /\ call'.marks = journal[j].applied /\ journal'[j].state = "applying"
        /\ journal'[j].files = journal[j].files
    BY <1>1, <1>3, <1>8, ReplaceEffects DEF CallBecomes, KeepsEntry, EntryBecomes
  <2> QED BY <1>2, <2>1 DEF WritesFit
<1>9. CASE RollMetadata
  <2>1. call'.fn = "roll" /\ call'.job = j /\ call'.marks = call.marks /\ journal'[j].state = journal[j].state
        /\ journal'[j].files = journal[j].files /\ call.fn = "roll"
    BY <1>1, <1>9, RollEffects DEF KeepsEntry, EntryBecomes
  <2> QED BY <1>3, <2>1 DEF WritesFit
<1>10. CASE RollModule
  <2>1. PICK f \in journal[j].applied :
          /\ installed' = [installed EXCEPT ![f] = journal[j].old[f]] /\ CallBecomes("restore", f, call.marks)
          /\ KeepsEntry(j) /\ call.fn = "roll" /\ ~journal[j].metadataApplied
    BY <1>1, <1>10, RollEffects
  <2>2. installed'[f] = journal[j].old[f]
    BY <1>1, <1>2, <2>1
  <2>3. call'.fn = "restore" /\ call'.job = j /\ call'.marks = call.marks /\ call'.file = f
    BY <2>1 DEF CallBecomes
  <2>4. /\ journal'[j].state = journal[j].state /\ journal'[j].files = journal[j].files
        /\ journal'[j].applied = journal[j].applied /\ journal'[j].metadataApplied = journal[j].metadataApplied
        /\ journal'[j].old = journal[j].old
    BY <2>1 DEF KeepsEntry, EntryBecomes
  <2> QED BY <1>3, <2>1, <2>2, <2>3, <2>4 DEF WritesFit
<1>11. CASE JournalRestored
  <2>1. call'.fn = "roll" /\ call'.job = j /\ call'.marks = call.marks /\ journal'[j].state = journal[j].state
        /\ journal'[j].files = journal[j].files /\ call.fn = "restore"
    BY <1>1, <1>11, RollEffects DEF CallBecomes, EntryBecomes
  <2> QED BY <1>3, <2>1 DEF WritesFit
<1>12. CASE RolledBack
  <2>1. call'.fn \in {"ok", "failed", "remark"} /\ call'.job = j /\ journal'[j].state = "rolled_back"
    BY <1>1, <1>12, RollEffects DEF CallBecomes, EntryBecomes, CallRecords
  <2> QED BY <2>1 DEF WritesFit
<1>13. CASE WriteMetadata
  <2>1. /\ call'.fn = "mark" /\ call'.job = j /\ KeepsEntry(j) /\ metadata' = journal[j].version /\ installed' = installed
        /\ call.fn = "baseline"
    BY <1>1, <1>13, CommitEffects DEF CallBecomes
  <2>2. /\ journal'[j].state = journal[j].state /\ journal'[j].files = journal[j].files
        /\ journal'[j].metadataApplied = journal[j].metadataApplied /\ journal'[j].version = journal[j].version
    BY <2>1 DEF KeepsEntry, EntryBecomes
  <2>3. AllReplacedBy(j)'
    BY <1>3, <2>1, <2>2 DEF AllReplacedBy, New
  <2>4. \A f \in journal'[j].files : installed'[f] \in {Build[journal'[j].version][f], HandEdit}
    BY <2>3 DEF AllReplacedBy, New
  <2>5. journal'[call'.job].state = "installed" /\ journal'[call'.job].metadataApplied
        /\ metadata' = journal'[call'.job].version
    BY <1>3, <2>1, <2>2
  <2>6. (AllReplacedBy(call.job))'
    BY <2>1, <2>4 DEF AllReplacedBy, New
  <2> QED BY <2>1, <2>5, <2>6 DEF WritesFit
<1>14. CASE ApplyAnswered \/ ApplyRefused
  BY <1>1, <1>4, <1>14, ApplyEffects DEF CallBecomes
<1>15. CASE AllReplaced
  BY <1>1, <1>4, <1>15, ReplaceEffects DEF CallBecomes
<1>16. CASE RollFails \/ RemarkFailed
  BY <1>1, <1>4, <1>16, RollEffects DEF CallBecomes
<1>17. CASE MarkComplete \/ CommitFails
  BY <1>1, <1>4, <1>17, CommitEffects DEF CallBecomes
<1> QED BY <1>5, <1>6, <1>7, <1>8, <1>9, <1>10, <1>11, <1>12, <1>13, <1>14, <1>15, <1>16, <1>17 DEF CallStep

-----------------------------------------------------------------------------
(* The modules are those of the baseline's release, but for what is journalled. *)

(* A step of job j that begins nothing: what it had to restore is what it has to
   restore, and what is no longer journalled is as it was before.            *)
Untouched(j) ==
    \A f \in Modules : f \notin Written(j)' =>
        \/ f \notin Written(j) /\ installed'[f] = installed[f]
        \/ Unfinished(j) /\ f \in journal[j].files /\ installed'[f] \in {journal[j].old[f], HandEdit}

JobContinues(j) ==
    /\ journal'[j].files = journal[j].files /\ journal'[j].version = journal[j].version
    /\ journal'[j].old = journal[j].old /\ journal'[j].oldMetadata = journal[j].oldMetadata
    /\ journal'[j].state \in Lasting => journal[j].state \in Lasting
    /\ Unfinished(j)' => Unfinished(j)
    /\ metadata' = metadata \/ Unfinished(j)
    /\ Unfinished(j) /\ ~Unfinished(j)' => metadata' = journal[j].oldMetadata
    /\ Untouched(j)
    /\ \A i \in Jobs : i # j => journal'[i] = journal[i]

LEMMA SameUntouched ==
    ASSUME NEW j \in Jobs, installed' = installed, Written(j) \subseteq Written(j)'
    PROVE  Untouched(j)
BY DEF Untouched

(* The baseline that counts goes back with the job, or does not change. *)
LEMMA CountsStays ==
    ASSUME NEW j \in Jobs, NEW b, Counts(b)', JobContinues(j)
    PROVE  Counts(b)
<1>1. \A i \in Jobs : i # j => (Unfinished(i)' <=> Unfinished(i)) /\ journal'[i].oldMetadata = journal[i].oldMetadata
  BY EntryStays DEF JobContinues
<1>2. CASE \E i \in Jobs : Unfinished(i)' /\ b = journal'[i].oldMetadata
  BY <1>1, <1>2 DEF Counts, JobContinues
<1>3. CASE (\A i \in Jobs : ~Unfinished(i)') /\ b = metadata'
  BY <1>1, <1>3 DEF Counts, JobContinues
<1> QED BY <1>2, <1>3 DEF Counts

LEMMA ModulesStay ==
    ASSUME ModulesFit, NEW j \in Jobs, JobContinues(j)
    PROVE  ModulesFit'
<1> SUFFICES ASSUME NEW b \in 0 .. Newest, Counts(b)'
             PROVE  FitsRelease(b)'
  BY DEF ModulesFit
<1>1. FitsRelease(b)
  BY CountsStays DEF ModulesFit
<1>2. \A i \in Jobs : i # j => (Unfinished(i)' <=> Unfinished(i)) /\ Written(i)' = Written(i)
  BY EntryStays DEF JobContinues
<1>3. ASSUME NEW f \in Modules, \A i \in Jobs : f \notin Written(i)'
      PROVE  installed'[f] \in {Build[ReleaseOf(b)][f], HandEdit}
  <2>1. CASE f \notin Written(j) /\ installed'[f] = installed[f]
    <3>1. \A i \in Jobs : f \notin Written(i)
      BY <1>2, <1>3, <2>1
    <3> QED BY <1>1, <2>1, <3>1 DEF FitsRelease
  <2>2. CASE Unfinished(j) /\ f \in journal[j].files /\ installed'[f] \in {journal[j].old[f], HandEdit}
    BY <1>1, <2>2 DEF FitsRelease
  <2> QED BY <1>3, <2>1, <2>2 DEF JobContinues, Untouched
<1>4. ASSUME NEW i \in Jobs, Unfinished(i)', NEW f \in journal'[i].files
      PROVE  journal'[i].old[f] \in {Build[ReleaseOf(b)][f], HandEdit}
  <2>1. Unfinished(i) /\ f \in journal[i].files /\ journal'[i].old[f] = journal[i].old[f]
    BY <1>2, <1>4 DEF JobContinues
  <2> QED BY <1>1, <2>1 DEF FitsRelease
<1>5. ASSUME NEW i \in Jobs, journal'[i].state \in Lasting
      PROVE  Spares(i, b)'
  <2>1. journal[i].state \in Lasting /\ journal'[i].files = journal[i].files /\ journal'[i].version = journal[i].version
    BY <1>5 DEF JobContinues
  <2>2. Spares(i, b)
    BY <1>1, <2>1 DEF FitsRelease
  <2> QED BY <2>1, <2>2 DEF Spares, New
<1> QED BY <1>3, <1>4, <1>5 DEF FitsRelease

(* Every write but the first and the last of a transaction continues it. *)
LEMMA ApplyContinues ==
    ASSUME SupervisorInvariant, JournalFits, NEW j \in Jobs, j = call.job, ApplyAnswered \/ ApplyRefused
    PROVE  JobContinues(j)
<1>1. CallStep
  BY DEF CallStep
<1>2. UpdateTypeOK /\ EntryFits(j) /\ metadata' = metadata /\ installed' = installed
  BY <1>1, WriteContext, ApplyEffects DEF JournalFits
<1>3. CASE KeepsEntry(j)
  <2>1. (Unfinished(j)' <=> Unfinished(j)) /\ Written(j)' = Written(j)
    BY <1>3 DEF KeepsEntry, EntryBecomes, Unfinished, Written
  <2>2. Untouched(j)
    BY <1>2, <2>1, SameUntouched
  <2> QED BY <1>2, <1>3, <2>1, <2>2 DEF KeepsEntry, EntryBecomes, JobContinues
<1>4. CASE /\ journal[j].state = "staged"
           /\ EntryBecomes(j, "failed", journal[j].applied, journal[j].oldMetadata, journal[j].metadataApplied)
  <2>1. ~Unfinished(j)' /\ ~Unfinished(j) /\ Written(j) = {}
    BY <1>2, <1>4 DEF EntryBecomes, EntryFits, Unfinished, Written
  <2>2. Untouched(j)
    BY <1>2, <2>1, SameUntouched
  <2> QED BY <1>2, <1>4, <2>1, <2>2 DEF EntryBecomes, JobContinues, Lasting
<1> QED BY <1>2, <1>3, <1>4, ApplyEffects

LEMMA ReplaceContinues ==
    ASSUME SupervisorInvariant, JournalFits, WritesFit, NEW j \in Jobs, j = call.job,
           JournalModule \/ WriteModule \/ WriteFails \/ AllReplaced
    PROVE  JobContinues(j)
<1>1. CallStep
  BY DEF CallStep
<1>2. /\ UpdateTypeOK /\ journal[j] \in Entries /\ installed \in [Modules -> Contents]
      /\ metadata' = metadata /\ call.fn \in {"replace", "write"} /\ EntryFits(j)
  BY <1>1, WriteContext, ReplaceEffects DEF UpdateTypeOK, JournalFits
<1>3. journal[j].state = "applying" /\ Unfinished(j)
  BY <1>2 DEF WritesFit, Unfinished
<1>4. CASE JournalModule
  <2>1. PICK f \in journal[j].files \ journal[j].applied :
          /\ EntryBecomes(j, journal[j].state, journal[j].applied \cup {f}, journal[j].oldMetadata, journal[j].metadataApplied)
          /\ installed' = installed
    BY <1>2, <1>4, ReplaceEffects
  <2>2. Unfinished(j)'
    BY <1>3, <2>1 DEF EntryBecomes, Unfinished
  <2>3. Written(j) \subseteq Written(j)'
    BY <1>3, <2>1, <2>2 DEF Written, EntryBecomes
  <2>4. Untouched(j)
    BY <2>1, <2>3, SameUntouched
  <2> QED BY <1>2, <1>3, <2>1, <2>2, <2>4 DEF EntryBecomes, JobContinues
<1>5. CASE WriteFails
  <2>1. KeepsEntry(j) /\ installed' = installed
    BY <1>2, <1>5, ReplaceEffects
  <2>2. Unfinished(j)'
    BY <1>3, <2>1 DEF KeepsEntry, EntryBecomes, Unfinished
  <2>3. Untouched(j)
    BY <2>1, <2>2, SameUntouched DEF KeepsEntry, EntryBecomes, Written
  <2> QED BY <1>2, <1>3, <2>1, <2>2, <2>3 DEF KeepsEntry, EntryBecomes, JobContinues
<1>6. CASE AllReplaced
  <2>1. /\ installed' = installed
        /\ EntryBecomes(j, "installed", journal[j].applied, journal[j].oldMetadata, journal[j].metadataApplied)
    BY <1>2, <1>6, ReplaceEffects
  <2>2. Unfinished(j)'
    BY <2>1 DEF EntryBecomes, Unfinished
  <2>3. Untouched(j)
    BY <2>1, <2>2, SameUntouched DEF EntryBecomes, Written
  <2> QED BY <1>2, <1>3, <2>1, <2>2, <2>3 DEF EntryBecomes, JobContinues, Lasting
<1>7. CASE WriteModule
  <2>1. /\ KeepsEntry(j) /\ installed' = [installed EXCEPT ![call.file] = New(j, call.file)]
        /\ call.fn = "write"
    BY <1>2, <1>7, ReplaceEffects
  <2>2. call.file \in journal[j].applied
    BY <2>1 DEF WritesFit
  <2>3. Unfinished(j)' /\ Written(j)' = journal[j].applied /\ Written(j) = journal[j].applied
    BY <1>3, <2>1 DEF KeepsEntry, EntryBecomes, Unfinished, Written
  <2>4. Untouched(j)
    BY <1>2, <2>1, <2>2, <2>3 DEF Untouched
  <2> QED BY <1>2, <1>3, <2>1, <2>3, <2>4 DEF KeepsEntry, EntryBecomes, JobContinues
<1> QED BY <1>4, <1>5, <1>6, <1>7

LEMMA RollContinues ==
    ASSUME SupervisorInvariant, JournalFits, WritesFit, NEW j \in Jobs, j = call.job,
           RollMetadata \/ RollModule \/ JournalRestored \/ RollFails \/ RolledBack \/ RemarkFailed
    PROVE  JobContinues(j)
<1>1. CallStep
  BY DEF CallStep
<1>2. /\ UpdateTypeOK /\ journal[j] \in Entries /\ installed \in [Modules -> Contents]
      /\ call.fn \in {"roll", "restore", "remark"} /\ EntryFits(j)
  BY <1>1, WriteContext, RollEffects DEF UpdateTypeOK, JournalFits
<1>3. /\ call.fn \in {"roll", "restore"} =>
          /\ journal[j].state \notin {"none", "staging", "complete", "rolled_back"}
          /\ call.marks \subseteq journal[j].files /\ (call.marks # {} => journal[j].state = "applying")
      /\ call.fn = "restore" => /\ call.file \in journal[j].applied /\ ~journal[j].metadataApplied
                                /\ installed[call.file] \in {journal[j].old[call.file], HandEdit}
      /\ call.fn = "remark" => journal[j].state = "rolled_back"
  BY DEF WritesFit
<1>4. journal[j].applied \subseteq Modules /\ journal[j].applied \subseteq journal[j].files
  BY <1>2 DEF Entries, EntryFits
<1>5. call.fn \in {"roll", "restore"} /\ journal[j].applied # {} => Unfinished(j)
  BY <1>2, <1>3 DEF Entries, States, EntryFits, Unfinished
<1>6. JournalMoves(j)
  BY RollJournal
<1>7. CASE RollMetadata
  <2>1. journal[j].metadataApplied /\ call.fn = "roll" /\ installed' = installed
    BY <1>2, <1>7, RollEffects
  <2>2. Unfinished(j)
    BY <1>2, <1>3, <2>1 DEF EntryFits, Unfinished
  <2>3. CASE /\ metadata' = metadata /\ metadata = journal[j].oldMetadata
             /\ EntryBecomes(j, journal[j].state, journal[j].applied, journal[j].oldMetadata, FALSE)
    <3>1. Written(j) \subseteq Written(j)'
      BY <1>2, <2>1, <2>2, <2>3 DEF EntryBecomes, EntryFits, Written, Unfinished
    <3>2. Untouched(j)
      BY <2>1, <3>1, SameUntouched
    <3> QED BY <2>1, <2>2, <2>3, <3>2 DEF EntryBecomes, JobContinues
  <2>4. CASE metadata' = journal[j].oldMetadata /\ KeepsEntry(j)
    <3>1. Unfinished(j)'
      BY <2>2, <2>4 DEF KeepsEntry, EntryBecomes, Unfinished
    <3>2. Untouched(j)
      BY <2>1, <2>2, <2>4, <3>1, SameUntouched DEF KeepsEntry, EntryBecomes, Written
    <3> QED BY <2>1, <2>2, <2>4, <3>1, <3>2 DEF KeepsEntry, EntryBecomes, JobContinues
  <2> QED BY <1>2, <1>7, <2>3, <2>4, RollEffects
<1>8. CASE RollModule
  <2>1. PICK f \in journal[j].applied : installed' = [installed EXCEPT ![f] = journal[j].old[f]]
    BY <1>2, <1>8, RollEffects
  <2>2. KeepsEntry(j) /\ metadata' = metadata /\ call.fn = "roll"
    BY <1>2, <1>8, RollEffects
  <2>3. Unfinished(j) /\ Unfinished(j)'
    BY <1>5, <2>1, <2>2 DEF KeepsEntry, EntryBecomes, Unfinished
  <2>4. Written(j)' = journal[j].applied /\ Written(j) = journal[j].applied
    BY <2>2, <2>3 DEF KeepsEntry, EntryBecomes, Written
  <2>5. Untouched(j)
    BY <1>2, <2>1, <2>4 DEF Untouched
  <2> QED BY <2>2, <2>3, <2>5 DEF KeepsEntry, EntryBecomes, JobContinues
<1>9. CASE JournalRestored
  <2>1. /\ call.fn = "restore" /\ metadata' = metadata /\ installed' = installed
        /\ EntryBecomes(j, journal[j].state, journal[j].applied \ {call.file}, journal[j].oldMetadata, journal[j].metadataApplied)
    BY <1>2, <1>9, RollEffects
  <2>2. call.file \in journal[j].applied /\ ~journal[j].metadataApplied /\ Unfinished(j)
    BY <1>3, <1>5, <2>1
  <2>3. metadata = journal[j].oldMetadata
    BY <1>2, <2>2 DEF EntryFits
  <2>6. ASSUME NEW f \in Modules, f \notin Written(j)'
        PROVE  \/ f \notin Written(j) /\ installed'[f] = installed[f]
               \/ Unfinished(j) /\ f \in journal[j].files /\ installed'[f] \in {journal[j].old[f], HandEdit}
    <3>1. CASE f = call.file
      BY <1>3, <1>4, <2>1, <2>2, <3>1
    <3>2. CASE f # call.file
      <4>1. f \notin journal[j].applied
        <5>1. CASE Unfinished(j)'
          BY <2>1, <2>6, <3>2, <5>1 DEF Written, EntryBecomes
        <5>2. CASE ~Unfinished(j)'
          <6>1. journal'[j].applied = {}
            BY <2>1, <2>2, <5>2 DEF EntryBecomes, Unfinished
          <6> QED BY <2>1, <3>2, <6>1 DEF EntryBecomes
        <5> QED BY <5>1, <5>2
      <4> QED BY <2>1, <2>2, <4>1 DEF Written
    <3> QED BY <3>1, <3>2
  <2> QED BY <2>1, <2>2, <2>3, <2>6 DEF EntryBecomes, JobContinues, Untouched
<1>10. CASE RollFails
  <2>1. call.fn = "roll" /\ metadata' = metadata /\ installed' = installed
    BY <1>2, <1>10, RollEffects
  <2>2. CASE KeepsEntry(j)
    <3>1. Unfinished(j)' <=> Unfinished(j)
      BY <2>2 DEF KeepsEntry, EntryBecomes, Unfinished
    <3>2. Untouched(j)
      BY <2>1, <2>2, <3>1, SameUntouched DEF KeepsEntry, EntryBecomes, Written
    <3> QED BY <2>1, <2>2, <3>1, <3>2 DEF KeepsEntry, EntryBecomes, JobContinues
  <2>3. CASE EntryBecomes(j, "failed", journal[j].applied \cup call.marks, journal[j].oldMetadata, journal[j].metadataApplied)
    <3>1. Unfinished(j)' => Unfinished(j)
      <4>1. journal[j].state \in {"staged", "cancelled", "applying", "installed", "failed"}
        BY <1>2, <1>3, <2>1 DEF Entries, States
      <4>2. journal[j].state \in {"staged", "cancelled"} =>
              journal[j].applied \cup call.marks = {} /\ ~journal[j].metadataApplied
        BY <1>2, <1>3, <2>1 DEF EntryFits
      <4>3. journal[j].state = "failed" => journal[j].applied \cup call.marks = journal[j].applied
        BY <1>3, <2>1
      <4> QED BY <4>1, <4>2, <4>3, <2>3 DEF EntryBecomes, Unfinished
    <3>2. Written(j) \subseteq Written(j)'
      BY <2>3 DEF EntryBecomes, Written, Unfinished
    <3>3. Unfinished(j) /\ ~Unfinished(j)' => metadata = journal[j].oldMetadata
      BY <1>2, <2>3 DEF EntryBecomes, EntryFits, Unfinished
    <3>4. Untouched(j)
      BY <2>1, <3>2, SameUntouched
    <3> QED BY <2>1, <2>3, <3>1, <3>3, <3>4 DEF EntryBecomes, JobContinues, Lasting
  <2> QED BY <1>2, <1>10, <2>2, <2>3, RollEffects
<1>11. CASE RolledBack
  <2>1. /\ journal[j].applied = {} /\ ~journal[j].metadataApplied /\ metadata' = metadata /\ installed' = installed
        /\ EntryBecomes(j, "rolled_back", journal[j].applied, journal[j].oldMetadata, journal[j].metadataApplied)
    BY <1>2, <1>11, RollEffects
  <2>2. ~Unfinished(j)' /\ Written(j) = {}
    BY <2>1 DEF EntryBecomes, Unfinished, Written
  <2>3. Unfinished(j) => metadata = journal[j].oldMetadata
    BY <1>2, <2>1 DEF EntryFits
  <2>4. Untouched(j)
    BY <2>1, <2>2, SameUntouched
  <2> QED BY <2>1, <2>2, <2>3, <2>4 DEF EntryBecomes, JobContinues, Lasting
<1>12. CASE RemarkFailed
  <2>1. /\ call.fn = "remark" /\ metadata' = metadata /\ installed' = installed
        /\ EntryBecomes(j, "failed", journal[j].applied, journal[j].oldMetadata, journal[j].metadataApplied)
    BY <1>2, <1>12, RollEffects
  <2>2. journal[j].applied = {} /\ ~journal[j].metadataApplied
    BY <1>2, <1>3, <2>1 DEF EntryFits
  <2>3. ~Unfinished(j)' /\ ~Unfinished(j) /\ Written(j) = {}
    BY <1>3, <2>1, <2>2 DEF EntryBecomes, Unfinished, Written
  <2>4. Untouched(j)
    BY <2>1, <2>3, SameUntouched
  <2> QED BY <2>1, <2>3, <2>4 DEF EntryBecomes, JobContinues, Lasting
<1> QED BY <1>7, <1>8, <1>9, <1>10, <1>11, <1>12

LEMMA CommitContinues ==
    ASSUME SupervisorInvariant, JournalFits, WritesFit, NEW j \in Jobs, j = call.job, WriteMetadata \/ CommitFails
    PROVE  JobContinues(j)
<1>1. CallStep
  BY DEF CallStep
<1>2. /\ UpdateTypeOK /\ installed' = installed /\ call.fn \in {"baseline", "mark"} /\ KeepsEntry(j)
  BY <1>1, WriteContext, CommitEffects
<1>3. Unfinished(j) /\ Unfinished(j)'
  BY <1>2 DEF WritesFit, Unfinished, KeepsEntry, EntryBecomes
<1>4. Untouched(j)
  BY <1>2, <1>3, SameUntouched DEF KeepsEntry, EntryBecomes, Written
<1> QED BY <1>2, <1>3, <1>4 DEF KeepsEntry, EntryBecomes, JobContinues

(* Most of the writes of an operation. *)
LEMMA WritesContinue ==
    ASSUME SupervisorInvariant, JournalFits, WritesFit, NEW j \in Jobs, j = call.job, CallStep,
           ~ApplyChecked, ~MarkComplete
    PROVE  JobContinues(j)
BY ApplyContinues, ReplaceContinues, RollContinues, CommitContinues DEF CallStep

(* The first: the job keeps, for all it will replace, what its check has just seen. *)
LEMMA CheckedModules ==
    ASSUME SupervisorInvariant, JournalFits, ModulesFit, NEW j \in Jobs, j = call.job, ApplyChecked
    PROVE  ModulesFit'
<1>1. CallStep
  BY DEF CallStep
<1>2. /\ UpdateTypeOK /\ journal[j] \in Entries
      /\ \A i \in Jobs : Unfinished(i) => i = j
      /\ installed' = installed
  BY <1>1, WriteContext, ApplyEffects DEF JournalFits
<1>3. /\ journal[j].state = "staged" /\ Unchanged(j)
      /\ EntryBecomes(j, "applying", journal[j].applied, metadata, FALSE)
  BY <1>2, ApplyEffects
<1>4. \A i \in Jobs : ~Unfinished(i) /\ Written(i) = {}
  BY <1>2, <1>3 DEF Unfinished, Written
<1>5. \A i \in Jobs : i # j => (Unfinished(i)' <=> Unfinished(i)) /\ Written(i)' = Written(i) /\ journal'[i] = journal[i]
  BY <1>3, EntryStays DEF EntryBecomes
<1>6. Unfinished(j)' /\ journal'[j].oldMetadata = metadata
  BY <1>3 DEF EntryBecomes, Unfinished
<1> SUFFICES ASSUME NEW b \in 0 .. Newest, Counts(b)'
             PROVE  FitsRelease(b)'
  BY DEF ModulesFit
<1>7. b = metadata
  BY <1>4, <1>5, <1>6 DEF Counts
<1>8. FitsRelease(b)
  BY <1>4, <1>7 DEF Counts, ModulesFit
<1>9. \A f \in Modules : installed[f] \in {Build[ReleaseOf(b)][f], HandEdit}
  BY <1>4, <1>8 DEF FitsRelease
<1>10. \A f \in journal[j].files : journal[j].old[f] = installed[f] /\ f \in Modules
  BY <1>2, <1>3 DEF Unchanged, Entries
<1>11. \A i \in Jobs : Unfinished(i)' =>
        \A f \in journal'[i].files : journal'[i].old[f] \in {Build[ReleaseOf(b)][f], HandEdit}
  BY <1>3, <1>4, <1>5, <1>9, <1>10 DEF EntryBecomes
<1>12. ASSUME NEW i \in Jobs, journal'[i].state \in Lasting
       PROVE  Spares(i, b)'
  <2>1. journal[i].state \in Lasting /\ journal'[i].files = journal[i].files /\ journal'[i].version = journal[i].version
    BY <1>3, <1>5, <1>12 DEF EntryBecomes, Lasting
  <2>2. Spares(i, b)
    BY <1>8, <2>1 DEF FitsRelease
  <2> QED BY <2>1, <2>2 DEF Spares, New
<1> QED BY <1>2, <1>9, <1>11, <1>12 DEF FitsRelease

(* A commit moves the baseline to the job's release, which is what is installed then. *)
LEMMA CompleteModules ==
    ASSUME SupervisorInvariant, JournalFits, WritesFit, ModulesFit, NEW j \in Jobs, j = call.job, ~Superseded',
           MarkComplete
    PROVE  ModulesFit'
<1>1. CallStep
  BY DEF CallStep
<1>2. /\ UpdateTypeOK /\ journal[j] \in Entries /\ installed' = installed
      /\ call.fn \in {"baseline", "mark"} /\ EntryFits(j)
  BY <1>1, WriteContext, CommitEffects DEF JournalFits
<1>3. /\ journal[j].state = "installed" /\ journal[j].metadataApplied /\ AllReplacedBy(j) /\ Unfinished(j)
      /\ call.fn = "mark" => metadata = journal[j].version
  BY <1>2 DEF WritesFit, Unfinished
<1>4. /\ metadata' = metadata /\ metadata = journal[j].version
      /\ EntryBecomes(j, "complete", journal[j].applied, journal[j].oldMetadata, journal[j].metadataApplied)
  BY <1>2, <1>3, CommitEffects
<1>5. PICK v \in Releases, o \in 0 .. Newest : v = journal[j].version /\ o = journal[j].oldMetadata
  BY <1>2, <1>3 DEF SupervisorInvariant, JobsAreKnown, Entries
<1>6. ~(v < o)
  BY <1>4, <1>5 DEF Superseded, EntryBecomes
<1>7. ReleaseOf(o) \in Releases /\ ReleaseOf(o) <= v /\ ReleaseOf(v) = v
  BY <1>5, <1>6, ModuleUpdateAssumption DEF ReleaseOf, Releases
<1>8. FitsRelease(o)
  BY <1>3, <1>5 DEF ModulesFit, Counts
<1>9. \A i \in Jobs : i # j =>
        /\ journal'[i] = journal[i] /\ ~Unfinished(i) /\ ~Unfinished(i)'
  BY <1>3, <1>4, EntryStays DEF EntryBecomes, JournalFits
<1>10. ~Unfinished(j)'
  BY <1>4 DEF EntryBecomes, Unfinished
<1>11. \A f \in Modules : installed[f] \in {Build[v][f], HandEdit}
  <2> SUFFICES ASSUME NEW f \in Modules
               PROVE  installed[f] \in {Build[v][f], HandEdit}
    OBVIOUS
  <2>1. CASE f \in journal[j].files
    BY <1>3, <1>5, <2>1 DEF AllReplacedBy, New
  <2>2. CASE f \notin journal[j].files
    <3>1. \A i \in Jobs : f \notin Written(i)
      BY <1>2, <1>9, <2>2 DEF Written, EntryFits
    <3>2. installed[f] \in {Build[ReleaseOf(o)][f], HandEdit}
      BY <1>8, <3>1 DEF FitsRelease
    <3>3. Spares(j, o)
      BY <1>3, <1>8 DEF FitsRelease, Lasting
    <3>4. Build[ReleaseOf(o)][f] = Build[v][f]
      <4>1. ReleaseOf(o) <= ReleaseOf(o)
        BY <1>7, ModuleUpdateAssumption DEF Releases
      <4>2. Build[ReleaseOf(o)][f] = New(j, f)
        BY <1>5, <1>7, <2>2, <3>3, <4>1 DEF Spares
      <4> QED BY <1>5, <4>2 DEF New
    <3> QED BY <3>2, <3>4
  <2> QED BY <2>1, <2>2
<1>12. ASSUME NEW i \in Jobs, journal'[i].state \in Lasting
      PROVE  Spares(i, v)'
  <2>1. i # j
    BY <1>4, <1>12 DEF EntryBecomes, Lasting
  <2>2. journal'[i] = journal[i] /\ Spares(i, o)
    BY <1>8, <1>9, <1>12, <2>1 DEF FitsRelease
  <2>3. journal[i].version \in 0 .. Newest
    BY <1>2 DEF UpdateTypeOK, Entries
  <2>4. ASSUME NEW f \in Modules \ journal[i].files, NEW q \in Releases, v <= q, q <= journal[i].version
        PROVE  Build[q][f] = New(i, f)
    <3>1. ReleaseOf(o) <= q
      BY <1>5, <1>7, <2>4 DEF Releases
    <3> QED BY <2>2, <2>4, <3>1 DEF Spares
  <2>5. journal'[i].files = journal[i].files /\ journal'[i].version = journal[i].version
    BY <2>2
  <2>6. v = ReleaseOf(v)
    BY <1>7
  <2> QED BY <2>4, <2>5, <2>6 DEF Spares, New
<1> SUFFICES ASSUME NEW b \in 0 .. Newest, Counts(b)'
             PROVE  FitsRelease(b)'
  BY DEF ModulesFit
<1>13. b = v
  BY <1>4, <1>5, <1>9, <1>10 DEF Counts
<1>14. \A i \in Jobs : ~Unfinished(i)'
  BY <1>9, <1>10
<1>15. \A f \in Modules : installed'[f] \in {Build[ReleaseOf(b)][f], HandEdit}
  BY <1>2, <1>7, <1>11, <1>13
<1>16. \A i \in Jobs : journal'[i].state \in Lasting => Spares(i, b)'
  BY <1>12, <1>13 DEF Spares, New
<1> QED BY <1>14, <1>15, <1>16 DEF FitsRelease

LEMMA ModulesCall ==
    ASSUME SupervisorInvariant, JournalFits, WritesFit, ModulesFit, CallStep, ~Superseded'
    PROVE  ModulesFit'
<1> PICK j \in Jobs : j = call.job
  BY WriteContext
<1> QED BY WritesContinue, ModulesStay, CheckedModules, CompleteModules

-----------------------------------------------------------------------------
(* The writes of the operation, the launcher that waits for it and the services *)

LEMMA WrittenModule ==
    ASSUME SupervisorInvariant, JournalFits, WritesFit, CallStep
    PROVE  \/ installed' = installed
           \/ /\ call.fn \in {"write", "roll"}
              /\ \E f \in journal[call.job].files : \A g \in Modules : g # f => installed'[g] = installed[g]
<1> PICK j \in Jobs : j = call.job
  BY WriteContext
<1>1. UpdateTypeOK /\ EntryFits(j) /\ installed \in [Modules -> Contents]
  BY WriteContext DEF JournalFits, UpdateTypeOK
<1>2. CASE WriteModule
  <2>1. call.fn = "write" /\ installed' = [installed EXCEPT ![call.file] = New(j, call.file)]
    BY <1>1, <1>2, ReplaceEffects
  <2>2. call.file \in journal[j].files
    BY <1>1, <2>1 DEF WritesFit, EntryFits
  <2> QED BY <1>1, <2>1, <2>2
<1>3. CASE RollModule
  <2>1. PICK f \in journal[j].applied : installed' = [installed EXCEPT ![f] = journal[j].old[f]]
    BY <1>1, <1>3, RollEffects
  <2>2. call.fn = "roll" /\ f \in journal[j].files
    BY <1>1, <1>3, <2>1, RollEffects DEF EntryFits
  <2> QED BY <1>1, <2>1, <2>2
<1>4. CASE ~WriteModule /\ ~RollModule
  BY <1>1, <1>4, ApplyEffects, ReplaceEffects, RollEffects, CommitEffects DEF CallStep
<1> QED BY <1>2, <1>3, <1>4

(* apply is asked for once. *)
LEMMA NotAskedAgain ==
    ASSUME SupervisorInvariant, CallStep
    PROVE  call'.fn # "apply" /\ (journal[call.job].files)' = journal[call.job].files
<1> PICK j \in Jobs : j = call.job
  BY WriteContext
<1>1. UpdateTypeOK /\ call \in CallRecords
  BY WriteContext
<1>2. CallTransition /\ call'.job = j /\ JobMoves(j)
  BY <1>1, WriteContext, CallStepMoves
<1>3. call'.fn # "apply"
  BY <1>1, <1>2 DEF CallTransition, CallRecords
<1> QED BY <1>2, <1>3 DEF JobMoves

LEMMA LauncherCall ==
    ASSUME SupervisorInvariant, JournalFits, WritesFit, LauncherFits, Transact
    PROVE  LauncherFits'
<1> PICK j \in Jobs : j = call.job
  BY WriteContext DEF Transact
<1>1. CallStep /\ sup' = sup /\ self' = self
  BY DEF Transact, superVars
<1>2. /\ UpdateTypeOK /\ journal[j] \in Entries /\ EntryFits(j) /\ call.fn \notin {"idle", "ok", "failed"}
      /\ sup.phase \in WaitPhases
  BY <1>1, WriteContext DEF JournalFits, SupervisorInvariant, CallFits
<1>3. journal'[j].files = journal[j].files /\ call'.fn # "apply"
  <2>1. call'.job = j
    BY <1>1, <1>2, WriteContext, CallStepMoves
  <2> QED BY <1>1, <2>1, NotAskedAgain
<1>4. CASE sup.phase \in {"recover_wait", "ack_wait", "u_commit"}
  <2>1. installed'[Launcher] = installed[Launcher]
    <3>1. CASE sup.phase = "recover_wait"
      <4>1. Launcher \notin journal[j].files
        BY <3>1 DEF SupervisorInvariant, CallFits, HasLauncher
      <4> QED BY <1>1, <4>1, WrittenModule, ModuleUpdateAssumption
    <3>2. CASE sup.phase \in {"ack_wait", "u_commit"}
      BY <1>1, <1>2, <3>2, WrittenModule DEF SupervisorInvariant, CallFits
    <3> QED BY <1>4, <3>1, <3>2
  <2>2. LauncherKept'
    BY <1>1, <1>4, <2>1 DEF LauncherFits, Keeping, LauncherKept
  <2>3. sup.phase = "u_commit" => ~HasLauncher(sup.job)'
    <3>1. sup.phase = "u_commit" => sup.job = j
      BY DEF SupervisorInvariant, CallFits
    <3> QED BY <1>1, <1>3, <3>1 DEF LauncherFits, HasLauncher
  <2> QED BY <1>1, <1>4, <2>2, <2>3 DEF LauncherFits
<1>5. CASE sup.phase \in {"u_apply", "u_undo"}
  <2>1. sup.job = j
    BY <1>5 DEF SupervisorInvariant, CallFits
  <2>2. /\ Launcher \notin Written(j) => LauncherKept
        /\ Unfinished(j) /\ HasLauncher(j) => journal[j].old[Launcher] \in {self, HandEdit}
    BY <1>5, <2>1 DEF LauncherFits
  <2>3. CASE ApplyChecked
    <3>1. /\ journal[j].state = "staged" /\ Unchanged(j) /\ installed' = installed
          /\ EntryBecomes(j, "applying", journal[j].applied, metadata, FALSE)
      BY <1>2, <2>3, ApplyEffects
    <3>2. LauncherKept
      BY <2>2, <3>1 DEF Written, Unfinished
    <3>3. HasLauncher(j) => journal'[j].old[Launcher] \in {self, HandEdit}
      BY <3>1, <3>2 DEF HasLauncher, Unchanged, EntryBecomes, LauncherKept
    <3>4. LauncherKept'
      BY <1>1, <3>1, <3>2 DEF LauncherKept
    <3> QED BY <1>1, <1>3, <1>5, <2>1, <3>3, <3>4 DEF LauncherFits, Keeping, RestartPhases, HasLauncher
  <2>4. CASE JobContinues(j)
    <3>1. Unfinished(j)' /\ HasLauncher(j)' => journal'[j].old[Launcher] \in {self, HandEdit}
      BY <2>2, <2>4 DEF JobContinues, HasLauncher
    <3>2. ASSUME Launcher \notin Written(j)'
          PROVE  LauncherKept'
      <4>1. CASE Launcher \notin Written(j) /\ installed'[Launcher] = installed[Launcher]
        BY <1>1, <2>2, <4>1 DEF LauncherKept
      <4>2. CASE Unfinished(j) /\ Launcher \in journal[j].files /\ installed'[Launcher] \in {journal[j].old[Launcher], HandEdit}
        BY <1>1, <2>2, <4>2 DEF LauncherKept, HasLauncher
      <4> QED BY <2>4, <3>2, <4>1, <4>2, ModuleUpdateAssumption DEF JobContinues, Untouched
    <3> QED BY <1>1, <1>3, <1>5, <2>1, <3>1, <3>2 DEF LauncherFits, Keeping, RestartPhases
  <2>5. ~MarkComplete
    BY <1>2, <1>5 DEF SupervisorInvariant, CallFits, MarkComplete, Rolling
  <2> QED BY <1>1, <2>3, <2>4, <2>5, WritesContinue
<1>6. CASE sup.phase \in {"pre_wait", "exec_wait", "resume_wait", "unwind_wait"}
  BY <1>1, <1>6 DEF LauncherFits, Keeping, RestartPhases
<1> QED BY <1>2, <1>4, <1>5, <1>6 DEF WaitPhases

(* What an update replaces, none of the services that run use. *)
LEMMA RunningCall ==
    ASSUME SupervisorInvariant, JournalFits, WritesFit, RunningFits, Transact
    PROVE  RunningFits'
<1> PICK j \in Jobs : j = call.job
  BY WriteContext DEF Transact
<1>1. CallStep /\ sup' = sup /\ running' = running
  BY DEF Transact, superVars
<1>2. sup.phase \in WaitPhases /\ call.fn \notin {"idle", "ok", "failed"}
  BY <1>1, WriteContext DEF SupervisorInvariant, CallFits
<1>3. \A i \in Jobs : journal'[i].files = journal[i].files
  <2>1. journal'[j].files = journal[j].files
    BY <1>1, WriteContext, CallStepMoves DEF JobMoves
  <2> QED BY <1>1, <2>1, OthersStay
<1>4. \A s \in Group : RunsInstalled(s)'
  <2>1. CASE installed' = installed
    BY <1>1, <2>1 DEF RunningFits, RunsInstalled
  <2>2. CASE installed' # installed
    <3>1. PICK f \in journal[j].files : \A g \in Modules : g # f => installed'[g] = installed[g]
      BY <1>1, <2>2, WrittenModule
    <3>2. call.fn \in {"write", "roll"}
      BY <1>1, <2>2, WrittenModule
    <3>3. CASE sup.phase \in Stopped
      BY <1>1, <3>3 DEF RunningFits, RunsInstalled, Nothing
    <3>4. CASE sup.phase \in {"u_apply", "u_undo"}
      <4>1. sup.job = j
        BY <3>4 DEF SupervisorInvariant, CallFits
      <4>2. f \in Modules
        BY WriteContext, <1>1, <3>1 DEF Entries
      <4>3. UsedBy[f] \subseteq sup.plan
        <5>1. UsedBy[f] \subseteq Group
          BY <4>2, SupervisorAssumption
        <5>2. sup.plan = UpdatePlan(j)
          BY <3>4, <4>1 DEF RunningFits
        <5> QED BY <3>1, <5>1, <5>2 DEF UpdatePlan
      <4>4. \A s \in UsedBy[f] : running[s] = NotRunning
        BY <3>4, <4>3 DEF RunningFits
      <4> QED BY <1>1, <3>1, <4>4 DEF RunningFits, RunsInstalled
    <3>5. sup.phase \notin {"ack_wait", "u_commit"}
      BY <3>2 DEF SupervisorInvariant, CallFits
    <3> QED BY <1>2, <3>3, <3>4, <3>5 DEF WaitPhases, Stopped
  <2> QED BY <2>1, <2>2
<1>5. sup.phase \in {"u_apply", "u_commit", "u_undo"} => sup.plan = UpdatePlan(sup.job)'
  <2>1. sup.phase \in {"u_apply", "u_commit", "u_undo"} => sup.job \in Jobs
    BY WriteContext, <1>1 DEF SupervisorInvariant, CallFits
  <2> QED BY <1>1, <1>3, <2>1 DEF RunningFits, UpdatePlan, HasLauncher
<1>6. sup.phase \notin {"u_stop", "u_prepare", "u_start"}
  BY <1>2 DEF WaitPhases
<1> QED BY <1>1, <1>4, <1>5, <1>6 DEF RunningFits

-----------------------------------------------------------------------------
(* What the other steps do to the journal and to the operation in progress *)

NotWriting == call.fn \in {"idle", "apply", "ok", "failed"}

RollBegun ==
    /\ call'.fn = "roll" /\ call'.marks = {} /\ call'.job \in Jobs
    /\ staging' = NoJob
    /\ journal[call'.job].state \notin {"none", "staging", "complete", "rolled_back"}

CommitBegun(j) ==
    /\ call'.fn = "baseline" /\ call'.job = j /\ staging = NoJob /\ staging' = NoJob
    /\ journal[j].state = "installed" /\ AllNew(j)
    /\ EntryBecomes(j, journal[j].state, journal[j].applied, journal[j].oldMetadata, TRUE)

StagingBegun(j) ==
    /\ journal[j].state = "none" /\ staging' = j
    /\ \A i \in Jobs : ~Unfinished(i)
    /\ journal'[j].state = "staging" /\ journal'[j].applied = {} /\ ~journal'[j].metadataApplied
    /\ \A i \in Jobs : i # j => journal'[i] = journal[i]

StagingEnded(j) ==
    /\ journal[j].state = "staging" /\ staging' = NoJob
    /\ \E state \in {"failed", "cancelled"} :
        EntryBecomes(j, state, journal[j].applied, journal[j].oldMetadata, journal[j].metadataApplied)

SameEntries == \A i \in Jobs : journal'[i] = journal[i]

DiskMoves ==
    /\ UNCHANGED <<installed, metadata>>
    /\ \/ SameEntries /\ staging' \in {staging, NoJob} /\ (call' = call \/ NotWriting')
       \/ SameEntries /\ RollBegun
       \/ \E j \in Jobs : CommitBegun(j)
       \/ /\ NotWriting'
          /\ \/ \E j \in Jobs : KeepsEntry(j) /\ staging' = staging
             \/ \E j \in Jobs : StagingBegun(j)
             \/ \E j \in Jobs : StagingEnded(j)
             \/ StageVerified(self) /\ staging' = NoJob

LEMMA RollbackMoves ==
    ASSUME SupervisorInvariant, NEW j \in Jobs, j \in {sup.job, handoff}, RollbackRequest(j), UNCHANGED disk
    PROVE  DiskMoves
<1>1. journal[j].state \notin {"none", "staging"}
  <2>1. NoJob \notin Jobs
    BY ModuleUpdateAssumption
  <2> QED BY <2>1 DEF SupervisorInvariant, JobsAreKnown, Settled, Past
<1>2. call'.fn = IF journal[j].state = "rolled_back" THEN "ok"
                 ELSE IF ~Lease \/ journal[j].state = "complete" THEN "failed" ELSE "roll"
  BY DEF RollbackRequest, Begin, Idle
<1>3. call'.job = j /\ call'.marks = {}
  BY DEF RollbackRequest, Begin, Idle
<1>4. CASE call'.fn \in {"ok", "failed"}
  BY <1>4 DEF DiskMoves, NotWriting, SameEntries, disk
<1>5. CASE call'.fn = "roll"
  <2>1. RollBegun
    BY <1>1, <1>2, <1>3, <1>5 DEF RollBegun, Lease, disk
  <2> QED BY <2>1 DEF DiskMoves, SameEntries, disk
<1> QED BY <1>2, <1>4, <1>5

LEMMA CommitDisk ==
    ASSUME SupervisorInvariant, NEW j \in Jobs, CommitRequest(j),
           UNCHANGED <<installed, metadata, staging>>
    PROVE  DiskMoves
<1>1. CASE journal' = journal /\ call'.fn \in {"ok", "failed"}
  BY <1>1 DEF DiskMoves, NotWriting, SameEntries
<1>2. CASE ~(journal' = journal /\ call'.fn \in {"ok", "failed"})
  <2>1. /\ Lease /\ journal[j].state = "installed" /\ AllNew(j)
        /\ save_job(j, [journal[j] EXCEPT !.metadataApplied = TRUE]) /\ Begin("baseline", j, "ok")
    BY <1>2 DEF CommitRequest, Idle
  <2>2. journal \in [Jobs -> Entries] /\ journal[j] \in Entries /\ {} \in SUBSET Modules /\ 0 \in 0 .. Newest
        /\ TRUE \in BOOLEAN
    BY TypesSplit, ModuleUpdateAssumption DEF SupervisorInvariant, UpdateTypeOK
  <2>3. EntryBecomes(j, journal[j].state, journal[j].applied, journal[j].oldMetadata, TRUE)
    BY <2>1, <2>2, SavedBecomes, StatesAreStrings
  <2>4. CommitBegun(j)
    BY <2>1, <2>3 DEF CommitBegun, Begin, Idle, Lease
  <2> QED BY <2>4 DEF DiskMoves
<1> QED BY <1>1, <1>2

LEMMA EndDisk ==
    ASSUME SupervisorInvariant, Discarded, NotWriting', UNCHANGED <<installed, metadata>>
    PROVE  DiskMoves
<1>1. staging' = NoJob
  BY DEF Discarded
<1>2. CASE SameEntries
  BY <1>1, <1>2 DEF DiskMoves
<1>3. CASE ~SameEntries
  <2>1. PICK j \in Jobs : j = staging /\ journal'[j] = [journal[j] EXCEPT !.state = "cancelled"]
    BY <1>3 DEF Discarded, SameEntries
  <2>2. \A i \in Jobs : i # j => journal'[i] = journal[i]
    BY <2>1 DEF Discarded
  <2>3. journal[j] \in Entries
    BY TypesSplit DEF SupervisorInvariant, UpdateTypeOK
  <2>4. EntryBecomes(j, "cancelled", journal[j].applied, journal[j].oldMetadata, journal[j].metadataApplied)
    BY <2>1, <2>2, <2>3 DEF EntryBecomes, Entries
  <2>5. journal[j].state = "staging"
    BY <2>1, ModuleUpdateAssumption DEF SupervisorInvariant, JobsAreKnown
  <2>6. StagingEnded(j)
    BY <1>1, <2>4, <2>5 DEF StagingEnded
  <2> QED BY <1>1, <2>6 DEF DiskMoves
<1> QED BY <1>2, <1>3

(* Which step does which. *)
LEMMA KeptDisk ==
    ASSUME UNCHANGED <<installed, metadata, journal, staging>>, call' \in {call, Idle}
    PROVE  DiskMoves
BY DEF DiskMoves, SameEntries, NotWriting, Idle

LEMMA RestoringDisk ==
    ASSUME SupervisorInvariant, Pre \/ Recover \/ Acknowledge
    PROVE  DiskMoves
<1> USE DEF SupervisorInvariant
<1>0. NoJob \notin Jobs /\ UpdateTypeOK
  BY TypesSplit, ModuleUpdateAssumption
<1>1. CASE Pre
  <2>1. call.fn = "idle" /\ staging = NoJob /\ staging' = NoJob /\ UNCHANGED <<installed, metadata>>
    BY <1>1 DEF Pre, At, Lease, CallFits, WaitPhases
  <2>2. handoff # NoJob => handoff \in Jobs /\ journal[handoff].state \notin {"none", "staging"}
    BY <1>0 DEF JobsAreKnown, Settled, Past
  <2>3. CASE TryOnce
    <3>1. handoff \in Jobs /\ journal[handoff] \in Entries /\ call' = call
          /\ journal' = [journal EXCEPT ![handoff] = [journal[handoff] EXCEPT !.booted = TRUE]]
      BY <1>0, <2>2, <2>3 DEF TryOnce, CountBoot, save_job, UpdateTypeOK
    <3>2. KeepsEntry(handoff)
      BY <1>0, <3>1 DEF KeepsEntry, EntryBecomes, Entries, UpdateTypeOK
    <3> QED BY <2>1, <3>1, <3>2 DEF DiskMoves, NotWriting
  <2>4. CASE RestoreLauncher
    <3>1. journal' = journal /\ call'.fn = "roll" /\ call'.marks = {} /\ call'.job = handoff /\ handoff \in Jobs
      BY <2>2, <2>4 DEF RestoreLauncher, Begin, Idle
    <3>2. RollBegun
      BY <2>1, <2>2, <2>4, <3>1 DEF RollBegun, RestoreLauncher
    <3> QED BY <2>1, <3>1, <3>2 DEF DiskMoves, SameEntries
  <2>5. CASE NothingToRecover
    BY <2>1, <2>5, KeptDisk DEF NothingToRecover
  <2> QED BY <1>1, <2>3, <2>4, <2>5 DEF Pre
<1>2. CASE Recover
  <2>1. PICK j \in Jobs : Interrupted(j) /\ Begin("roll", j, "remark")
    BY <1>2 DEF Recover
  <2>2. staging = NoJob
    BY <1>2, UnreadyHasNoDownload DEF Recover, At, Started
  <2>3. RollBegun
    BY <1>2, <2>1, <2>2 DEF RollBegun, Begin, Idle, Interrupted, Unfinished, Recover, disk
  <2> QED BY <1>2, <2>3 DEF DiskMoves, SameEntries, Recover, disk
<1>3. CASE Acknowledge
  <2>1. sup.job \in Jobs
    BY <1>0, <1>3 DEF Acknowledge, At, PhasesFit, JobsAreKnown, Settled, Past
  <2>2. UNCHANGED <<installed, metadata, staging>>
    BY <1>3 DEF Acknowledge
  <2>3. CASE UNCHANGED <<journal, call>>
    BY <2>2, <2>3, KeptDisk
  <2>4. CASE CommitRequest(sup.job)
    BY <2>1, <2>2, <2>4, CommitDisk
  <2> QED BY <1>3, <2>3, <2>4 DEF Acknowledge
<1> QED BY <1>1, <1>2, <1>3

LEMMA StartUpDisk ==
    ASSUME SupervisorInvariant, StartUp
    PROVE  DiskMoves
<1> USE DEF SupervisorInvariant
<1>0. NoJob \notin Jobs /\ UpdateTypeOK
  BY TypesSplit, ModuleUpdateAssumption
<1>1. CASE Pre \/ Recover \/ Acknowledge
  BY <1>1, RestoringDisk
<1>2. CASE PreDone \/ Exec \/ ExecRestored \/ RecoverDone \/ Recovered \/ Unwound
  BY <1>2, KeptDisk DEF PreDone, Exec, ExecRestored, RecoverDone, Recovered, Unwound, disk, updateVars
<1>3. CASE StartNext \/ AllStarted \/ Ready \/ Released \/ FinishRelaunch
  BY <1>3, KeptDisk DEF StartNext, AllStarted, Ready, Released, FinishRelaunch, updateVars
<1>4. CASE ExecFails
  <2>1. CASE handoff # NoJob /\ RollbackRequest(handoff)
    <3>1. handoff \in Jobs /\ UNCHANGED disk
      BY <1>0, <1>4, <2>1 DEF UpdateTypeOK, ExecFails
    <3> QED BY <2>1, <3>1, RollbackMoves
  <2>2. CASE call' = call
    BY <1>4, <2>2, KeptDisk DEF ExecFails, disk
  <2> QED BY <1>4, <2>1, <2>2 DEF ExecFails
<1>5. CASE Resume
  <2>1. CASE sup.job # NoJob /\ RollbackRequest(sup.job)
    <3>1. sup.job \in Jobs /\ UNCHANGED disk
      BY <1>0, <1>5, <2>1 DEF JobsAreKnown, Settled, Past, Resume
    <3> QED BY <2>1, <3>1, RollbackMoves
  <2>2. CASE call' = call
    BY <1>5, <2>2, KeptDisk DEF Resume, disk
  <2> QED BY <1>5, <2>1, <2>2 DEF Resume
<1>6. CASE StartFails \/ Acknowledged
  <2>1. CASE sup.job # NoJob /\ RollbackRequest(sup.job)
    <3>1. sup.job \in Jobs /\ UNCHANGED disk
      BY <1>0, <1>6, <2>1 DEF JobsAreKnown, Settled, Past, StartFails, Acknowledged
    <3> QED BY <2>1, <3>1, RollbackMoves
  <2>2. CASE call' = Idle
    BY <1>6, <2>2, KeptDisk DEF StartFails, Acknowledged, disk
  <2> QED BY <1>6, <2>1, <2>2 DEF StartFails, Acknowledged, StartupFails
<1>7. CASE Report
  <2>1. call.fn = "idle" /\ call' = call /\ UNCHANGED <<installed, metadata>>
    BY <1>7 DEF Report, At, CallFits, WaitPhases
  <2>2. CASE UNCHANGED <<journal, staging>>
    BY <2>1, <2>2, KeptDisk
  <2>3. CASE EndDownload
    <3>1. Discarded
      BY <1>0, <2>3, EndDownloadDiscards
    <3> QED BY <2>1, <3>1, EndDisk DEF NotWriting
  <2> QED BY <1>7, <2>2, <2>3 DEF Report
<1> QED BY <1>1, <1>2, <1>3, <1>4, <1>5, <1>6, <1>7 DEF StartUp

LEMMA FailingDisk ==
    ASSUME SupervisorInvariant, FailUpdate, sup.phase \in ApplyPhases, UNCHANGED <<installed, metadata, journal, staging>>,
           handoff' = handoff, published' = published
    PROVE  DiskMoves
<1> USE DEF SupervisorInvariant
<1>1. sup.job \in Jobs
  BY ModuleUpdateAssumption DEF JobsAreKnown, PhasesFit, Settled, Past
<1>2. CASE call' = Idle
  BY <1>2, KeptDisk
<1>3. CASE RollbackRequest(sup.job)
  BY <1>1, <1>3, RollbackMoves DEF disk
<1> QED BY <1>2, <1>3 DEF FailUpdate

LEMMA EndingDisk ==
    ASSUME SupervisorInvariant, EndDownload, UNCHANGED <<installed, metadata>>, NotWriting'
    PROVE  DiskMoves
<1>1. UpdateTypeOK
  BY TypesSplit DEF SupervisorInvariant
<1> QED BY <1>1, EndDownloadDiscards, EndDisk

LEMMA UpdatingDisk ==
    ASSUME SupervisorInvariant, Updating
    PROVE  DiskMoves
<1> USE DEF SupervisorInvariant
<1>0. NoJob \notin Jobs /\ UpdateTypeOK
  BY TypesSplit, ModuleUpdateAssumption
<1>1. CASE DownloadEnds \/ TakeApply \/ UStart \/ UCommitted \/ UUndone \/ URestored
  BY <1>1, KeptDisk DEF DownloadEnds, TakeApply, UStart, UCommitted, UUndone, URestored, disk, updateVars
<1>2. CASE TakeStage
  <2>1. PICK j : j = mailbox.update.job /\ StageBegin(j, mailbox.update.version)
    BY <1>2 DEF TakeStage
  <2>2. j \in Jobs /\ journal[j].state = "none"
    BY <1>2, <2>1 DEF TakeStage, RequestsAreKnown, Announceable
  <2>3. \A i \in Jobs : ~Unfinished(i)
    BY <1>0, <1>2 DEF TakeStage, Serving, At, OneUnfinished, PhasesFit, BeforeRecovery
  <2>4. journal' = [journal EXCEPT ![j] = [NoEntry EXCEPT !.state = "staging", !.version = mailbox.update.version]]
        /\ staging' = j
    BY <2>1 DEF StageBegin, save_job
  <2>5. StagingBegun(j)
    BY <1>0, <2>2, <2>3, <2>4 DEF StagingBegun, NoEntry, UpdateTypeOK
  <2>6. call.fn = "idle" /\ call' = call /\ UNCHANGED <<installed, metadata>>
    BY <1>2 DEF TakeStage, Serving, At, CallFits, WaitPhases
  <2> QED BY <2>2, <2>5, <2>6 DEF DiskMoves, NotWriting
<1>3. CASE UStop
  <2>1. UNCHANGED disk /\ (call' = call \/ call'.fn = "apply")
    BY <1>3 DEF UStop, Begin, Idle
  <2> QED BY <2>1 DEF DiskMoves, SameEntries, NotWriting, disk
<1>4. CASE UFails
  BY <1>4, FailingDisk DEF UFails, At, ApplyPhases, disk
<1>5. CASE UPrepare
  <2>1. CASE Begin("apply", sup.job, "ok")
    BY <1>5, <2>1 DEF UPrepare, Begin, Idle, DiskMoves, SameEntries, NotWriting
  <2>2. CASE FailUpdate /\ handoff' = handoff
    BY <1>5, <2>2, FailingDisk DEF UPrepare, At, ApplyPhases
  <2> QED BY <1>5, <2>1, <2>2 DEF UPrepare
<1>6. CASE UApplied
  <2>1. call' = Idle /\ UNCHANGED <<installed, metadata>>
    BY <1>6 DEF UApplied
  <2>2. CASE UNCHANGED <<journal, staging>>
    BY <2>1, <2>2, KeptDisk
  <2>3. CASE EndDownload
    BY <2>1, <2>3, EndingDisk DEF NotWriting, Idle
  <2> QED BY <1>6, <2>2, <2>3 DEF UApplied
<1>7. CASE UNotApplied
  BY <1>7, FailingDisk DEF UNotApplied, ApplyPhases, disk
<1>8. CASE UCommit
  <2>1. sup.job \in Jobs
    BY <1>0, <1>8 DEF UCommit, At, PhasesFit, JobsAreKnown, Settled, Past, ApplyPhases
  <2> QED BY <1>8, <2>1, CommitDisk DEF UCommit
<1>9. CASE UAbandoned
  BY <1>9, EndingDisk DEF UAbandoned, NotWriting, Idle
<1> QED BY <1>1, <1>2, <1>3, <1>4, <1>5, <1>6, <1>7, <1>8, <1>9 DEF Updating

LEMMA ServingDisk ==
    ASSUME SupervisorInvariant, Boot \/ Restarting \/ Administer
    PROVE  DiskMoves
<1> USE DEF SupervisorInvariant
<1>1. CASE Boot \/ TakeRestart \/ RStart \/ RFails \/ RDone \/ RRestore \/ RRestored
  BY <1>1, KeptDisk DEF Boot, TakeRestart, RStart, RFails, RDone, RRestore, RRestored, disk, updateVars
<1>2. CASE RStop
  <2>1. call.fn = "idle" /\ call' = call /\ UNCHANGED <<installed, metadata>>
    BY <1>2 DEF RStop, At, CallFits, WaitPhases
  <2>2. CASE UNCHANGED <<journal, staging>>
    BY <2>1, <2>2, KeptDisk
  <2>3. CASE EndDownload
    BY <2>1, <2>3, EndingDisk DEF NotWriting
  <2> QED BY <1>2, <2>2, <2>3 DEF RStop
<1>3. CASE RAbandoned \/ RestartRefused
  <2>1. call.fn = "idle" /\ call' = call /\ UNCHANGED <<installed, metadata>> /\ EndDownload
    BY <1>3 DEF RAbandoned, RestartRefused, Serving, At, CallFits, WaitPhases
  <2> QED BY <2>1, EndingDisk DEF NotWriting
<1>4. CASE Administer
  <2>1. UNCHANGED <<installed, metadata, journal, staging, call>>
    BY <1>4 DEF Administer, AskStage, AskApply, AskRestart, Ask, Reserve, Post, PostFails, disk, updateVars
  <2> QED BY <2>1, KeptDisk
<1> QED BY <1>1, <1>2, <1>3, <1>4 DEF Restarting

LEMMA DisturbingDisk ==
    ASSUME SupervisorInvariant, Disturb, ~Edit
    PROVE  DiskMoves
<1> USE DEF SupervisorInvariant
<1>0. NoJob \notin Jobs /\ UpdateTypeOK
  BY TypesSplit, ModuleUpdateAssumption
<1>1. CASE (Publish /\ UNCHANGED superVars) \/ \E c \in Configs : SaveConfig(c)
  BY <1>1, KeptDisk DEF Publish, SaveConfig, disk
<1>2. CASE Kill
  <2>1. Discarded /\ NotWriting'
    BY <1>2 DEF Kill, Discarded, NotWriting, Idle, diskVars
  <2> QED BY <1>2, <2>1, EndDisk DEF Kill, diskVars
<1>3. CASE StartStopped
  BY <1>3, KeptDisk DEF StartStopped, disk
<1>4. CASE USignal
  <2>1. sup.job \in Jobs
    BY <1>0, <1>4 DEF USignal, At, PhasesFit, JobsAreKnown, Settled, Past, ApplyPhases
  <2> QED BY <1>4, <2>1, RollbackMoves DEF USignal
<1>5. CASE RSignal \/ ServiceDies \/ Shutdown
  <2>1. call.fn = "idle" /\ call' = call /\ UNCHANGED <<installed, metadata>> /\ EndDownload
    BY <1>5 DEF RSignal, ServiceDies, Shutdown, Serving, At, CallFits, WaitPhases
  <2> QED BY <2>1, EndingDisk DEF NotWriting
<1> QED BY <1>1, <1>2, <1>3, <1>4, <1>5 DEF Disturb

LEMMA DownloadDisk ==
    ASSUME SupervisorInvariant, JournalFits, Download
    PROVE  DiskMoves
<1> USE DEF SupervisorInvariant
<1>0. NoJob \notin Jobs /\ UpdateTypeOK
  BY TypesSplit, ModuleUpdateAssumption
<1>1. staging # NoJob /\ staging' = NoJob /\ UNCHANGED <<installed, metadata, call>>
  BY <1>0 DEF Download, StageVerified, StageFails
<1>2. NotWriting'
  BY <1>1 DEF JournalFits, NotWriting
<1>3. CASE StageVerified(self)
  BY <1>1, <1>2, <1>3 DEF DiskMoves
<1>4. CASE StageFails(self)
  <2>1. PICK j \in Jobs : j = staging
    BY <1>0, <1>1 DEF UpdateTypeOK
  <2>2. State(j, "failed")
    BY <1>4, <2>1 DEF StageFails
  <2>3. {} \in SUBSET Modules /\ 0 \in 0 .. Newest /\ TRUE \in BOOLEAN /\ journal \in [Jobs -> Entries]
    BY <1>0, ModuleUpdateAssumption DEF UpdateTypeOK
  <2>4. EntryBecomes(j, "failed", journal[j].applied, journal[j].oldMetadata, journal[j].metadataApplied)
    BY <2>2, <2>3, SavedBecomes, StatesAreStrings
  <2>5. StagingEnded(j)
    BY <1>1, <2>1, <2>4 DEF StagingEnded, JobsAreKnown
  <2> QED BY <1>1, <1>2, <2>5 DEF DiskMoves
<1> QED BY <1>3, <1>4 DEF Download

LEMMA DiskStep ==
    ASSUME SupervisorInvariant, JournalFits, Next, ~Transact, ~Edit
    PROVE  DiskMoves
BY StartUpDisk, UpdatingDisk, ServingDisk, DisturbingDisk, DownloadDisk DEF Next, Launching

-----------------------------------------------------------------------------
(* The journal, the operation and the modules in the other steps *)

LEMMA DiskJournal ==
    ASSUME SupervisorInvariant, JournalFits, DiskMoves
    PROVE  JournalFits'
<1> DEFINE Clear == staging' # NoJob => NotWriting' /\ \A i \in Jobs : ~Unfinished(i)'
<1>0. NoJob \notin Jobs /\ UpdateTypeOK /\ metadata' = metadata
  BY TypesSplit, ModuleUpdateAssumption DEF SupervisorInvariant, DiskMoves
<1>1. \A i \in Jobs : EntryFits(i)
  BY DEF JournalFits
<1>2. ASSUME NEW j \in Jobs, \A i \in Jobs : i # j => journal'[i] = journal[i],
             EntryFits(j)', Unfinished(j)' => Unfinished(j), Clear
      PROVE  JournalFits'
  <2>1. \A i \in Jobs : EntryFits(i)' /\ (Unfinished(i)' => Unfinished(i))
    BY <1>0, <1>1, <1>2, EntryStays
  <2> QED BY <1>2, <2>1 DEF JournalFits, NotWriting
<1>3. CASE SameEntries
  <2>1. \A i \in Jobs : EntryFits(i)' /\ (Unfinished(i)' => Unfinished(i))
    BY <1>0, <1>1, <1>3, EntryStays DEF SameEntries
  <2>2. CASE staging' \in {staging, NoJob} /\ (call' = call \/ NotWriting')
    <3>1. Clear
      BY <2>1, <2>2 DEF JournalFits, NotWriting
    <3> QED BY <2>1, <3>1 DEF JournalFits, NotWriting
  <2>3. CASE staging' = NoJob
    BY <2>1, <2>3 DEF JournalFits
  <2>4. CASE \E j \in Jobs : KeepsEntry(j) /\ staging' = staging /\ NotWriting'
    BY <2>1, <2>4 DEF JournalFits, NotWriting
  <2>5. CASE \E j \in Jobs : StagingBegun(j) /\ NotWriting'
    <3>1. Clear
      BY <2>1, <2>5 DEF StagingBegun
    <3> QED BY <2>1, <3>1 DEF JournalFits, NotWriting
  <2>6. CASE \E j \in Jobs : CommitBegun(j) \/ StagingEnded(j)
    BY <2>1, <2>6 DEF JournalFits, CommitBegun, StagingEnded
  <2> QED BY <2>2, <2>3, <2>4, <2>5, <2>6 DEF DiskMoves, RollBegun
<1>4. ASSUME NEW j \in Jobs, CommitBegun(j) PROVE JournalFits'
  <2>1. EntryFits(j)' /\ (Unfinished(j)' => Unfinished(j)) /\ Clear
    BY <1>0, <1>1, <1>4 DEF CommitBegun, EntryBecomes, EntryFits, Unfinished
  <2> QED BY <1>2, <1>4, <2>1 DEF CommitBegun, EntryBecomes
<1>5. ASSUME NEW j \in Jobs, KeepsEntry(j), staging' = staging, NotWriting' PROVE JournalFits'
  <2>1. EntryFits(j)' /\ (Unfinished(j)' <=> Unfinished(j))
    BY <1>0, <1>1, <1>5 DEF KeepsEntry, EntryBecomes, EntryFits, Unfinished
  <2>2. \A i \in Jobs : Unfinished(i)' <=> Unfinished(i)
    BY <1>5, <2>1, EntryStays DEF KeepsEntry, EntryBecomes
  <2>3. Clear
    BY <1>5, <2>2 DEF JournalFits
  <2> QED BY <1>2, <1>5, <2>1, <2>3 DEF KeepsEntry, EntryBecomes
<1>6. ASSUME NEW j \in Jobs, StagingBegun(j), NotWriting' PROVE JournalFits'
  <2>1. EntryFits(j)' /\ ~Unfinished(j)'
    BY <1>6 DEF StagingBegun, EntryFits, Unfinished
  <2>2. \A i \in Jobs : ~Unfinished(i)'
    BY <1>6, <2>1, EntryStays DEF StagingBegun
  <2> QED BY <1>2, <1>6, <2>1, <2>2 DEF StagingBegun
<1>7. ASSUME NEW j \in Jobs, StagingEnded(j) PROVE JournalFits'
  <2>1. EntryFits(j)' /\ ~Unfinished(j)'
    BY <1>1, <1>7 DEF StagingEnded, EntryBecomes, EntryFits, Unfinished
  <2> QED BY <1>2, <1>7, <2>1 DEF StagingEnded, EntryBecomes
<1>8. CASE StageVerified(self) /\ staging' = NoJob
  <2>1. PICK j \in Jobs : j = staging
    BY <1>0, <1>8 DEF StageVerified, UpdateTypeOK
  <2>2. journal[j].applied = {} /\ ~journal[j].metadataApplied
    BY <1>0, <2>1 DEF SupervisorInvariant, JobsAreKnown
  <2>3. journal' = [journal EXCEPT ![j] = [journal[j] EXCEPT
           !.state = "staged", !.files = {f \in Modules : New(j, f) # installed[f]}, !.old = installed]]
    BY <1>8, <2>1 DEF StageVerified, save_job
  <2>4. journal'[j].state = "staged" /\ journal'[j].applied = {} /\ ~journal'[j].metadataApplied
        /\ \A i \in Jobs : i # j => journal'[i] = journal[i]
    <3>1. journal[j] \in Entries /\ journal \in [Jobs -> Entries]
      BY <1>0 DEF UpdateTypeOK
    <3> QED BY <2>2, <2>3, <3>1 DEF Entries
  <2>5. EntryFits(j)' /\ ~Unfinished(j)'
    BY <2>4 DEF EntryFits, Unfinished
  <2> QED BY <1>2, <1>8, <2>4, <2>5
<1> QED BY <1>3, <1>4, <1>5, <1>6, <1>7, <1>8 DEF DiskMoves

LEMMA DiskWrites ==
    ASSUME SupervisorInvariant, WritesFit, DiskMoves
    PROVE  WritesFit'
<1>1. CASE NotWriting'
  BY <1>1 DEF NotWriting, WritesFit
<1>2. CASE SameEntries /\ call' = call
  <2>1. CASE call.fn = "idle"
    BY <1>2, <2>1 DEF WritesFit
  <2>2. CASE call.fn # "idle"
    <3>1. call.job \in Jobs
      BY <2>2, CallHasJob DEF SupervisorInvariant
    <3>2. journal'[call.job] = journal[call.job] /\ UNCHANGED <<call, installed, metadata>>
      BY <1>2, <3>1 DEF SameEntries, DiskMoves
    <3> QED BY <3>2 DEF WritesFit, AllReplacedBy, New
  <2> QED BY <2>1, <2>2
<1>3. CASE SameEntries /\ RollBegun
  BY <1>3 DEF WritesFit, RollBegun, SameEntries
<1>4. ASSUME NEW j \in Jobs, CommitBegun(j) PROVE WritesFit'
  BY <1>4 DEF CommitBegun, EntryBecomes, WritesFit, DiskMoves, AllNew, AllReplacedBy, New
<1> QED BY <1>1, <1>2, <1>3, <1>4 DEF DiskMoves

LEMMA SameModules ==
    ASSUME ModulesFit, SameEntries, UNCHANGED <<installed, metadata>>
    PROVE  ModulesFit'
<1>1. \A i \in Jobs : (Unfinished(i)' <=> Unfinished(i)) /\ Written(i)' = Written(i) /\ journal'[i] = journal[i]
  BY EntryStays DEF SameEntries
<1> SUFFICES ASSUME NEW b \in 0 .. Newest, Counts(b)'
             PROVE  FitsRelease(b)'
  BY DEF ModulesFit
<1>2. FitsRelease(b)
  BY <1>1 DEF Counts, ModulesFit
<1> QED BY <1>1, <1>2 DEF FitsRelease, Spares, New

LEMMA VerifiedModules ==
    ASSUME SupervisorInvariant, JournalFits, ModulesFit, StageVerified(self)
    PROVE  ModulesFit'
<1> DEFINE Changed(j) == {f \in Modules : New(j, f) # installed[f]}
<1>0. NoJob \notin Jobs /\ UpdateTypeOK /\ UNCHANGED <<installed, metadata>>
  BY TypesSplit, ModuleUpdateAssumption DEF SupervisorInvariant, StageVerified
<1>1. PICK j \in Jobs : j = staging
  BY <1>0 DEF StageVerified, UpdateTypeOK
<1>2. /\ journal[j].applied = {} /\ ~journal[j].metadataApplied /\ journal[j].state = "staging"
      /\ \A i \in Jobs : ~Unfinished(i)
  BY <1>0, <1>1 DEF SupervisorInvariant, JobsAreKnown, JournalFits
<1>3. journal' = [journal EXCEPT ![j] = [journal[j] EXCEPT !.state = "staged", !.files = Changed(j), !.old = installed]]
  BY <1>1 DEF StageVerified, save_job
<1>4. PICK v \in Releases : v = journal[j].version
  BY <1>2 DEF SupervisorInvariant, JobsAreKnown
<1>5. /\ journal'[j].state = "staged" /\ journal'[j].applied = {} /\ ~journal'[j].metadataApplied
      /\ journal'[j].files = Changed(j) /\ journal'[j].version = v
      /\ \A i \in Jobs : i # j => journal'[i] = journal[i]
  <2>1. journal[j] \in Entries /\ journal \in [Jobs -> Entries]
    BY <1>0 DEF UpdateTypeOK
  <2> DEFINE g == [journal[j] EXCEPT !.state = "staged", !.files = Changed(j), !.old = installed]
  <2>2. g.state = "staged" /\ g.applied = journal[j].applied /\ g.metadataApplied = journal[j].metadataApplied
        /\ g.files = Changed(j) /\ g.version = journal[j].version
    BY <2>1 DEF Entries
  <2>3. journal' = [journal EXCEPT ![j] = g]
    BY <1>3
  <2> HIDE DEF g
  <2> QED BY <1>2, <1>4, <2>1, <2>2, <2>3
<1>6. \A i \in Jobs : ~Unfinished(i)' /\ Written(i)' = {} /\ Written(i) = {}
  BY <1>2, <1>5, EntryStays DEF Unfinished, Written
<1> SUFFICES ASSUME NEW b \in 0 .. Newest, Counts(b)'
             PROVE  FitsRelease(b)'
  BY DEF ModulesFit
<1>7. b = metadata
  BY <1>0, <1>6 DEF Counts
<1>8. FitsRelease(b)
  BY <1>2, <1>7 DEF Counts, ModulesFit
<1>9. \A f \in Modules : installed[f] \in {Build[ReleaseOf(b)][f], HandEdit}
  BY <1>6, <1>8 DEF FitsRelease
<1>10. PICK p \in Releases : p = ReleaseOf(b)
  BY ModuleUpdateAssumption DEF ReleaseOf, Releases
<1>11. ASSUME NEW f \in Modules, f \notin Changed(j), NEW q \in Releases, p <= q, q <= v
       PROVE  Build[q][f] = Build[v][f]
  <2>1. installed[f] = Build[v][f] /\ Build[v][f] \in 0 .. Newest /\ Build[v][f] # HandEdit
    BY <1>4, <1>11, ModuleUpdateAssumption DEF New
  <2>2. Build[v][f] = Build[p][f]
    BY <1>9, <1>10, <2>1
  <2>3. Build[p][f] <= p
    BY <1>10, ModuleUpdateAssumption
  <2>4. Build[v][f] <= q
    BY <1>11, <2>1, <2>2, <2>3, ModuleUpdateAssumption DEF Releases
  <2> QED BY <1>11, <2>4, ModuleUpdateAssumption
<1>12. Spares(j, b)'
  BY <1>5, <1>10, <1>11 DEF Spares, New
<1>13. ASSUME NEW i \in Jobs, i # j, journal'[i].state \in Lasting
       PROVE  Spares(i, b)'
  <2>1. Spares(i, b) /\ journal'[i] = journal[i]
    BY <1>5, <1>8, <1>13 DEF FitsRelease
  <2> QED BY <2>1 DEF Spares, New
<1>14. \A i \in Jobs : journal'[i].state \in Lasting => Spares(i, b)'
  BY <1>12, <1>13
<1> QED BY <1>0, <1>6, <1>9, <1>14 DEF FitsRelease

LEMMA DiskModules ==
    ASSUME SupervisorInvariant, JournalFits, ModulesFit, DiskMoves
    PROVE  ModulesFit'
<1>0. UNCHANGED <<installed, metadata>>
  BY DEF DiskMoves
<1>1. CASE SameEntries
  BY <1>0, <1>1, SameModules
<1>2. ASSUME NEW j \in Jobs, CommitBegun(j) PROVE ModulesFit'
  <2>1. (Unfinished(j)' <=> Unfinished(j)) /\ Written(j)' = Written(j)
    BY <1>2 DEF CommitBegun, EntryBecomes, Unfinished, Written
  <2>2. Untouched(j)
    BY <1>0, <2>1, SameUntouched
  <2>3. JobContinues(j)
    BY <1>0, <1>2, <2>1, <2>2 DEF CommitBegun, EntryBecomes, JobContinues
  <2> QED BY <2>3, ModulesStay
<1>3. ASSUME NEW j \in Jobs, KeepsEntry(j) PROVE ModulesFit'
  <2>1. (Unfinished(j)' <=> Unfinished(j)) /\ Written(j)' = Written(j)
    BY <1>3 DEF KeepsEntry, EntryBecomes, Unfinished, Written
  <2>2. Untouched(j)
    BY <1>0, <2>1, SameUntouched
  <2>3. JobContinues(j)
    BY <1>0, <1>3, <2>1, <2>2 DEF KeepsEntry, EntryBecomes, JobContinues
  <2> QED BY <2>3, ModulesStay
<1>4. ASSUME NEW j \in Jobs, StagingBegun(j) PROVE ModulesFit'
  <2>1. \A i \in Jobs : ~Unfinished(i) /\ ~Unfinished(i)' /\ Written(i) = {} /\ Written(i)' = {}
    BY <1>4, EntryStays DEF StagingBegun, Unfinished, Written
  <2> SUFFICES ASSUME NEW b \in 0 .. Newest, Counts(b)'
               PROVE  FitsRelease(b)'
    BY DEF ModulesFit
  <2>2. FitsRelease(b)
    BY <1>0, <2>1 DEF Counts, ModulesFit
  <2>3. ASSUME NEW i \in Jobs, journal'[i].state \in Lasting PROVE Spares(i, b)'
    <3>1. journal'[i] = journal[i]
      BY <1>4, <2>3 DEF StagingBegun, Lasting
    <3>2. Spares(i, b)
      BY <2>2, <2>3, <3>1 DEF FitsRelease
    <3> QED BY <3>1, <3>2 DEF Spares, New
  <2> QED BY <1>0, <2>1, <2>2, <2>3 DEF FitsRelease
<1>5. ASSUME NEW j \in Jobs, StagingEnded(j) PROVE ModulesFit'
  <2>1. PICK state \in {"failed", "cancelled"} :
          EntryBecomes(j, state, journal[j].applied, journal[j].oldMetadata, journal[j].metadataApplied)
    BY <1>5 DEF StagingEnded
  <2>2. JournalFits'
    BY DiskJournal
  <2>3. ~Unfinished(j) /\ Written(j) = {}
    BY <1>5 DEF StagingEnded, Unfinished, Written
  <2>4. journal[j].applied = {} /\ ~journal[j].metadataApplied
    BY <1>5 DEF StagingEnded, JournalFits, EntryFits
  <2>5. ~Unfinished(j)' /\ Written(j)' = {}
    BY <2>1, <2>4 DEF EntryBecomes, Unfinished, Written
  <2>6. Untouched(j)
    BY <1>0, <2>3, <2>5, SameUntouched
  <2>7. JobContinues(j)
    BY <1>0, <2>1, <2>3, <2>5, <2>6 DEF EntryBecomes, JobContinues, Lasting
  <2> QED BY <2>7, ModulesStay
<1> QED BY <1>1, <1>2, <1>3, <1>4, <1>5, VerifiedModules DEF DiskMoves

(* A module that is replaced by hand is exempt from then on. *)
EditMoves ==
    /\ UNCHANGED <<metadata, journal, handoff, published, staging, call, superVars>>
    /\ \A f \in Modules : installed'[f] \in {installed[f], HandEdit}

LEMMA EditIs ==
    ASSUME SupervisorInvariant, Edit
    PROVE  EditMoves
<1>1. installed \in [Modules -> Contents]
  BY TypesSplit DEF SupervisorInvariant, UpdateTypeOK
<1> QED BY <1>1 DEF Edit, EditModule, EditMoves

LEMMA EditKeeps ==
    ASSUME SupervisorInvariant, JournalFits, WritesFit, EditMoves
    PROVE  JournalFits' /\ WritesFit' /\ (ModulesFit => ModulesFit')
<1>1. \A i \in Jobs : (Unfinished(i)' <=> Unfinished(i)) /\ (EntryFits(i)' <=> EntryFits(i)) /\ Written(i)' = Written(i)
  BY EntryStays DEF EditMoves, EntryFits, Unfinished
<1>2. JournalFits'
  BY <1>1 DEF JournalFits, EditMoves
<1>3. WritesFit'
  <2>1. CASE call.fn = "idle"
    BY <2>1 DEF WritesFit, EditMoves
  <2>2. CASE call.fn # "idle"
    <3>1. PICK j \in Jobs : j = call.job /\ journal[j].files \subseteq Modules /\ journal[j].applied \subseteq Modules
      <4>1. call.job \in Jobs /\ journal[call.job] \in Entries
        BY <2>2, CallHasJob, TypesSplit DEF SupervisorInvariant, UpdateTypeOK
      <4> QED BY <4>1 DEF Entries
    <3>2. call' = call /\ journal' = journal /\ metadata' = metadata
      BY DEF EditMoves
    <3>3. call.fn = "restore" => call.file \in Modules /\ installed'[call.file] \in {journal[j].old[call.file], HandEdit}
      BY <3>1 DEF WritesFit, EditMoves
    <3>4. AllReplacedBy(j) => AllReplacedBy(j)'
      BY <3>1, <3>2 DEF AllReplacedBy, EditMoves, New
    <3> QED BY <3>1, <3>2, <3>3, <3>4 DEF WritesFit
  <2> QED BY <2>1, <2>2
<1>4. ASSUME ModulesFit PROVE ModulesFit'
  <2> SUFFICES ASSUME NEW b \in 0 .. Newest, Counts(b)'
               PROVE  FitsRelease(b)'
    BY DEF ModulesFit
  <2>1. FitsRelease(b)
    BY <1>1, <1>4 DEF Counts, ModulesFit, EditMoves
  <2> QED BY <1>1, <2>1 DEF FitsRelease, EditMoves, Spares, New
<1> QED BY <1>2, <1>3, <1>4

(* A job that is complete stays as it is, so that what was superseded stays so. *)
LEMMA CompleteStays ==
    ASSUME SupervisorInvariant, JournalFits, WritesFit, CallStep \/ DiskMoves \/ EditMoves,
           NEW i \in Jobs, journal[i].state = "complete"
    PROVE  journal'[i].state = "complete" /\ UNCHANGED <<journal[i].version, journal[i].oldMetadata>>
<1>1. CASE EditMoves
  BY <1>1 DEF EditMoves
<1>2. CASE DiskMoves
  <2>1. CASE SameEntries
    BY <2>1 DEF SameEntries
  <2>2. ASSUME NEW j \in Jobs, CommitBegun(j) \/ KeepsEntry(j) \/ StagingBegun(j) \/ StagingEnded(j)
        PROVE  (i # j /\ journal'[i] = journal[i]) \/ KeepsEntry(j)
    BY <2>2 DEF CommitBegun, EntryBecomes, StagingBegun, StagingEnded
  <2>3. ASSUME NEW j \in Jobs, KeepsEntry(j)
        PROVE  journal'[i].state = "complete" /\ UNCHANGED <<journal[i].version, journal[i].oldMetadata>>
    BY <2>3 DEF KeepsEntry, EntryBecomes
  <2>4. CASE StageVerified(self)
    <3>1. i # staging
      BY <2>4, ModuleUpdateAssumption DEF StageVerified, SupervisorInvariant, JobsAreKnown
    <3>2. \E e : journal' = [journal EXCEPT ![staging] = e]
      BY <2>4 DEF StageVerified, save_job
    <3>3. journal'[i] = journal[i]
      <4>1. journal \in [Jobs -> Entries]
        BY TypesSplit DEF SupervisorInvariant, UpdateTypeOK
      <4> QED BY <3>1, <3>2, <4>1
    <3> QED BY <3>3
  <2> QED BY <1>2, <2>1, <2>2, <2>3, <2>4 DEF DiskMoves
<1>3. CASE CallStep /\ i # call.job
  <2>1. journal'[i] = journal[i]
    BY <1>3, OthersStay
  <2> QED BY <2>1
<1>4. CASE CallStep /\ i = call.job
  <2>1. UpdateTypeOK
    BY <1>4, WriteContext
  <2>2. call.fn \notin {"replace", "write", "roll", "restore", "remark", "baseline", "mark"}
    BY <1>4 DEF WritesFit
  <2>3. ApplyAnswered \/ ApplyRefused \/ ApplyChecked
    BY <1>4, <2>1, <2>2, ReplaceEffects, RollEffects, CommitEffects DEF CallStep
  <2>4. KeepsEntry(i)
    BY <1>4, <2>1, <2>3, ApplyEffects
  <2> QED BY <2>4 DEF KeepsEntry, EntryBecomes
<1> QED BY <1>1, <1>2, <1>3, <1>4

LEMMA DiskInvariantStep ==
    ASSUME SupervisorInvariant, JournalFits, WritesFit, Superseded \/ ModulesFit, [Next]_vars
    PROVE  JournalFits' /\ WritesFit' /\ (Superseded' \/ ModulesFit')
<1>1. (Transact /\ CallStep) \/ (Edit /\ EditMoves) \/ DiskMoves
  <2>1. CASE vars' = vars
    BY <2>1, KeptDisk DEF vars, updateVars
  <2> QED BY <2>1, DiskStep, EditIs DEF Transact
<1>2. Superseded => Superseded'
  BY <1>1, CompleteStays DEF Superseded
<1>3. JournalFits' /\ WritesFit'
  BY <1>1, JournalCall, WritesCall, EditKeeps, DiskJournal, DiskWrites
<1>4. ModulesFit => Superseded' \/ ModulesFit'
  BY <1>1, ModulesCall, EditKeeps, DiskModules
<1> QED BY <1>2, <1>3, <1>4

-----------------------------------------------------------------------------
(* The launcher and the services in the other steps *)

Applying == {"u_stop", "u_prepare", "u_apply", "u_start", "u_commit", "u_undo"}

(* A service is left alone, stopped, or started from what is installed. *)
ServicesMove == \A s \in Group : running'[s] \in {running[s], NotRunning, Signature(s)}

LEMMA RunningStays ==
    ASSUME installed' = installed, \A s \in Group : RunsInstalled(s), ServicesMove
    PROVE  \A s \in Group : RunsInstalled(s)'
<1> SUFFICES ASSUME NEW s \in Group, running'[s] # NotRunning
             PROVE  \A f \in Modules : s \in UsedBy[f] => installed[f] \in {running'[s][f], HandEdit}
  BY DEF RunsInstalled
<1>1. CASE running'[s] = running[s]
  BY <1>1 DEF RunsInstalled
<1>2. CASE running'[s] = Signature(s)
  BY <1>2 DEF Signature
<1> QED BY <1>1, <1>2 DEF ServicesMove

(* A step that ends where no update is applied. *)
Held == sup.phase \in Keeping \/ (sup.phase \in {"finish", "report"} /\ sup.exit = "none")

LEMMA CalmFits ==
    ASSUME RunningFits, installed' = installed, ServicesMove, sup'.phase \notin Applying,
           sup'.phase \in Stopped => running' = Nothing,
           Held' => installed[Launcher] \in {self', HandEdit}
    PROVE  LauncherFits' /\ RunningFits'
<1>1. LauncherFits'
  BY DEF LauncherFits, Held, Applying, LauncherKept
<1>2. \A s \in Group : RunsInstalled(s)'
  BY RunningStays DEF RunningFits
<1> QED BY <1>1, <1>2 DEF RunningFits, Applying

LEMMA HeldIsKept ==
    ASSUME LauncherFits, Held
    PROVE  installed[Launcher] \in {self, HandEdit}
BY DEF LauncherFits, Held, LauncherKept

(* One that ends where nothing runs. *)
LEMMA DownFits ==
    ASSUME RunningFits, installed' = installed, running' = Nothing,
           sup'.phase \in {"down", "pre", "pre_wait", "exec", "exec_wait", "resume_wait", "unwind_wait"}
    PROVE  LauncherFits' /\ RunningFits'
<1>1. ServicesMove
  BY DEF ServicesMove, Nothing
<1>2. ~Held' /\ sup'.phase \notin Applying
  BY DEF Held, Keeping, RestartPhases, Applying
<1> QED BY <1>1, <1>2, CalmFits

LEMMA LeavingFits ==
    ASSUME RunningFits, installed' = installed, NEW e \in Exits, Leave(e)
    PROVE  LauncherFits' /\ RunningFits'
<1>1. sup'.phase \in {"down", "exec"}
  BY LeaveIs DEF SupIs
<1> QED BY <1>1, DownFits DEF Leave, Gone

(* The launcher goes on, where it may rely on what is installed. *)
LEMMA GoesOnFits ==
    ASSUME LauncherFits, RunningFits, installed' = installed, self' = self, ServicesMove, Held,
           sup'.phase \notin Applying, sup'.phase \in Stopped => running' = Nothing
    PROVE  LauncherFits' /\ RunningFits'
BY HeldIsKept, CalmFits

(* A bystander's step. *)
LEMMA AsideFits ==
    ASSUME LauncherFits, RunningFits, UNCHANGED <<installed, self, sup, running, call>>,
           sup.phase \in Applying => journal'[sup.job] = journal[sup.job]
    PROVE  LauncherFits' /\ RunningFits'
<1>1. sup.phase \in Applying =>
        /\ Unfinished(sup.job)' <=> Unfinished(sup.job)
        /\ HasLauncher(sup.job)' <=> HasLauncher(sup.job)
        /\ Written(sup.job)' = Written(sup.job)
        /\ UpdatePlan(sup.job)' = UpdatePlan(sup.job)
  BY DEF Unfinished, HasLauncher, Written, UpdatePlan
<1>2. LauncherFits'
  BY <1>1 DEF LauncherFits, Applying, LauncherKept
<1>3. RunningFits'
  BY <1>1 DEF RunningFits, Applying, RunsInstalled
<1> QED BY <1>2, <1>3

LEMMA StartMoves ==
    ASSUME GroupTypes, NEW s \in Group, NEW with, StartService(s, with)
    PROVE  ServicesMove /\ sup'.phase = sup.phase /\ sup'.plan = sup.plan /\ sup'.job = sup.job /\ sup'.exit = sup.exit
BY DEF StartService, ServicesMove, GroupTypes, SupRecords

LEMMA StopMoves ==
    ASSUME NEW selected, StopServices(selected)
    PROVE  ServicesMove /\ \A s \in selected \cap Group : running'[s] = NotRunning
BY DEF StopServices, ServicesMove

LEMMA SameMoves ==
    ASSUME running' = running
    PROVE  ServicesMove
BY DEF ServicesMove

(* Up to readiness *)
LEMMA RecoveryFits ==
    ASSUME SupervisorInvariant, LauncherFits, RunningFits,
           Boot \/ Pre \/ PreDone \/ Exec \/ ExecFails \/ ExecRestored \/ Recover \/ RecoverDone \/ Recovered
    PROVE  LauncherFits' /\ RunningFits'
<1>1. sup \in SupRecords
  BY TypesSplit DEF SupervisorInvariant, GroupTypes
<1>2. sup.phase \in Stopped => running = Nothing
  BY DEF RunningFits
<1>3. \A p \in Phases : Go(p) => sup'.phase = p
  BY <1>1, GoIs DEF SupIs
<1>4. \A p \in Phases, e \in Exits : \/ sup' = [Down EXCEPT !.exit = e] /\ p = "down"
                                     \/ sup' = [Down EXCEPT !.phase = p]
                                     => sup'.phase = p
  BY DownIs DEF SupIs
<1>5. CASE Boot
  <2>1. sup'.phase \in {"pre", "exec"}
    BY <1>4, <1>5 DEF Boot, Phases, Exits
  <2> QED BY <1>2, <1>5, <2>1, DownFits DEF Boot, At, Stopped, updateVars
<1>6. CASE Pre
  <2>1. sup'.phase \in {"exec", "pre_wait"}
    BY <1>3, <1>6 DEF Pre, Phases
  <2> QED BY <1>2, <1>6, <2>1, DownFits DEF Pre, At, Stopped
<1>7. CASE PreDone
  <2>1. sup'.phase \in {"exec", "down"}
    BY <1>3, <1>4, <1>7 DEF PreDone, Phases, Exits
  <2> QED BY <1>2, <1>7, <2>1, DownFits DEF PreDone, At, Stopped, disk
<1>8. CASE Exec
  <2>1. sup'.phase = "recover" /\ self' = installed[Launcher] /\ running' = Nothing /\ installed' = installed
    BY <1>1, <1>2, <1>8 DEF Exec, At, Stopped, updateVars, SupRecords
  <2>2. ServicesMove
    BY <2>1 DEF ServicesMove, Nothing
  <2> QED BY <2>1, <2>2, CalmFits DEF Applying
<1>9. CASE ExecFails
  <2>1. sup'.phase \in {"exec_wait", "down"}
    BY <1>3, <1>4, <1>9 DEF ExecFails, Phases, Exits
  <2> QED BY <1>2, <1>9, <2>1, DownFits DEF ExecFails, At, Stopped, disk
<1>10. CASE ExecRestored
  <2>1. sup'.phase \in {"exec", "down"}
    BY <1>1, <1>4, <1>10 DEF ExecRestored, Phases, Exits, SupRecords
  <2> QED BY <1>2, <1>10, <2>1, DownFits DEF ExecRestored, At, Stopped, disk
<1>11. CASE Recover \/ Recovered \/ (RecoverDone /\ call.fn = "ok")
  <2>1. sup'.phase \in {"recover_wait", "resume", "recover"} /\ sup.phase \in {"recover", "recover_wait"}
    BY <1>3, <1>11 DEF Recover, RecoverDone, Recovered, At, Phases
  <2>2. UNCHANGED <<installed, self, running>> /\ running = Nothing
    BY <1>2, <1>11, <2>1 DEF Recover, RecoverDone, Recovered, Stopped, disk, updateVars
  <2> QED BY <2>1, <2>2, SameMoves, GoesOnFits DEF Held, Keeping, Applying
<1>12. CASE RecoverDone /\ call.fn # "ok"
  <2>1. Leave("failed") /\ installed' = installed /\ "failed" \in Exits
    BY <1>12 DEF RecoverDone, LeaveUnready, disk, Exits
  <2> QED BY <2>1, LeavingFits
<1> QED BY <1>5, <1>6, <1>7, <1>8, <1>9, <1>10, <1>11, <1>12

(* What is undone before readiness is undone with nothing running. *)
LEMMA UnwindingFits ==
    ASSUME SupervisorInvariant, LauncherFits, RunningFits, StartupFails, installed' = installed
    PROVE  LauncherFits' /\ RunningFits'
<1>1. CASE Leave("failed")
  BY <1>1, LeavingFits DEF Exits
<1>2. CASE ~Leave("failed")
  <2>1. StopServices(Group) /\ sup' = [sup EXCEPT !.phase = "unwind_wait", !.todo = {}]
    BY <1>2 DEF StartupFails, LeaveReady, LeaveUnready
  <2>2. sup \in SupRecords
    BY TypesSplit DEF SupervisorInvariant, GroupTypes
  <2>3. sup'.phase = "unwind_wait"
    BY <2>1, <2>2 DEF SupRecords
  <2>4. running' = Nothing
    BY <2>1 DEF StopServices, Nothing
  <2> QED BY <2>3, <2>4, DownFits
<1> QED BY <1>1, <1>2

LEMMA ResumingFits ==
    ASSUME SupervisorInvariant, LauncherFits, RunningFits, Resume \/ Unwound \/ StartNext \/ StartFails \/ AllStarted
    PROVE  LauncherFits' /\ RunningFits'
<1>1. sup \in SupRecords /\ GroupTypes
  BY TypesSplit DEF SupervisorInvariant, GroupTypes
<1>2. sup.phase \in Stopped => running = Nothing
  BY DEF RunningFits
<1>3. \A p \in Phases : Go(p) => sup'.phase = p
  BY <1>1, GoIs DEF SupIs
<1>4. CASE Resume
  <2>1. UNCHANGED <<installed, self, running>> /\ running = Nothing /\ sup.phase = "resume"
    BY <1>2, <1>4 DEF Resume, At, Stopped, disk
  <2>2. CASE sup'.phase = "resume_wait"
    BY <2>1, <2>2, DownFits
  <2>3. CASE sup'.phase = "start"
    BY <2>1, <2>3, SameMoves, GoesOnFits DEF Held, Keeping, Applying
  <2>4. sup'.phase \in {"resume_wait", "start"}
    BY <1>1, <1>3, <1>4 DEF Resume, SupRecords, Phases
  <2> QED BY <2>2, <2>3, <2>4
<1>5. CASE Unwound
  <2>1. CASE Leave("failed")
    BY <1>5, <2>1, LeavingFits DEF Unwound, disk, Exits
  <2>2. CASE ~Leave("failed")
    <3>1. sup' = [sup EXCEPT !.phase = "finish", !.exit = "relaunch"] /\ UNCHANGED <<installed, running>>
      BY <1>5, <2>2 DEF Unwound, LeaveReady, LeaveUnready, disk
    <3>2. sup'.phase = "finish" /\ sup'.exit = "relaunch"
      BY <1>1, <3>1 DEF SupRecords
    <3> QED BY <3>1, <3>2, SameMoves, CalmFits DEF Held, Keeping, RestartPhases, Applying, Stopped
  <2> QED BY <2>1, <2>2
<1>6. CASE StartNext
  <2>1. PICK s \in sup.todo : StartService(s, active)
    BY <1>6 DEF StartNext
  <2>2. s \in Group
    BY <1>1 DEF SupRecords
  <2>3. ServicesMove /\ sup'.phase = "start" /\ sup.phase = "start" /\ UNCHANGED <<installed, self>>
    BY <1>1, <1>6, <2>1, <2>2, StartMoves DEF StartNext, At, updateVars
  <2> QED BY <2>3, GoesOnFits DEF Held, Keeping, Applying, Stopped
<1>7. CASE StartFails
  BY <1>7, UnwindingFits DEF StartFails, disk
<1>8. CASE AllStarted
  <2>1. sup'.phase = "ready" /\ sup.phase = "start" /\ UNCHANGED <<installed, self, running>>
    BY <1>3, <1>8 DEF AllStarted, At, updateVars, Phases
  <2> QED BY <2>1, SameMoves, GoesOnFits DEF Held, Keeping, Applying, Stopped
<1> QED BY <1>4, <1>5, <1>6, <1>7, <1>8

LEMMA ReadinessFits ==
    ASSUME SupervisorInvariant, LauncherFits, RunningFits,
           Ready \/ Released \/ Acknowledge \/ Acknowledged \/ FinishRelaunch \/ Report
    PROVE  LauncherFits' /\ RunningFits'
<1>1. sup \in SupRecords
  BY TypesSplit DEF SupervisorInvariant, GroupTypes
<1>2. \A p \in Phases : Go(p) => sup'.phase = p /\ sup'.exit = sup.exit
  BY <1>1 DEF Go, SupRecords
<1>3. CASE Ready \/ Released \/ Acknowledge \/ (Acknowledged /\ call.fn = "ok")
  <2>1. sup.phase \in {"ready", "released", "ack", "ack_wait"} /\ UNCHANGED <<installed, self, running>>
    BY <1>3 DEF Ready, Released, Acknowledge, Acknowledged, At, updateVars, disk
  <2>2. sup'.phase \in {"released", "ack", "serve", "finish", "ack_wait"}
    BY <1>1, <1>2, <1>3 DEF Ready, Released, Acknowledge, Acknowledged, Phases, SupRecords
  <2> QED BY <2>1, <2>2, SameMoves, GoesOnFits DEF Held, Keeping, Applying, Stopped
<1>4. CASE Acknowledged /\ call.fn # "ok"
  BY <1>4, UnwindingFits DEF Acknowledged, disk
<1>5. CASE FinishRelaunch
  <2>1. /\ sup.phase = "finish" /\ sup'.phase = "report" /\ sup'.exit = sup.exit
        /\ UNCHANGED <<installed, self, running>>
    BY <1>2, <1>5 DEF FinishRelaunch, At, Phases
  <2>2. Held' => Held
    BY <2>1 DEF Held, Keeping, RestartPhases
  <2> QED BY <2>1, <2>2, HeldIsKept, SameMoves, CalmFits DEF Applying, Stopped
<1>6. CASE Report
  <2>1. CASE Leave(sup.exit)
    BY <1>1, <1>6, <2>1, LeavingFits DEF Report, SupRecords
  <2>2. CASE ~Leave(sup.exit)
    <3>1. sup.exit = "none" /\ sup.phase = "report" /\ UNCHANGED <<installed, self, running>>
      BY <1>6, <2>2 DEF Report, At
    <3>2. sup'.phase = "serve"
      BY <1>6, <3>1, ServeIs DEF Report, SupIs
    <3> QED BY <3>1, <3>2, SameMoves, GoesOnFits DEF Held, Applying, Stopped
  <2> QED BY <2>1, <2>2
<1> QED BY <1>3, <1>4, <1>5, <1>6

(* An update *)
LEMMA WorkFits ==
    ASSUME NEW j \in Jobs, j = sup'.job, UNCHANGED <<installed, self>>, RunningFits, ServicesMove,
           sup'.phase \in Applying, sup'.plan = UpdatePlan(j)',
           sup'.phase \in {"u_stop", "u_prepare", "u_start", "u_commit"} => LauncherKept,
           sup'.phase \in {"u_start", "u_commit"} => ~HasLauncher(j)',
           sup'.phase \in {"u_stop", "u_prepare"} \/ (sup'.phase = "u_apply" /\ call'.fn = "apply") => ~Unfinished(j)',
           sup'.phase \in {"u_apply", "u_undo"} =>
                /\ Launcher \notin Written(j)' => LauncherKept
                /\ Unfinished(j)' /\ HasLauncher(j)' => journal'[j].old[Launcher] \in {self, HandEdit},
           sup'.phase \in {"u_prepare", "u_apply", "u_undo"} => \A s \in sup'.plan : running'[s] = NotRunning
    PROVE  LauncherFits' /\ RunningFits'
<1>1. LauncherKept' <=> LauncherKept
  BY DEF LauncherKept
<1>2. /\ Unfinished(sup.job)' <=> Unfinished(j)'
      /\ HasLauncher(sup.job)' <=> HasLauncher(j)'
      /\ Written(sup.job)' = Written(j)'
      /\ UpdatePlan(sup.job)' = UpdatePlan(j)'
  BY DEF Unfinished, HasLauncher, Written, UpdatePlan
<1>3. LauncherFits'
  BY <1>1, <1>2 DEF LauncherFits, Applying, Keeping, RestartPhases
<1>4. \A s \in Group : RunsInstalled(s)'
  BY RunningStays DEF RunningFits
<1>5. RunningFits'
  BY <1>2, <1>4 DEF RunningFits, Applying, Stopped
<1> QED BY <1>3, <1>5

(* What is known of the job in progress, in a step that leaves it alone. *)
LEMMA SameJob ==
    ASSUME NEW j \in Jobs, journal'[j] = journal[j]
    PROVE  /\ Unfinished(j)' <=> Unfinished(j)
           /\ HasLauncher(j)' <=> HasLauncher(j)
           /\ Written(j)' = Written(j)
           /\ UpdatePlan(j)' = UpdatePlan(j)
BY DEF Unfinished, HasLauncher, Written, UpdatePlan

LEMMA JobInProgress ==
    ASSUME SupervisorInvariant, LauncherFits, RunningFits, sup.phase \in Applying, NEW j, j = sup.job
    PROVE  /\ j \in Jobs /\ sup \in SupRecords /\ GroupTypes /\ sup.plan \subseteq Group
           /\ sup.plan = UpdatePlan(j)
           /\ sup.phase \notin {"u_apply", "u_undo"} => LauncherKept
           /\ sup.phase \in {"u_start", "u_commit"} => ~HasLauncher(j)
           /\ sup.phase \in {"u_stop", "u_prepare"} \/ (sup.phase = "u_apply" /\ call.fn = "apply") => ~Unfinished(j)
           /\ Launcher \notin Written(j) => LauncherKept
           /\ Unfinished(j) /\ HasLauncher(j) => journal[j].old[Launcher] \in {self, HandEdit}
           /\ sup.phase \in {"u_prepare", "u_apply", "u_undo"} => \A s \in sup.plan : running[s] = NotRunning
<1>1. j \in Jobs
  BY ModuleUpdateAssumption DEF SupervisorInvariant, JobsAreKnown, PhasesFit, Settled, Past, Applying, ApplyPhases
<1>2. sup \in SupRecords /\ GroupTypes /\ sup.plan \subseteq Group
  BY TypesSplit DEF SupervisorInvariant, GroupTypes, SupRecords
<1>3. sup.phase \notin {"u_apply", "u_undo"} => LauncherKept
  BY DEF LauncherFits, Applying, Keeping
<1> QED BY <1>1, <1>2, <1>3 DEF LauncherFits, RunningFits, Applying

LEMMA FailingFits ==
    ASSUME SupervisorInvariant, LauncherFits, RunningFits, FailUpdate, sup.phase \in Applying,
           UNCHANGED <<installed, journal, self>>
    PROVE  LauncherFits' /\ RunningFits'
<1>1. PICK j : j = sup.job
  OBVIOUS
<1>2. /\ j \in Jobs /\ sup \in SupRecords /\ sup.plan \subseteq Group /\ sup.plan = UpdatePlan(j)
      /\ Launcher \notin Written(j) => LauncherKept
      /\ Unfinished(j) /\ HasLauncher(j) => journal[j].old[Launcher] \in {self, HandEdit}
  BY <1>1, JobInProgress
<1>3. CASE journal[j].state = "complete"
  <2>1. sup'.phase = "report" /\ running' = running
    BY <1>1, <1>2, <1>3 DEF FailUpdate, Go, SupRecords
  <2>2. LauncherKept
    BY <1>2, <1>3 DEF Written, Unfinished
  <2> QED BY <2>1, <2>2, SameMoves, CalmFits DEF Applying, Stopped, LauncherKept
<1>4. CASE journal[j].state # "complete"
  <2>1. StopServices(sup.plan) /\ sup' = [sup EXCEPT !.phase = "u_undo", !.todo = {}]
    BY <1>1, <1>4 DEF FailUpdate
  <2>2. sup'.phase = "u_undo" /\ sup'.job = j /\ sup'.plan = sup.plan
    BY <1>1, <1>2, <2>1 DEF SupRecords
  <2>3. ServicesMove /\ \A s \in sup.plan : running'[s] = NotRunning
    BY <1>2, <2>1, StopMoves
  <2>4. j = sup'.job /\ sup'.plan = UpdatePlan(j)' /\ sup'.phase \in Applying /\ journal' = journal
    BY <1>2, <2>2, SameJob DEF Applying
  <2> QED BY <1>2, <2>2, <2>3, <2>4, SameJob, WorkFits
<1> QED BY <1>3, <1>4

LEMMA TakingFits ==
    ASSUME SupervisorInvariant, LauncherFits, RunningFits, TakeApply
    PROVE  LauncherFits' /\ RunningFits'
<1>1. PICK j : j = mailbox.update.job
  OBVIOUS
<1>2. j \in Jobs
  BY <1>1 DEF TakeApply, SupervisorInvariant, RequestsAreKnown, Settled, Past
<1>3. sup \in SupRecords
  BY TypesSplit DEF SupervisorInvariant, GroupTypes
<1>4. sup'.phase = "u_stop" /\ sup'.job = j /\ sup'.plan = UpdatePlan(j) /\ UNCHANGED <<installed, journal, self, running>>
  BY <1>1, <1>3 DEF TakeApply, SupRecords, updateVars
<1>5. ~Unfinished(j)
  BY <1>2, ModuleUpdateAssumption DEF SupervisorInvariant, TakeApply, Serving, At, OneUnfinished, PhasesFit, BeforeRecovery
<1>6. LauncherKept
  BY DEF TakeApply, Serving, At, LauncherFits, Keeping
<1> QED BY <1>2, <1>4, <1>5, <1>6, SameJob, SameMoves, WorkFits DEF Applying

LEMMA ApplyingFits ==
    ASSUME SupervisorInvariant, LauncherFits, RunningFits, UStop \/ UFails \/ UPrepare \/ UNotApplied \/ USignal
    PROVE  LauncherFits' /\ RunningFits'
<1>1. PICK j : j = sup.job
  OBVIOUS
<1>2. sup.phase \in Applying
  BY DEF UStop, UFails, UPrepare, UNotApplied, USignal, At, Applying
<1>3. /\ j \in Jobs /\ sup \in SupRecords /\ sup.plan \subseteq Group /\ sup.plan = UpdatePlan(j)
      /\ sup.phase \notin {"u_apply", "u_undo"} => LauncherKept
      /\ sup.phase \in {"u_stop", "u_prepare"} => ~Unfinished(j)
      /\ sup.phase = "u_start" => ~HasLauncher(j)
      /\ sup.phase = "u_prepare" => \A s \in sup.plan : running[s] = NotRunning
  BY <1>1, <1>2, JobInProgress
<1>4. \A p \in Phases : Go(p) => sup'.phase = p /\ sup'.job = j /\ sup'.plan = sup.plan
  BY <1>1, <1>3 DEF Go, SupRecords
<1>5. UNCHANGED <<installed, journal, self>>
  BY DEF UStop, UFails, UPrepare, UNotApplied, USignal, disk
<1>6. /\ Unfinished(j)' <=> Unfinished(j)
      /\ HasLauncher(j)' <=> HasLauncher(j)
      /\ Written(j)' = Written(j)
      /\ UpdatePlan(j)' = UpdatePlan(j)
  BY <1>3, <1>5, SameJob
<1>7. CASE UStop
  <2>1. sup'.phase \in {"u_prepare", "u_apply"} /\ sup'.job = j /\ sup'.plan = sup.plan /\ sup.phase = "u_stop"
    BY <1>4, <1>7 DEF UStop, At, Phases
  <2>2. ServicesMove /\ \A s \in sup.plan : running'[s] = NotRunning
    BY <1>3, <1>7, StopMoves DEF UStop
  <2> QED BY <1>3, <1>5, <1>6, <2>1, <2>2, WorkFits DEF Applying
<1>8. CASE UFails \/ UNotApplied \/ FailUpdate
  BY <1>2, <1>5, <1>8, FailingFits DEF UFails, UNotApplied
<1>9. CASE UPrepare /\ ~FailUpdate
  <2>1. /\ sup'.phase = "u_apply" /\ sup'.job = j /\ sup'.plan = sup.plan /\ sup.phase = "u_prepare"
        /\ running' = running
    BY <1>4, <1>9 DEF UPrepare, At, Phases
  <2> QED BY <1>3, <1>5, <1>6, <2>1, SameMoves, WorkFits DEF Applying
<1>10. CASE USignal
  <2>1. sup' = [sup EXCEPT !.phase = "u_undo", !.exit = "stopped"] /\ sup.phase = "u_start" /\ StopServices(sup.plan)
    BY <1>10 DEF USignal, At
  <2>2. sup'.phase = "u_undo" /\ sup'.job = j /\ sup'.plan = sup.plan
    BY <1>1, <1>3, <2>1 DEF SupRecords
  <2>3. ServicesMove /\ \A s \in sup.plan : running'[s] = NotRunning
    BY <1>3, <2>1, StopMoves
  <2> QED BY <1>3, <1>5, <1>6, <2>1, <2>2, <2>3, WorkFits DEF Applying
<1> QED BY <1>7, <1>8, <1>9, <1>10

LEMMA AppliedFits ==
    ASSUME SupervisorInvariant, JournalFits, LauncherFits, RunningFits,
           UApplied \/ UCommit \/ UCommitted \/ UUndone \/ (UStart /\ sup.phase = "u_start")
    PROVE  LauncherFits' /\ RunningFits'
<1>1. PICK j : j = sup.job
  OBVIOUS
<1>2. sup.phase \in Applying
  BY DEF UApplied, UCommit, UCommitted, UUndone, At, Applying
<1>3. /\ j \in Jobs /\ sup \in SupRecords /\ GroupTypes /\ sup.plan = UpdatePlan(j)
      /\ sup.phase \notin {"u_apply", "u_undo"} => LauncherKept
      /\ sup.phase \in {"u_start", "u_commit"} => ~HasLauncher(j)
      /\ Launcher \notin Written(j) => LauncherKept
  BY <1>1, <1>2, JobInProgress
<1>4. \A p \in Phases : Go(p) => sup'.phase = p /\ sup'.job = j /\ sup'.plan = sup.plan
  BY <1>1, <1>3 DEF Go, SupRecords
<1>5. CASE UApplied /\ ~HasLauncher(j)
  <2>1. /\ sup' = [sup EXCEPT !.phase = "u_start", !.todo = sup.plan]
        /\ UNCHANGED <<installed, journal, self, running>>
    BY <1>1, <1>5 DEF UApplied
  <2>2. sup'.phase = "u_start" /\ sup'.job = j /\ sup'.plan = sup.plan
    BY <1>1, <1>3, <2>1 DEF SupRecords
  <2>3. LauncherKept
    <3>1. EntryFits(j)
      BY <1>3 DEF JournalFits
    <3> QED BY <1>3, <1>5, <3>1 DEF EntryFits, Written, HasLauncher
  <2> QED BY <1>3, <1>5, <2>1, <2>2, <2>3, SameJob, SameMoves, WorkFits DEF Applying
<1>6. CASE UApplied /\ HasLauncher(j)
  BY <1>1, <1>6, LeavingFits DEF UApplied, Exits
<1>7. CASE UCommit
  <2>1. sup'.phase = "u_commit" /\ sup'.job = j /\ sup'.plan = sup.plan /\ sup.phase = "u_start"
        /\ UNCHANGED <<installed, self, running>>
    BY <1>4, <1>7 DEF UCommit, At, Phases
  <2>2. journal'[j].files = journal[j].files
    <3>1. journal \in [Jobs -> Entries] /\ CommitRequest(j)
      BY <1>1, <1>7, TypesSplit DEF SupervisorInvariant, UpdateTypeOK, UCommit
    <3> QED BY <1>3, <3>1, CommitBegins DEF Entries
  <2>3. HasLauncher(j)' <=> HasLauncher(j)
    BY <2>2 DEF HasLauncher
  <2>4. UpdatePlan(j)' = UpdatePlan(j)
    BY <2>2 DEF HasLauncher, UpdatePlan
  <2> QED BY <1>3, <2>1, <2>3, <2>4, SameMoves, WorkFits DEF Applying
<1>8. CASE UCommitted
  <2>1. sup'.phase = "report" /\ sup.phase = "u_commit" /\ UNCHANGED <<installed, self, running>>
    BY <1>4, <1>8 DEF UCommitted, At, Phases, disk
  <2> QED BY <2>1, SameMoves, GoesOnFits DEF Held, Keeping, Applying, Stopped
<1>9. CASE UUndone
  <2>1. sup'.phase = "u_restore" /\ sup.phase = "u_undo" /\ UNCHANGED <<installed, self, running>>
    BY <1>3, <1>9 DEF UUndone, At, SupRecords
  <2>2. journal[j].state = "rolled_back"
    BY <1>1, <1>9 DEF UUndone, At, SupervisorInvariant, CallFits
  <2>3. LauncherKept
    BY <1>3, <2>2 DEF Written, Unfinished
  <2> QED BY <2>1, <2>3, SameMoves, CalmFits DEF Applying, Stopped, LauncherKept
<1>10. CASE UStart /\ sup.phase = "u_start"
  <2>1. PICK s \in sup.todo : StartService(s, conf[s])
    BY <1>10 DEF UStart
  <2>2. s \in Group
    BY <1>3 DEF SupRecords
  <2>3. /\ ServicesMove /\ sup'.phase = "u_start" /\ sup'.job = j /\ sup'.plan = sup.plan
        /\ UNCHANGED <<installed, journal, self>>
    BY <1>1, <1>3, <1>10, <2>1, <2>2, StartMoves DEF UStart, updateVars
  <2> QED BY <1>3, <1>10, <2>3, SameJob, WorkFits DEF Applying
<1> QED BY <1>5, <1>6, <1>7, <1>8, <1>9, <1>10

LEMMA UpdatingFits ==
    ASSUME SupervisorInvariant, JournalFits, LauncherFits, RunningFits, Updating
    PROVE  LauncherFits' /\ RunningFits'
<1>1. sup \in SupRecords /\ GroupTypes
  BY TypesSplit DEF SupervisorInvariant, GroupTypes
<1>2. CASE DownloadEnds \/ TakeStage
  <2>1. UNCHANGED <<installed, self, sup, running, call>> /\ sup.phase = "serve"
    BY <1>2 DEF DownloadEnds, TakeStage, Serving, At, updateVars
  <2> QED BY <2>1, AsideFits DEF Applying
<1>3. CASE TakeApply
  BY <1>3, TakingFits
<1>4. CASE UStop \/ UFails \/ UPrepare \/ UNotApplied
  BY <1>4, ApplyingFits
<1>5. CASE UApplied \/ UCommit \/ UCommitted \/ UUndone
  BY <1>5, AppliedFits
<1>6. CASE UStart
  <2>1. CASE sup.phase = "u_start"
    BY <1>6, <2>1, AppliedFits
  <2>2. CASE sup.phase = "u_restore"
    <3>1. PICK s \in sup.todo : StartService(s, conf[s])
      BY <1>6 DEF UStart
    <3>2. s \in Group
      BY <1>1 DEF SupRecords
    <3>3. ServicesMove /\ sup'.phase = "u_restore" /\ UNCHANGED <<installed, self>>
      BY <1>1, <1>6, <2>2, <3>1, <3>2, StartMoves DEF UStart, updateVars
    <3> QED BY <2>2, <3>3, GoesOnFits DEF Held, Keeping, Applying, Stopped
  <2> QED BY <1>6, <2>1, <2>2 DEF UStart
<1>7. CASE UAbandoned
  BY <1>7, LeavingFits DEF UAbandoned, Exits
<1>8. CASE URestored
  <2>1. sup'.phase = "report" /\ sup.phase = "u_restore" /\ UNCHANGED <<installed, self, running>>
    BY <1>1, <1>8 DEF URestored, At, Go, SupRecords, updateVars
  <2> QED BY <2>1, SameMoves, GoesOnFits DEF Held, Keeping, Applying, Stopped
<1> QED BY <1>2, <1>3, <1>4, <1>5, <1>6, <1>7, <1>8 DEF Updating

LEMMA RestartingFits ==
    ASSUME SupervisorInvariant, LauncherFits, RunningFits, Restarting
    PROVE  LauncherFits' /\ RunningFits'
<1>1. sup \in SupRecords /\ GroupTypes
  BY TypesSplit DEF SupervisorInvariant, GroupTypes
<1> DEFINE Steady == sup.phase \in {"serve", "r_stop", "r_start", "r_restore"} /\ installed' = installed
<1>2. Steady
  BY DEF Restarting, RestartRefused, TakeRestart, RStop, RStart, RFails, RDone, RRestore, RRestored, RAbandoned, Serving, At, updateVars, disk
<1>3. ASSUME sup'.phase \in {"serve", "r_stop", "r_start", "r_restore"}, self' = self, ServicesMove
      PROVE  LauncherFits' /\ RunningFits'
  BY <1>2, <1>3, GoesOnFits DEF Held, Keeping, RestartPhases, Applying, Stopped
<1>4. CASE TakeRestart
  <2>1. sup'.phase \in {"serve", "r_stop"}
    BY <1>1, <1>4 DEF TakeRestart, Serving, At, SupRecords
  <2> QED BY <1>3, <1>4, <2>1, SameMoves DEF TakeRestart
<1>5. CASE RStop
  <2>1. CASE Leave("relaunch")
    BY <1>2, <2>1, LeavingFits DEF Exits
  <2>2. CASE ~Leave("relaunch")
    <3>1. StopServices(sup.plan) /\ sup' = [sup EXCEPT !.phase = "r_start", !.todo = sup.plan] /\ self' = self
      BY <1>5, <2>2 DEF RStop
    <3>2. sup'.phase = "r_start"
      BY <1>1, <3>1 DEF SupRecords
    <3> QED BY <1>3, <3>1, <3>2, StopMoves
  <2> QED BY <2>1, <2>2
<1>6. CASE RStart \/ RRestore
  <2>1. PICK s \in sup.todo : StartService(s, sup.target) \/ StartService(s, previous[s])
    BY <1>6 DEF RStart, RRestore
  <2>2. s \in Group
    BY <1>1 DEF SupRecords
  <2>3. ServicesMove /\ sup'.phase = sup.phase /\ self' = self
    BY <1>1, <1>6, <2>1, <2>2, StartMoves DEF RStart, RRestore
  <2> QED BY <1>2, <1>3, <2>3
<1>7. CASE RFails
  <2>1. PICK s \in sup.plan : /\ StopServices(ToRestore(s))
                              /\ sup' = [sup EXCEPT !.phase = "r_restore", !.todo = ToRestore(s)]
    BY <1>7 DEF RFails
  <2>2. sup'.phase = "r_restore" /\ self' = self
    BY <1>1, <1>7, <2>1 DEF RFails, SupRecords
  <2> QED BY <1>3, <2>1, <2>2, StopMoves
<1>8. CASE RDone \/ RRestored
  <2>1. sup'.phase = "serve" /\ UNCHANGED <<self, running>>
    BY <1>8, ServeIs DEF RDone, RRestored, SupIs
  <2> QED BY <1>3, <2>1, SameMoves
<1>9. CASE RAbandoned \/ RestartRefused
  BY <1>2, <1>9, LeavingFits DEF RAbandoned, RestartRefused, LeaveReady, Exits
<1> QED BY <1>4, <1>5, <1>6, <1>7, <1>8, <1>9 DEF Restarting

(* The download thread and the administrators have their own job. *)
LEMMA OthersFit ==
    ASSUME SupervisorInvariant, LauncherFits, RunningFits, Download \/ Administer \/ (Disturb /\ ~Edit)
    PROVE  LauncherFits' /\ RunningFits'
<1>1. CASE Download
  <2>1. UNCHANGED <<installed, self, sup, running, call>>
    BY <1>1 DEF Download, StageVerified, StageFails, superVars
  <2>2. staging # NoJob /\ \E e : journal' = [journal EXCEPT ![staging] = e]
    BY <1>1 DEF Download, StageVerified, StageFails, State, save_job
  <2>3. sup.phase \in Applying => sup.job \in Jobs /\ sup.job # staging
    BY <2>2, JobInProgress DEF SupervisorInvariant, JobsAreKnown, Settled, Past
  <2>4. sup.phase \in Applying => journal'[sup.job] = journal[sup.job]
    <3>1. journal \in [Jobs -> Entries]
      BY TypesSplit DEF SupervisorInvariant, UpdateTypeOK
    <3> QED BY <2>2, <2>3, <3>1
  <2> QED BY <2>1, <2>4, AsideFits
<1>2. CASE Administer \/ (Publish /\ UNCHANGED superVars) \/ \E c \in Configs : SaveConfig(c)
  <2>1. UNCHANGED <<installed, self, sup, running, call, journal>>
    BY <1>2 DEF Administer, AskStage, AskApply, AskRestart, Ask, Reserve, Post, PostFails, Publish, SaveConfig,
                disk, updateVars, superVars
  <2> QED BY <2>1, AsideFits
<1>3. CASE Kill
  <2>1. sup' = [Down EXCEPT !.exit = "failed"] /\ running' = Nothing /\ installed' = installed
    BY <1>3 DEF Kill, Gone, diskVars
  <2>2. sup'.phase = "down"
    BY <2>1 DEF Down
  <2> QED BY <2>1, <2>2, DownFits
<1>4. CASE StartStopped \/ RSignal \/ ServiceDies \/ Shutdown
  <2>1. installed' = installed /\ \E e \in Exits : Leave(e)
    BY <1>4 DEF StartStopped, RSignal, ServiceDies, LeaveReady, Shutdown, Exits, disk
  <2> QED BY <2>1, LeavingFits
<1>5. CASE USignal
  BY <1>5, ApplyingFits
<1> QED BY <1>1, <1>2, <1>3, <1>4, <1>5 DEF Disturb

LEMMA EditFits ==
    ASSUME SupervisorInvariant, LauncherFits, RunningFits, EditMoves
    PROVE  LauncherFits' /\ RunningFits'
<1>1. /\ installed'[Launcher] \in {installed[Launcher], HandEdit}
      /\ UNCHANGED <<journal, call, sup, self, running>>
  BY ModuleUpdateAssumption DEF EditMoves, superVars
<1>2. LauncherFits'
  BY <1>1 DEF LauncherFits, LauncherKept, Unfinished, HasLauncher, Written
<1>3. \A s \in Group : RunsInstalled(s)'
  BY <1>1 DEF RunningFits, RunsInstalled, EditMoves
<1> QED BY <1>1, <1>2, <1>3 DEF RunningFits, UpdatePlan, HasLauncher

LEMMA LaunchStep ==
    ASSUME SupervisorInvariant, JournalFits, WritesFit, LauncherFits, RunningFits, [Next]_vars
    PROVE  LauncherFits' /\ RunningFits'
<1>1. CASE UNCHANGED vars
  <2>1. UNCHANGED <<installed, self, sup, running, call, journal>>
    BY <1>1 DEF vars, updateVars, superVars
  <2> QED BY <2>1, AsideFits
<1>2. CASE Edit
  BY <1>2, EditIs, EditFits
<1>3. CASE StartUp
  BY <1>3, RecoveryFits, ResumingFits, ReadinessFits DEF StartUp
<1> QED BY <1>1, <1>2, <1>3, RecoveryFits, UpdatingFits, RestartingFits, OthersFit, LauncherCall, RunningCall
        DEF Next, Launching

-----------------------------------------------------------------------------
(* The theorems about releases *)

LEMMA ReleaseInit ==
    ASSUME Init
    PROVE  ReleaseInvariant
<1>1. /\ \A j \in Jobs : journal[j] = NoEntry
      /\ metadata = 0 /\ installed = Build[1] /\ call.fn = "idle" /\ staging = NoJob
      /\ sup.phase = "down" /\ running = Nothing /\ 1 \in Releases
  BY ModuleUpdateAssumption DEF Init, UpdateInit, Idle, Down, Releases
<1>2. \A j \in Jobs : /\ ~Unfinished(j) /\ Written(j) = {} /\ journal[j].state \notin Lasting /\ EntryFits(j)
  BY <1>1 DEF NoEntry, Unfinished, Written, Lasting, EntryFits
<1>3. JournalFits /\ WritesFit
  BY <1>1, <1>2 DEF JournalFits, WritesFit
<1>4. ModulesFit
  BY <1>1, <1>2 DEF ModulesFit, FitsRelease, Counts, ReleaseOf
<1>5. LauncherFits /\ RunningFits
  BY <1>1 DEF LauncherFits, RunningFits, RunsInstalled, Nothing, Keeping, RestartPhases
<1> QED BY <1>3, <1>4, <1>5 DEF ReleaseInvariant

LEMMA ReleaseStep ==
    ASSUME SupervisorInvariant, ReleaseInvariant, [Next]_vars
    PROVE  ReleaseInvariant'
BY DiskInvariantStep, LaunchStep DEF ReleaseInvariant

(* Whatever is interrupted, fails or goes back, the journal says which modules
   an update may have replaced, every other one is of the release that the
   baseline names, and what a service runs is installed (apply_staged_update,
   rollback_staged_update, commit_staged_update, recover_launcher_update).   *)
THEOREM ModulesAreAccountedFor == Spec => []ReleaseInvariant
<1>1. Init => SupervisorInvariant /\ ReleaseInvariant
  BY InitHolds, ReleaseInit
<1>2. SupervisorInvariant /\ ReleaseInvariant /\ [Next]_vars => (SupervisorInvariant /\ ReleaseInvariant)'
  BY InvariantStep, ReleaseStep
<1> QED BY <1>1, <1>2, PTL DEF Spec

(* The group serves with the modules of one release, the launcher being the one
   that runs, and with services started from what is installed.              *)
THEOREM ServedAsOneRelease == Spec => []ServedByOneRelease
<1>1. SupervisorInvariant /\ ReleaseInvariant => ServedByOneRelease
  <2> SUFFICES ASSUME SupervisorInvariant, ReleaseInvariant, At("serve")
               PROVE  /\ Superseded \/ \A f \in Modules : installed[f] \in {Build[Release][f], HandEdit}
                      /\ installed[Launcher] \in {self, HandEdit}
                      /\ \A s \in Group : running[s] # NotRunning =>
                          \A f \in Modules : s \in UsedBy[f] => installed[f] \in {running[s][f], HandEdit}
    BY DEF ServedByOneRelease
  <2>1. \A j \in Jobs : ~Unfinished(j) /\ Written(j) = {}
    BY ModuleUpdateAssumption DEF SupervisorInvariant, At, OneUnfinished, PhasesFit, BeforeRecovery, Written
  <2>2. metadata \in 0 .. Newest /\ Release = ReleaseOf(metadata)
    BY TypesSplit DEF SupervisorInvariant, UpdateTypeOK, Release, ReleaseOf
  <2>3. ModulesFit => FitsRelease(metadata)
    BY <2>1, <2>2 DEF ModulesFit, Counts
  <2>4. Superseded \/ \A f \in Modules : installed[f] \in {Build[Release][f], HandEdit}
    BY <2>1, <2>2, <2>3 DEF ReleaseInvariant, FitsRelease
  <2>5. installed[Launcher] \in {self, HandEdit}
    BY DEF ReleaseInvariant, LauncherFits, LauncherKept, At, Keeping
  <2>6. \A s \in Group : RunsInstalled(s)
    BY DEF ReleaseInvariant, RunningFits
  <2> QED BY <2>4, <2>5, <2>6 DEF RunsInstalled
<1> QED BY <1>1, SupervisorIsConsistent, ModulesAreAccountedFor, PTL
=============================================================================
