----------------------------- MODULE ConfigFile -----------------------------
(***************************************************************************)
(* How every program replaces the configuration file (replace_config_file): *)
(* under a lock file shared by all processes, the file is compared with the *)
(* contents the caller started from, the new contents are written beside it, *)
(* the file is compared again and the new one is renamed over it.  An       *)
(* administrator with a text editor takes no lock.                          *)
(***************************************************************************)
EXTENDS Naturals

CONSTANT Replacers      \* the callers
VARIABLES file,         \* the contents of the configuration file
          lockedBy,     \* set of the callers that hold its lock: at most one
          replacing     \* caller -> its call in progress

Call(at, expected, replacement) ==
    [at |-> at, expected |-> expected, replacement |-> replacement]
NoCall(contents) == Call("none", contents, contents)

InCall(w) == replacing[w].at # "none"
Moved(w, at) == replacing' = [replacing EXCEPT ![w].at = at]

-----------------------------------------------------------------------------
Begin(w, expected, replacement) ==
    /\ ~InCall(w)
    /\ replacing' = [replacing EXCEPT ![w] = Call("begun", expected, replacement)]
    /\ UNCHANGED <<file, lockedBy>>

(* Mutant: the lock is taken while another caller holds it. *)
Compare(w) ==
    /\ replacing[w].at = "begun"
    /\ file = replacing[w].expected
    /\ Moved(w, "compared")
    /\ UNCHANGED <<file, lockedBy>>

(* ConfigLock blocks until the holder leaves; the file must be the expected one. *)
LockAndCompare(w) ==
    /\ replacing[w].at = "begun"
    /\ lockedBy = {}
    /\ IF file = replacing[w].expected
         THEN lockedBy' = {w} /\ Moved(w, "compared")
         ELSE lockedBy' = {} /\ Moved(w, "refused")
    /\ UNCHANGED file

(* private_write of the new file and of a backup of the old, then the second comparison. *)
WriteAndCompare(w) ==
    /\ replacing[w].at = "compared"
    /\ IF file = replacing[w].expected
         THEN Moved(w, "confirmed") /\ UNCHANGED lockedBy
         ELSE Moved(w, "refused") /\ lockedBy' = lockedBy \ {w}
    /\ UNCHANGED file

RenameOver(w) ==
    /\ replacing[w].at = "confirmed"
    /\ file' = replacing[w].replacement
    /\ lockedBy' = lockedBy \ {w}
    /\ Moved(w, "replaced")

(* The lock, the writes or the rename fail. *)
IOError(w) ==
    /\ replacing[w].at \in {"begun", "compared", "confirmed"}
    /\ Moved(w, "refused")
    /\ lockedBy' = lockedBy \ {w}
    /\ UNCHANGED file

(* Calls that end with their process, or are answered; the lock goes with them. *)
Forget(ws, contents) ==
    /\ replacing' = [w \in Replacers |-> IF w \in ws THEN NoCall(contents) ELSE replacing[w]]
    /\ lockedBy' = lockedBy \ ws
    /\ UNCHANGED file

Replace(w) == LockAndCompare(w) \/ WriteAndCompare(w) \/ RenameOver(w) \/ IOError(w)
=============================================================================
