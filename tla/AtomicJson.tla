------------------------------ MODULE AtomicJson ------------------------------
(***************************************************************************)
(* Write-LocalYarnJson of verification-session.ps1, called by several      *)
(* processes for one path: write a temporary file, put it in the place of  *)
(* the document, and remove what is left behind.                           *)
(*                                                                         *)
(* [System.IO.File]::Replace belongs to Windows: it moves the old document *)
(* to the backup name and then the new one to the document's name, so a    *)
(* reader may find the name empty in between.  It may also fail after the  *)
(* first move and leave the old document at the backup name only (fault    *)
(* "unmoved").  The names carry a GUID, so no two calls share one.         *)
(***************************************************************************)
CONSTANTS Call, Absent,
          Partial,  \* what an unfinished WriteAllText has written
          Faults    \* subset of {"crash", "stuck", "unmoved"}

ASSUME ContentAssumption == Absent \notin Call /\ Partial \notin Call /\ Absent # Partial
ASSUME FaultsAssumption == Faults \subseteq {"crash", "stuck", "unmoved"}

VARIABLES
    pc,        \* the next step of each call
    doc,       \* the file at $Path
    temp,      \* the file at $temporaryPath of each call
    backup,    \* the file at $backupPath of each call
    moved,     \* history: the call that last moved a document to its backup
    applied    \* history: the calls whose file has become the document

vars == <<pc, doc, temp, backup, moved, applied>>

Content == Call \union {Absent, Partial}
Step == {"idle", "write", "test", "move", "replace", "replacing", "finally",
         "done", "stuck", "crashed"}

TypeOK ==
    /\ pc \in [Call -> Step]
    /\ doc \in Content
    /\ temp \in [Call -> Content]
    /\ backup \in [Call -> Content]
    /\ moved \in Call \union {Absent}
    /\ applied \in SUBSET Call

Init ==
    /\ pc = [c \in Call |-> "idle"]
    /\ doc = Absent
    /\ temp = [c \in Call |-> Absent]
    /\ backup = [c \in Call |-> Absent]
    /\ moved = Absent
    /\ applied = {}

Goto(c, from, to) == pc[c] = from /\ pc' = [pc EXCEPT ![c] = to]

Open(c) ==
    /\ Goto(c, "idle", "write")
    /\ temp' = [temp EXCEPT ![c] = Partial]
    /\ UNCHANGED <<doc, backup, moved, applied>>

\* The error of a WriteAllText that does not finish ends the try block.
WriteAllText(c) ==
    /\ \/ Goto(c, "write", "test") /\ temp' = [temp EXCEPT ![c] = c]
       \/ Goto(c, "write", "finally") /\ UNCHANGED temp
    /\ UNCHANGED <<doc, backup, moved, applied>>

TestPath(c) ==
    /\ Goto(c, "test", IF doc = Absent THEN "move" ELSE "replace")
    /\ UNCHANGED <<doc, temp, backup, moved, applied>>

\* The file of call c becomes the document.
Place(c) ==
    /\ doc' = temp[c]
    /\ temp' = [temp EXCEPT ![c] = Absent]
    /\ applied' = applied \union {c}

\* File.Move does not overwrite.
Move(c) ==
    /\ Goto(c, "move", "finally")
    /\ \/ doc = Absent /\ Place(c)
       \/ UNCHANGED <<doc, temp, applied>>
    /\ UNCHANGED <<backup, moved>>

\* The two halves of File.Replace.  A failure of the first changes nothing.
ReplaceOld_NoBackup(c) ==
    /\ Goto(c, "replace", "replacing")
    /\ doc' = Absent
    /\ UNCHANGED <<temp, backup, moved, applied>>
ReplaceOld(c) ==
    /\ \/ /\ Goto(c, "replace", "replacing")
          /\ doc # Absent
          /\ backup' = [backup EXCEPT ![c] = doc]
          /\ doc' = Absent
          /\ moved' = c
       \/ /\ Goto(c, "replace", "finally")
          /\ UNCHANGED <<doc, backup, moved>>
    /\ UNCHANGED <<temp, applied>>

ReplaceNew(c) ==
    /\ Goto(c, "replacing", "finally")
    /\ \/ Place(c)
       \/ doc # Absent /\ UNCHANGED <<doc, temp, applied>>
       \/ "unmoved" \in Faults /\ UNCHANGED <<doc, temp, applied>>
    /\ UNCHANGED <<backup, moved>>

\* Remove-Item of the backup after a replacement, and the finally block.  A
\* file that cannot be removed is left silently.
Finally_NoBackup(c) ==
    /\ Goto(c, "finally", "done")
    /\ temp' = [temp EXCEPT ![c] = Absent]
    /\ backup' = [backup EXCEPT ![c] = IF c \in applied THEN Absent ELSE @]
    /\ UNCHANGED <<doc, moved, applied>>
Finally(c) ==
    /\ \/ /\ Goto(c, "finally", "done")
          /\ temp' = [temp EXCEPT ![c] = Absent]
          /\ backup' = [backup EXCEPT ![c] = Absent]
       \/ /\ "stuck" \in Faults
          /\ Goto(c, "finally", "stuck")
          /\ \/ temp' = [temp EXCEPT ![c] = Absent] /\ UNCHANGED backup
             \/ backup' = [backup EXCEPT ![c] = Absent] /\ UNCHANGED temp
             \/ UNCHANGED <<temp, backup>>
    /\ UNCHANGED <<doc, moved, applied>>

\* The process is killed; the finally block may have removed the temporary
\* file already.
Crash(c) ==
    /\ "crash" \in Faults
    /\ pc[c] \notin {"idle", "done", "stuck", "crashed"}
    /\ pc' = [pc EXCEPT ![c] = "crashed"]
    /\ \/ UNCHANGED temp
       \/ pc[c] = "finally" /\ temp' = [temp EXCEPT ![c] = Absent]
    /\ UNCHANGED <<doc, backup, moved, applied>>

Next ==
    \E c \in Call :
        \/ Open(c) \/ WriteAllText(c) \/ TestPath(c) \/ Move(c)
        \/ ReplaceOld(c) \/ ReplaceNew(c) \/ Finally(c) \/ Crash(c)

Spec == Init /\ [][Next]_vars

-----------------------------------------------------------------------------
(* What a process that looks for the document, or for the backup of the    *)
(* replacement under way, would find.                                      *)

Newest == IF doc # Absent \/ moved = Absent THEN doc ELSE backup[moved]

Register == INSTANCE AtomicDocument WITH document <- Newest

\* However the calls interleave, and wherever they are killed, they act on
\* one register: each takes effect once and whole or not at all, and what one
\* has written is never lost, though it may have to be read from a backup.
ImplementsRegister == Register!Spec

\* A reader never finds an unfinished document, not even from a call whose
\* disk ran full or whose process was killed.
NeverTorn == doc # Partial

\* A call that ends, on whatever path, leaves no file of its own behind unless
\* the file cannot be removed.
LeavesNothing ==
    \A c \in Call : pc[c] = "done" => temp[c] = Absent /\ backup[c] = Absent

\* "Verification JSON updates are atomically replaced": once a document has
\* been written and every call has ended without being killed, it is there.
DocumentKept ==
    applied # {} /\ (\A c \in Call : pc[c] \in {"idle", "done"}) => doc # Absent

\* The inductive strengthening: what a call may place is its own document, and
\* the only copy of a document lies in the backup of a call that has not come
\* to its finally block.
PlacesOwn ==
    \A c \in Call :
        /\ pc[c] \in {"test", "move", "replace", "replacing"} => temp[c] = c
        /\ pc[c] \in {"idle", "write", "test", "move", "replace", "replacing"} =>
               c \notin applied
OnlyCopySafe ==
    /\ doc = Absent /\ moved # Absent => pc[moved] \in {"replacing", "crashed"}
    /\ doc = Absent /\ moved = Absent => applied = {}
    /\ \A c \in Call : backup[c] # Partial
IInv == TypeOK /\ NeverTorn /\ PlacesOwn /\ OnlyCopySafe
=============================================================================
