-------------------------- MODULE InstallDirectory --------------------------
(* What several installers promise about the directory of executables: a name
   changes from one whole entry to another in one step, an installer that must
   not overwrite never does, and the names without a version are linked only
   when all the files of that version have been placed. *)
EXTENDS DirectoryEntries

CONSTANTS
  Installer, \* processes that install a version of one crate
  B,         \* the number of its binaries
  Version

VARIABLES
  os,   \* "unix" or "windows"
  job,  \* what each installer has been asked to do
  dir,  \* the directory
  pos   \* how many names each installer has placed, plus one

vars == <<os, job, dir, pos>>

Init ==
  /\ os \in {"unix", "windows"}
  /\ job \in [Installer -> Job(Version)]
  /\ dir \in Before(1..B, Version)
  /\ pos = [p \in Installer |-> 1]

(* The next name gets the entry e; nothing else changes but the names in Gone. *)
Put(p, n, e, Gone) ==
  /\ job[p].overwrite \/ dir[n] = Absent
  /\ dir' = [m \in DOMAIN dir |-> IF m = n THEN e ELSE IF m \in Gone THEN Absent ELSE dir[m]]
  /\ pos' = [pos EXCEPT ![p] = @ + 1]
  /\ UNCHANGED <<os, job>>

PutFile(p) ==
  /\ pos[p] <= B
  /\ Put(p, FileName(job[p], pos[p]), File(job[p].ver), {})

Linking(p) == job[p].symlinks /\ pos[p] \in (B + 1)..(2 * B)

PutLink(p) == Linking(p) /\ Put(p, Plain(pos[p] - B), Link(job[p].ver), {})

(* Windows may not permit symlinks: then the name without a version becomes a
   file, and the one with it may be gone in the same step. *)
PutInstead(p) ==
  /\ os = "windows" /\ Linking(p)
  /\ LET b == pos[p] - B IN
     \/ Put(p, Plain(b), File(job[p].ver), {})
     \/ job[p].overwrite /\ Put(p, Plain(b), File(job[p].ver), {FileName(job[p], b)})

Next == \E p \in Installer : PutFile(p) \/ PutLink(p) \/ PutInstead(p)

Spec == Init /\ [][Next]_vars
=============================================================================
