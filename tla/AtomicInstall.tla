---------------------------- MODULE AtomicInstall ----------------------------
(* How the binaries of one crate are put into the directory of executables
   (crates/atomic-file-install, crates/binstalk-bins), by processes that do not
   know of one another, as with --no-track.  Each may fail, or be killed, at any
   step, and what it was copying is left behind by one that is killed. *)
EXTENDS DirectoryEntries, Sequences

CONSTANTS
  Installer, \* processes that install a version of the crate
  B,         \* the number of its binaries; a resolution has at least one
  Version

ASSUME BAssumption == B \in Nat \ {0}
ASSUME VersionAssumption == Version \subseteq Nat \ {0}

VARIABLES
  os,      \* "unix" or "windows"
  job,     \* what each installer has been asked to do
  pc,      \* what it is doing: step, replace, temp, copy, persist, done, stopped
  pos,     \* which of its names it is placing
  moving,  \* whether it takes the file with a version instead of linking to it
  package, \* the binaries still in its temporary directory
  tmp,     \* its temporary file in the directory of executables
  dir      \* the directory

vars == <<os, job, pc, pos, moving, package, tmp, dir>>

Bin == 1..B
Partial == [kind |-> "partial", ver |-> 0]

Init ==
  /\ os \in {"unix", "windows"}
  /\ job \in [Installer -> Job(Version)]
  /\ dir \in Before(Bin, Version)
  /\ pc = [p \in Installer |-> "step"]
  /\ pos = [p \in Installer |-> 1]
  /\ moving = [p \in Installer |-> FALSE]
  /\ package = [p \in Installer |-> Bin]
  /\ tmp = [p \in Installer |-> Absent]

-----------------------------------------------------------------------------
(* ResolutionFetch::install_inner: every file, then every link. *)

(* Mutant: each link right after its file. *)
StepsByBinary(j) ==
  IF j.symlinks
  THEN [k \in 1..(2 * B) |->
          LET b == (k + 1) \div 2 IN IF k % 2 = 1 THEN FileName(j, b) ELSE Plain(b)]
  ELSE [k \in 1..B |-> FileName(j, k)]

Steps(j) ==
  [k \in 1..B |-> FileName(j, k)]
    \o IF j.symlinks THEN [k \in 1..B |-> Plain(k)] ELSE <<>>

Dst(p) == Steps(job[p])[pos[p]]
Src(p) == FileName(job[p], Dst(p)[1]) \* when moving
Links(p) == job[p].symlinks /\ Dst(p)[2] = 0 /\ ~moving[p]

Advance(p) ==
  /\ pos' = [pos EXCEPT ![p] = @ + 1]
  /\ pc' = [pc EXCEPT ![p] = IF pos[p] = Len(Steps(job[p])) THEN "done" ELSE "step"]
  /\ moving' = [moving EXCEPT ![p] = FALSE]

SourceExists(p) == IF moving[p] THEN dir[Src(p)] # Absent ELSE Dst(p)[1] \in package[p]

-----------------------------------------------------------------------------
(* atomic_install and atomic_install_noclobber *)

(* fs::rename, or ReplaceFileW on Windows, which wants something to replace. *)
Rename(p) ==
  /\ pc[p] \in {"step", "replace"} /\ ~Links(p) /\ job[p].overwrite /\ SourceExists(p)
  /\ pc[p] = "replace" => dir[Dst(p)] # Absent
  /\ IF moving[p]
     THEN /\ dir' = [dir EXCEPT ![Dst(p)] = File(job[p].ver), ![Src(p)] = Absent]
          /\ UNCHANGED package
     ELSE /\ dir' = [dir EXCEPT ![Dst(p)] = File(job[p].ver)]
          /\ package' = [package EXCEPT ![p] = @ \ {Dst(p)[1]}]
  /\ Advance(p)
  /\ UNCHANGED <<os, job, tmp>>

(* Another file system, or a file in use. *)
RenameFails(p) ==
  /\ pc[p] \in {"step", "replace"} /\ ~Links(p) /\ job[p].overwrite
  /\ pc' = [pc EXCEPT ![p] = IF os = "windows" /\ pc[p] = "step" THEN "replace" ELSE "temp"]
  /\ UNCHANGED <<os, job, pos, moving, package, tmp, dir>>

Copies(p) == pc[p] = "temp" \/ (pc[p] = "step" /\ ~Links(p) /\ ~job[p].overwrite)

(* Mutant: the destination itself is written. *)
CopyInPlace(p) ==
  /\ Copies(p)
  /\ SourceExists(p)
  /\ dir' = [dir EXCEPT ![Dst(p)] = Partial]
  /\ pc' = [pc EXCEPT ![p] = "copy"]
  /\ UNCHANGED <<os, job, pos, moving, package, tmp>>

(* copy_to_tempfile *)
CopyToTempfile(p) ==
  /\ Copies(p)
  /\ SourceExists(p)
  /\ tmp' = [tmp EXCEPT ![p] = Partial]
  /\ pc' = [pc EXCEPT ![p] = "copy"]
  /\ UNCHANGED <<os, job, pos, moving, package, dir>>

Copied(p) ==
  /\ pc[p] = "copy"
  /\ tmp' = [tmp EXCEPT ![p] = File(job[p].ver)]
  /\ pc' = [pc EXCEPT ![p] = "persist"]
  /\ UNCHANGED <<os, job, pos, moving, package, dir>>

Persist(p) ==
  /\ pc[p] = "persist"
  /\ job[p].overwrite \/ dir[Dst(p)] = Absent
  /\ dir' = [dir EXCEPT ![Dst(p)] = tmp[p]]
  /\ tmp' = [tmp EXCEPT ![p] = Absent]
  /\ Advance(p)
  /\ UNCHANGED <<os, job, package>>

-----------------------------------------------------------------------------
(* atomic_symlink_file and atomic_symlink_file_noclobber *)

TempSymlink(p) ==
  /\ pc[p] = "step" /\ Links(p) /\ job[p].overwrite
  /\ tmp' = [tmp EXCEPT ![p] = Link(job[p].ver)]
  /\ pc' = [pc EXCEPT ![p] = "persist"]
  /\ UNCHANGED <<os, job, pos, moving, package, dir>>

SymlinkNoclobber(p) ==
  /\ pc[p] = "step" /\ Links(p) /\ ~job[p].overwrite /\ dir[Dst(p)] = Absent
  /\ dir' = [dir EXCEPT ![Dst(p)] = Link(job[p].ver)]
  /\ Advance(p)
  /\ UNCHANGED <<os, job, package, tmp>>

(* Windows may refuse a symlink: dest is then installed at link as a package is
   at dest. *)
SymlinkFails(p) ==
  /\ os = "windows" /\ pc[p] = "step" /\ Links(p)
  /\ moving' = [moving EXCEPT ![p] = TRUE]
  /\ UNCHANGED <<os, job, pc, pos, package, tmp, dir>>

-----------------------------------------------------------------------------

Over == {"done", "stopped"}

(* Whatever fails, the temporary file is dropped and the rest not installed. *)
Fail(p) ==
  /\ pc[p] \notin Over
  /\ pc' = [pc EXCEPT ![p] = "stopped"]
  /\ tmp' = [tmp EXCEPT ![p] = Absent]
  /\ UNCHANGED <<os, job, pos, moving, package, dir>>

Die(p) ==
  /\ pc[p] \notin Over
  /\ pc' = [pc EXCEPT ![p] = "stopped"]
  /\ UNCHANGED <<os, job, pos, moving, package, tmp, dir>>

Terminated == (\A p \in Installer : pc[p] \in Over) /\ UNCHANGED vars

Next ==
  \/ \E p \in Installer :
       \/ Rename(p) \/ RenameFails(p) \/ CopyToTempfile(p) \/ Copied(p) \/ Persist(p)
       \/ TempSymlink(p) \/ SymlinkNoclobber(p) \/ SymlinkFails(p)
       \/ Fail(p) \/ Die(p)
  \/ Terminated

Spec == Init /\ [][Next]_vars

-----------------------------------------------------------------------------
(* Properties *)

Entry == {Absent} \cup {File(v) : v \in Version} \cup {Link(v) : v \in Version}

TypeOK ==
  /\ os \in {"unix", "windows"} /\ job \in [Installer -> Job(Version)]
  /\ pc \in [Installer -> {"step", "replace", "temp", "copy", "persist"} \cup Over]
  /\ moving \in [Installer -> BOOLEAN] /\ package \in [Installer -> SUBSET Bin]
  /\ tmp \in [Installer -> Entry \cup {Partial}]
  /\ dir \in [Bin \X (Version \cup {0}) -> Entry]
  /\ \A p \in Installer :
       /\ pos[p] \in 1..(Len(Steps(job[p])) + 1)
       /\ pc[p] = "done" <=> pos[p] = Len(Steps(job[p])) + 1
       /\ pc[p] = "persist" => tmp[p] \in Entry \ {Absent}

D == INSTANCE InstallDirectory

(* At every name there is one whole entry after the other, an existing one is
   not replaced without --force, and links come after all files: whatever
   fails, is killed or runs at the same time. *)
EntriesReplacedWhole == D!Spec

(* Where symlinks do not fail, a link leads to a file, and the version it leads
   to is there with all its binaries. *)
LinkedVersionWhole ==
  os = "unix" =>
    \A b \in Bin, v \in Version :
      dir[Plain(b)] = Link(v) => \A c \in Bin : dir[Versioned(c, v)] = File(v)
=============================================================================
