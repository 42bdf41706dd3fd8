-------------------------- MODULE DirectoryEntries --------------------------
(* The names and entries of the directory of executables.  A binary b of
   version v is the file b-v; b is a link to it, or a file itself. *)
EXTENDS Naturals

Plain(b) == <<b, 0>>
Versioned(b, v) == <<b, v>>

Absent == [kind |-> "absent", ver |-> 0]
File(v) == [kind |-> "file", ver |-> v]
Link(v) == [kind |-> "link", ver |-> v]

(* What an installer is asked to do: --force or tracking lets it overwrite. *)
Job(Version) == [ver : Version, overwrite : BOOLEAN, symlinks : BOOLEAN]

(* BinFile::new: dest, under a name with the version if there are symlinks. *)
FileName(j, b) == IF j.symlinks THEN Versioned(b, j.ver) ELSE Plain(b)

(* The directory is empty, or some version has been installed with links. *)
Before(Bin, Version) ==
  LET Name == Bin \X (Version \cup {0}) IN
  {[n \in Name |-> Absent]} \cup
  {[n \in Name |-> IF n[2] = 0 THEN Link(v) ELSE IF n[2] = v THEN File(v) ELSE Absent] :
     v \in Version}
=============================================================================
