--------------------------- MODULE ExtractArchive ---------------------------
(***************************************************************************)
(* What the blocking thread of ExtractStream does with the body: a single  *)
(* binary is written as it comes, the entries of a tar are unpacked as     *)
(* they come and its directories at the end, a zip is collected in a       *)
(* temporary file and unpacked when it is whole.  Of what it puts in place *)
(* the thread keeps a record (ExtractedFiles), from which the binaries of  *)
(* the package are told later without looking at the disk.                 *)
(***************************************************************************)
EXTENDS ExtractStream

CONSTANTS Paths,     \* normalised paths in an archive, as sequences of names
          MaxEntries, \* bound: entries of an archive
          MaxHops     \* links the host follows before it gives up

ASSUME PathsAssumption == \A p \in Paths : p \in Seq(STRING) \ {<<>>} /\ p[1] # "."

VARIABLES
  format,  \* bin, tar or zip
  dotted,  \* do the paths of the archive begin with "./"?
  tree,    \* the files, directories and links under the destination
  to,      \* where each of the links leads, below its own directory
  rec,     \* ExtractedFiles
  delayed, \* directories of a tar, which are unpacked last
  count,   \* entries so far
  last,    \* all entries of the tar have been read
  skipped, \* history: a link of a zip has been recorded but not made
  through  \* history: an entry of a zip has been put in place through a link

files == <<tree, to, rec, delayed, count, last, skipped, through>>
allVars == <<vars, format, dotted, files>>

Top == <<".">>
File == [file |-> TRUE, names |-> {}]
Dir(names) == [file |-> FALSE, names |-> names]

Names(r, p) == IF p \in DOMAIN r THEN r[p].names ELSE {}

Above(p) == {SubSeq(p, 1, n) : n \in 1..(Len(p) - 1)}

-----------------------------------------------------------------------------
(* ExtractedFiles *)

(* Each directory above p with the name in it that leads to p. *)
Steps(p) ==
  {<<SubSeq(p, 1, n), p[n + 1]>> : n \in 1..(Len(p) - 1)}
    \cup (IF p[1] = "." THEN {} ELSE {<<Top, p[1]>>})

(* Mutant: the directory above is made anew. *)
AddToParentsAnew(r, p) ==
  [q \in DOMAIN r \cup {s[1] : s \in Steps(p)} |->
     IF \E s \in Steps(p) : s[1] = q
     THEN Dir({s[2] : s \in {t \in Steps(p) : t[1] = q}})
     ELSE r[q]]

(* add_dir_if_has_parent: a file in the way is taken for a directory from now on. *)
AddToParents(r, p) ==
  [q \in DOMAIN r \cup {s[1] : s \in Steps(p)} |->
     IF \E s \in Steps(p) : s[1] = q
     THEN Dir(Names(r, q) \cup {s[2] : s \in {t \in Steps(p) : t[1] = q}})
     ELSE r[q]]

Put(r, p, entry) == [q \in DOMAIN r \cup {p} |-> IF q = p THEN entry ELSE r[q]]

AddFile(r, p) == AddToParents(Put(r, p, File), p)
AddDir(r, p) == AddToParents(Put(r, p, Dir(Names(r, p))), p)

-----------------------------------------------------------------------------
(* The disk *)

IsDir(p) == p \in DOMAIN tree /\ tree[p] = "dir"

(* Something that is no directory is in the way of what shall be below it. *)
NoWay(p) == \E q \in Above(p) : q \in DOMAIN tree /\ ~IsDir(q)

(* The tree with the directories above p, and p itself as a thing of that kind. *)
Made(p, kind) ==
  [q \in DOMAIN tree \cup Above(p) \cup {p} |->
     IF q = p THEN kind ELSE IF q \in Above(p) THEN "dir" ELSE tree[q]]

(* A path with the first link on it replaced by what it leads to, again and again.
   The host gives up on links that lead to each other. *)
Follow(p) ==
  LET Links(q) == {n \in 1..Len(q) : SubSeq(q, 1, n) \in DOMAIN to}
      path[k \in 0..MaxHops] ==
        IF k = 0 THEN p
        ELSE LET q == path[k - 1]
                 n == CHOOSE n \in Links(q) : \A m \in Links(q) : n <= m
             IN  IF Links(q) = {} THEN q ELSE to[SubSeq(q, 1, n)] \o SubSeq(q, n + 1, Len(q))
  IN  IF Links(p) = {} THEN p ELSE path[MaxHops]

Parent(p) == SubSeq(p, 1, Len(p) - 1)

(* The place itself that a path names, where a link may be. *)
Where(p) == Append(Follow(Parent(p)), p[Len(p)])

(* A link leads to its own directory, or to what may be, or not, in it or below. *)
Targets(p) ==
  {q \in Paths \cup {<<>>} : Len(q) >= Len(p) - 1 /\ SubSeq(q, 1, Len(p) - 1) = Parent(p)}

(* No link is on the way to p. *)
Straight(p) == Above(p) \cap DOMAIN to = {}

ArchiveInit ==
  /\ Init
  /\ format \in {"bin", "tar", "zip"} /\ dotted \in BOOLEAN
  /\ need < N => format = "tar"
  /\ dotted => format = "tar"
  /\ \/ format # "bin" /\ tree = <<>> /\ rec = <<>>
     \/ /\ format = "bin"
        /\ tree = [p \in {<<"bin">>} |-> "file"] /\ rec = AddFile(<<>>, <<"bin">>)
  /\ to = <<>> /\ delayed = {} /\ count = 0
  /\ last = FALSE /\ skipped = FALSE /\ through = FALSE

(* The thread has read all it will read. *)
InputEnded == chan = <<>> /\ ~tx

-----------------------------------------------------------------------------
(* extract_tar_based_stream *)

(* A regular file is unpacked and recorded under its normalised path; links and
   the like are passed over. *)
TarEntry(p) ==
  \/ /\ ~IsDir(p) /\ ~NoWay(p)
     /\ tree' = Made(p, "file") /\ rec' = AddFile(rec, p)
     /\ UNCHANGED delayed
  \/ delayed' = delayed \cup {p} /\ UNCHANGED <<tree, rec>>
  \/ UNCHANGED <<tree, rec, delayed>>

(* A chunk is read; it may complete an entry. *)
WriteChunk ==
  /\ Write /\ ~last
  /\ \/ UNCHANGED files
     \/ /\ format = "tar" /\ written < need /\ count < MaxEntries
        /\ \E p \in Paths : TarEntry(p)
        /\ count' = count + 1
        /\ UNCHANGED <<to, last, skipped, through>>
  /\ UNCHANGED <<format, dotted>>

(* A directory is unpacked and recorded under its path as it stands; one that a
   file is in the way of ends the extraction. *)
UnpackDir(p) ==
  /\ thread = "running" /\ p \in delayed
  /\ InputEnded \/ written >= need
  /\ \/ /\ p \in DOMAIN tree => IsDir(p)
        /\ ~NoWay(p)
        /\ tree' = Made(p, "dir")
        /\ rec' = AddDir(rec, IF dotted THEN Top \o p ELSE p)
        /\ delayed' = delayed \ {p} /\ last' = TRUE
        /\ UNCHANGED <<vars, to, count, skipped, through>>
     \/ /\ NoWay(p) \/ (p \in DOMAIN tree /\ ~IsDir(p))
        /\ ThreadFails /\ UNCHANGED files
  /\ UNCHANGED <<format, dotted>>

-----------------------------------------------------------------------------
(* do_extract_zip *)

(* create_dir_all goes through links to directories.  What is in its way is
   anything else, a link to nothing included. *)
Blocked(p) ==
  \E q \in Above(p) :
    /\ Follow(q) # <<>> /\ ~IsDir(Follow(q))
    /\ Follow(q) \in DOMAIN tree \/ Where(q) \in DOMAIN tree

CreateDirAll(p) ==
  [q \in DOMAIN tree \cup ({Follow(o) : o \in Above(p)} \ {<<>>}) |->
     IF q \in DOMAIN tree THEN tree[q] ELSE "dir"]

(* File::create opens, or makes, what a link leads to. *)
ZipFile(p) ==
  LET t == CreateDirAll(p)
      f == Follow(Where(p))
  IN  /\ f # <<>> /\ (Parent(f) = <<>> \/ (Parent(f) \in DOMAIN t /\ t[Parent(f)] = "dir"))
      /\ f \in DOMAIN t => t[f] = "file"
      /\ tree' = Put(t, f, "file") /\ rec' = AddFile(rec, p)
      /\ through' = (through \/ ~Straight(p) \/ (f # p /\ f \notin DOMAIN tree))
      /\ UNCHANGED <<to, skipped>>

(* What is in the place of a link is removed if it is a file.  A link that points
   upwards is not made. *)
ZipLink(p) ==
  LET t == CreateDirAll(p)
      w == Where(p)
  IN  /\ rec' = AddFile(rec, p)
      /\ through' = (through \/ ~Straight(p))
      /\ \/ /\ w \in DOMAIN t => t[w] = "file"
            /\ tree' = Put(t, w, "link")
            /\ \E target \in Targets(w) : to' = Put(to, w, target)
            /\ UNCHANGED skipped
         \/ /\ tree' = [q \in DOMAIN t \ {o \in {w} \cap DOMAIN t : t[o] = "file"} |-> t[q]]
            /\ skipped' = TRUE /\ UNCHANGED to

(* Of a directory only those above it are made, and it is not recorded. *)
ZipDirectory(p) ==
  /\ tree' = CreateDirAll(p)
  /\ through' = (through \/ ~Straight(p))
  /\ UNCHANGED <<to, rec, skipped>>

(* Every file and link is recorded before it is made, under the path it has in the
   archive, wherever the links made before it lead. *)
ZipEntry(p) ==
  /\ format = "zip" /\ thread = "running" /\ InputEnded /\ written >= need
  /\ count < MaxEntries /\ count' = count + 1
  /\ ~Blocked(p)
  /\ ZipFile(p) \/ ZipLink(p) \/ ZipDirectory(p)
  /\ UNCHANGED <<vars, format, dotted, delayed, last>>

-----------------------------------------------------------------------------
(* The end of the thread: a zip that is cut is none, the directories of a tar
   come first, and what follows a binary or a zip belongs to it. *)
ThreadReturns ==
  /\ EndOfInput \/ (format = "tar" /\ EndOfArchive)
  /\ thread' = "ok" => delayed = {} /\ (format = "zip" => written >= need)
  /\ UNCHANGED <<format, dotted, files>>

ThreadStep == WriteChunk \/ ThreadReturns \/ \E p \in Paths : UnpackDir(p) \/ ZipEntry(p)

Around == UNCHANGED <<format, dotted, files>>

ArchiveNext ==
  \/ ThreadStep
  \/ (Answer \/ Read \/ Dropped \/ ThreadFails \/ Terminated) /\ Around

ArchiveSpec == ArchiveInit /\ [][ArchiveNext]_allVars

(* The thread and the async task run; the server may be silent for ever, and
   nothing need ever fail. *)
ArchiveFairSpec == ArchiveSpec /\ WF_allVars(ThreadStep) /\ WF_allVars(Read /\ Around)

-----------------------------------------------------------------------------
(* Properties *)

(* The record has the files and links that are there and no others, and each
   directory with every name in it that leads to one and none that is not there.
   Not so once a link of a zip has been recorded that points upwards and is not
   made, or an entry of a zip has gone through a link: it is recorded under the
   path it has in the archive and lies where the link leads. *)
RecordsExact ==
  thread = "ok" /\ ~skipped /\ ~through =>
    LET Kept == {p \in DOMAIN tree : ~IsDir(p)}
        Under(d, p) == IF d = Top THEN p ELSE SubSeq(p, Len(d) + 1, Len(p))
        In(d) == {p \in DOMAIN tree : d = Top \/ d \in Above(p)}
    IN  /\ {p \in DOMAIN rec : rec[p].file} = Kept
        /\ \A d \in {Top} \cup {p \in DOMAIN tree : IsDir(p)} :
             /\ {Under(d, p)[1] : p \in In(d) \cap Kept} \subseteq Names(rec, d)
             /\ Names(rec, d) \subseteq {Under(d, p)[1] : p \in In(d)}

(* After a successful extraction the record is right without a look at the disk.
   Also where entries have gone through links, whatever is recorded as a file is
   found under its path, as a file or a link; a link not made is the exception. *)
RecordsMatch ==
  /\ RecordsExact
  /\ thread = "ok" /\ ~skipped =>
       \A p \in DOMAIN rec : rec[p].file => Where(p) \in DOMAIN tree /\ ~IsDir(Where(p))

(* The thread ends whenever and_extract has returned or was dropped.  As long as
   the server goes on sending neither side waits for the other for ever: a sender
   in front of a full channel, a thread in front of an empty one. *)
ExtractionEnds ==
  /\ (main \in {"returned", "dropped"}) ~> thread # "running"
  /\ WF_allVars(Answer /\ Around) => <>(main \in {"returned", "dropped"})
=============================================================================
