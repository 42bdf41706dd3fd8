------------------------ MODULE AtomicInstallProofs ------------------------
(* Proofs about AtomicInstall, for any number of installers, binaries and
   versions. *)
EXTENDS AtomicInstall, SequenceTheorems, TLAPS

Length(j) == IF j.symlinks THEN 2 * B ELSE B

(* What Steps is: the files, then the links. *)
LEMMA StepsLemma ==
  ASSUME NEW j \in Job(Version)
  PROVE  /\ Len(Steps(j)) = Length(j)
         /\ \A k \in 1..B : Steps(j)[k] = FileName(j, k)
         /\ j.symlinks => \A k \in (B + 1)..(2 * B) : Steps(j)[k] = Plain(k - B)
<1> DEFINE F == [k \in 1..B |-> FileName(j, k)]
           L == [k \in 1..B |-> Plain(k)]
           S == {F[k] : k \in 1..B} \cup {L[k] : k \in 1..B}
<1>1. F \in Seq(S) /\ Len(F) = B /\ L \in Seq(S) /\ Len(L) = B
  BY BAssumption
<1>2. \A k \in 1..B : F[k] = FileName(j, k) /\ L[k] = Plain(k)
  OBVIOUS
<1>3. Steps(j) = F \o IF j.symlinks THEN L ELSE <<>>
  BY DEF Steps
<1> HIDE DEF F, L, S
<1>4. CASE j.symlinks
  <2>1. Steps(j) = F \o L /\ Length(j) = B + B
    BY <1>3, <1>4, BAssumption DEF Length
  <2>2. /\ Len(F \o L) = Len(F) + Len(L)
        /\ \A k \in 1..(Len(F) + Len(L)) :
             (F \o L)[k] = IF k <= Len(F) THEN F[k] ELSE L[k - Len(F)]
    BY <1>1, ConcatProperties, Zenon
  <2>3. \A k \in 1..B : (F \o L)[k] = F[k]
    BY <1>1, <2>2, BAssumption
  <2>4. \A k \in (B + 1)..(2 * B) : (F \o L)[k] = L[k - B] /\ k - B \in 1..B
    BY <1>1, <2>2, BAssumption
  <2>. QED BY <1>1, <1>2, <2>1, <2>2, <2>3, <2>4
<1>5. CASE ~j.symlinks
  BY <1>1, <1>2, <1>3, <1>5, BAssumption DEF Length
<1>. QED BY <1>4, <1>5

(* An installer at work has a name to place.  A file with a version is moved
   only for a link, on Windows, and what is about to be renamed is whole: the
   link or the file that the step is for. *)
Working(p) ==
  /\ pc[p] \notin Over => pos[p] <= Length(job[p])
  /\ moving[p] => os = "windows" /\ job[p].symlinks /\ pos[p] > B
  /\ pc[p] = "persist" =>
       tmp[p] = IF job[p].symlinks /\ pos[p] > B /\ ~moving[p]
                THEN Link(job[p].ver) ELSE File(job[p].ver)
  /\ pc[p] \in {"replace", "temp", "copy"} => ~(job[p].symlinks /\ pos[p] > B /\ ~moving[p])

IInv ==
  /\ job \in [Installer -> Job(Version)]
  /\ pc \in [Installer -> {"step", "replace", "temp", "copy", "persist"} \cup Over]
  /\ pos \in [Installer -> Nat \ {0}]
  /\ moving \in [Installer -> BOOLEAN]
  /\ DOMAIN tmp = Installer
  /\ dir \in [Bin \X (Version \cup {0}) -> Entry]
  /\ \A p \in Installer : Working(p)

LEMMA BeforeLemma ==
  ASSUME NEW d \in Before(Bin, Version)
  PROVE  d \in [Bin \X (Version \cup {0}) -> Entry]
<1> DEFINE Name == Bin \X (Version \cup {0})
<1>1. Absent \in Entry /\ \A v \in Version : File(v) \in Entry /\ Link(v) \in Entry
  BY DEF Entry
<1> HIDE DEF Name
<1>2. CASE d = [n \in Name |-> Absent]
  BY <1>1, <1>2 DEF Name
<1>3. ASSUME NEW v \in Version,
             d = [n \in Name |-> IF n[2] = 0 THEN Link(v) ELSE IF n[2] = v THEN File(v) ELSE Absent]
      PROVE  d \in [Name -> Entry]
  BY <1>1, <1>3
<1>. QED BY <1>2, <1>3 DEF Before, Name

LEMMA InitIInv == Init => IInv
<1> SUFFICES ASSUME Init PROVE IInv OBVIOUS
<1>1. dir \in [Bin \X (Version \cup {0}) -> Entry]
  BY BeforeLemma DEF Init
<1>2. ASSUME NEW p \in Installer PROVE Working(p)
  BY BAssumption DEF Init, Working, Length, Over
<1>. QED BY <1>1, <1>2 DEF Init, IInv

(* The name an installer places next. *)
LEMMA DstLemma ==
  ASSUME IInv, NEW p \in Installer, pc[p] \notin Over
  PROVE  /\ job[p] \in Job(Version) /\ job[p].ver \in Version /\ job[p].ver # 0
         /\ pos[p] \in 1..(2 * B)
         /\ pos[p] <= B => Dst(p) = FileName(job[p], pos[p])
         /\ pos[p] > B => job[p].symlinks /\ Dst(p) = Plain(pos[p] - B)
         /\ Links(p) <=> (job[p].symlinks /\ pos[p] > B /\ ~moving[p])
<1>1. job[p] \in Job(Version) /\ pos[p] \in Nat \ {0} /\ pos[p] <= Length(job[p])
  BY DEF IInv, Working
<1>2. job[p].ver \in Version /\ job[p].ver # 0 /\ job[p].symlinks \in BOOLEAN
  BY <1>1, VersionAssumption DEF Job
<1>3. CASE pos[p] <= B
  <2>1. Dst(p) = FileName(job[p], pos[p])
    BY <1>1, <1>3, StepsLemma, BAssumption DEF Dst
  <2>2. job[p].symlinks => Dst(p)[2] # 0
    BY <1>2, <2>1 DEF FileName, Versioned
  <2>. QED BY <1>1, <1>2, <1>3, <2>1, <2>2, BAssumption DEF Links
<1>4. CASE pos[p] > B
  <2>1. job[p].symlinks /\ pos[p] \in (B + 1)..(2 * B)
    BY <1>1, <1>4, BAssumption DEF Length
  <2>2. Dst(p) = Plain(pos[p] - B)
    BY <1>1, <2>1, StepsLemma DEF Dst
  <2>. QED BY <1>1, <1>2, <1>4, <2>1, <2>2, BAssumption DEF Links, Plain
<1>. QED BY <1>1, <1>3, <1>4, BAssumption

LEMMA AdvanceLemma ==
  ASSUME IInv, NEW p \in Installer, pc[p] \notin Over, Advance(p), UNCHANGED <<os, job>>
  PROVE  /\ pc' \in [Installer -> {"step", "replace", "temp", "copy", "persist"} \cup Over]
         /\ pos' \in [Installer -> Nat \ {0}] /\ moving' \in [Installer -> BOOLEAN]
         /\ Working(p)'
         /\ \A q \in Installer \ {p} : pc'[q] = pc[q] /\ pos'[q] = pos[q] /\ moving'[q] = moving[q]
<1>1. job[p] \in Job(Version) /\ Len(Steps(job[p])) = Length(job[p])
  BY StepsLemma DEF IInv
<1>2. pc'[p] = IF pos[p] = Length(job[p]) THEN "done" ELSE "step"
  BY <1>1 DEF IInv, Advance
<1>3. pos'[p] = pos[p] + 1 /\ moving'[p] = FALSE
  BY DEF IInv, Advance
<1>4. pos[p] \in Nat /\ pos[p] <= Length(job[p]) /\ Length(job[p]) \in Nat
  BY BAssumption DEF IInv, Working, Length
<1>5. Working(p)'
  BY <1>2, <1>3, <1>4 DEF Working, Over, Length
<1>. QED BY <1>5 DEF IInv, Advance, Over

(* What the others do does not concern an installer. *)
LEMMA OthersLemma ==
  ASSUME IInv, NEW p \in Installer, UNCHANGED <<os, job>>,
         \A q \in Installer \ {p} :
           pc'[q] = pc[q] /\ pos'[q] = pos[q] /\ moving'[q] = moving[q] /\ tmp'[q] = tmp[q]
  PROVE  \A q \in Installer \ {p} : Working(q)'
BY DEF IInv, Working, Length

LEMMA NextIInv == IInv /\ [Next]_vars => IInv'
<1> SUFFICES ASSUME IInv, [Next]_vars PROVE IInv' OBVIOUS
<1>e. /\ Absent \in Entry
      /\ \A v \in Version : File(v) \in Entry /\ Link(v) \in Entry
  BY DEF Entry
<1>1. ASSUME NEW p \in Installer, Rename(p) PROVE IInv'
  <2>1. pc[p] \notin Over /\ Advance(p) /\ UNCHANGED <<os, job, tmp>>
    BY <1>1 DEF Rename, Over
  <2>2. dir' \in [Bin \X (Version \cup {0}) -> Entry]
    BY <1>1, <1>e, <2>1, DstLemma DEF Rename, IInv
  <2>. QED BY <2>1, <2>2, AdvanceLemma, OthersLemma DEF IInv
<1>2. ASSUME NEW p \in Installer, RenameFails(p) PROVE IInv'
  <2>1. Working(p)'
    BY <1>2, DstLemma DEF RenameFails, IInv, Working, Over, Length
  <2>. QED BY <1>2, <2>1, OthersLemma DEF RenameFails, IInv
<1>3. ASSUME NEW p \in Installer, CopyToTempfile(p) PROVE IInv'
  <2>1. Working(p)'
    BY <1>3, DstLemma DEF CopyToTempfile, Copies, IInv, Working, Over, Length
  <2>. QED BY <1>3, <2>1, OthersLemma DEF CopyToTempfile, IInv
<1>4. ASSUME NEW p \in Installer, Copied(p) PROVE IInv'
  <2>1. Working(p)'
    BY <1>4, DstLemma DEF Copied, IInv, Working, Over, Length
  <2>. QED BY <1>4, <2>1, OthersLemma DEF Copied, IInv
<1>5. ASSUME NEW p \in Installer, Persist(p) PROVE IInv'
  <2>1. pc[p] \notin Over /\ Advance(p) /\ UNCHANGED <<os, job>>
    BY <1>5 DEF Persist, Over
  <2>2. tmp[p] \in Entry
    BY <1>5, <1>e, <2>1, DstLemma DEF Persist, IInv, Working
  <2>3. dir' \in [Bin \X (Version \cup {0}) -> Entry] /\ DOMAIN tmp' = Installer
    BY <1>5, <2>2 DEF Persist, IInv
  <2>4. \A q \in Installer \ {p} : tmp'[q] = tmp[q]
    BY <1>5 DEF Persist, IInv
  <2>. QED BY <2>1, <2>3, <2>4, AdvanceLemma, OthersLemma DEF IInv
<1>6. ASSUME NEW p \in Installer, TempSymlink(p) PROVE IInv'
  <2>1. Working(p)'
    BY <1>6, DstLemma DEF TempSymlink, IInv, Working, Over, Length
  <2>. QED BY <1>6, <2>1, OthersLemma DEF TempSymlink, IInv
<1>7. ASSUME NEW p \in Installer, SymlinkNoclobber(p) PROVE IInv'
  <2>1. pc[p] \notin Over /\ Advance(p) /\ UNCHANGED <<os, job, tmp>>
    BY <1>7 DEF SymlinkNoclobber, Over
  <2>2. dir' \in [Bin \X (Version \cup {0}) -> Entry]
    BY <1>7, <1>e, <2>1, DstLemma DEF SymlinkNoclobber, IInv
  <2>. QED BY <2>1, <2>2, AdvanceLemma, OthersLemma DEF IInv
<1>8. ASSUME NEW p \in Installer, SymlinkFails(p) PROVE IInv'
  <2>1. Working(p)'
    BY <1>8, DstLemma DEF SymlinkFails, IInv, Working, Over, Length
  <2>. QED BY <1>8, <2>1, OthersLemma DEF SymlinkFails, IInv
<1>9. ASSUME NEW p \in Installer, Fail(p) \/ Die(p) PROVE IInv'
  <2>1. Working(p)'
    BY <1>9 DEF Fail, Die, IInv, Working, Over, Length
  <2>. QED BY <1>9, <2>1, OthersLemma DEF Fail, Die, IInv, Over
<1>10. CASE UNCHANGED vars
  BY <1>10 DEF vars, IInv, Working, Length
<1>. QED
  BY <1>1, <1>2, <1>3, <1>4, <1>5, <1>6, <1>7, <1>8, <1>9, <1>10 DEF Next, Terminated

LEMMA Invariance == Spec => []IInv
BY InitIInv, NextIInv, PTL DEF Spec

-----------------------------------------------------------------------------
(* AtomicInstall implements InstallDirectory. *)

(* The two modules mean the same by the names and entries. *)
LEMMA SameNames ==
  /\ D!Absent = Absent
  /\ \A v : D!File(v) = File(v) /\ D!Link(v) = Link(v)
  /\ \A b : D!Plain(b) = Plain(b)
  /\ \A j, b : D!FileName(j, b) = FileName(j, b)
  /\ \A V : D!Job(V) = Job(V)
BY DEF D!Absent, D!File, D!Link, D!Plain, D!FileName, D!Versioned, D!Job,
       Absent, File, Link, Plain, FileName, Versioned, Job

LEMMA InitRefines == Init => D!Init
BY DEF Init, D!Init, Bin, Before, D!Before, Job, D!Job, Absent, D!Absent, File, D!File, Link, D!Link

(* p places its next name: e is there now, and the names in Gone are free. *)
Places(p, e, Gone) ==
  /\ pc[p] \notin Over /\ Advance(p) /\ UNCHANGED <<os, job>>
  /\ job[p].overwrite \/ dir[Dst(p)] = Absent
  /\ dir' = [m \in DOMAIN dir |-> IF m = Dst(p) THEN e ELSE IF m \in Gone THEN Absent ELSE dir[m]]
  /\ \/ ~Links(p) /\ ~moving[p] /\ e = File(job[p].ver) /\ Gone = {}
     \/ Links(p) /\ e = Link(job[p].ver) /\ Gone = {}
     \/ /\ moving[p] /\ e = File(job[p].ver)
        /\ Gone = {} \/ (Gone = {Src(p)} /\ job[p].overwrite)

(* Every change of the directory is one Put of the installer that makes it. *)
LEMMA PutLemma ==
  ASSUME IInv, NEW p \in Installer, NEW e, NEW Gone, Places(p, e, Gone)
  PROVE  D!Next
<1>d. /\ pos[p] \in 1..(2 * B)
      /\ pos[p] <= B => Dst(p) = FileName(job[p], pos[p])
      /\ pos[p] > B => job[p].symlinks /\ Dst(p) = Plain(pos[p] - B)
      /\ Links(p) <=> (job[p].symlinks /\ pos[p] > B /\ ~moving[p])
      /\ moving[p] => os = "windows" /\ pos[p] > B
  BY DstLemma DEF IInv, Working, Places
<1>1. D!Put(p, Dst(p), e, Gone)
  BY SameNames DEF D!Put, Advance, Places
<1>2. CASE pos[p] <= B
  <2>1. ~Links(p) /\ ~moving[p] /\ Dst(p) = FileName(job[p], pos[p])
    BY <1>2, <1>d, BAssumption
  <2>. QED BY <1>1, <1>2, <1>d, <2>1, SameNames DEF D!Next, D!PutFile, Places
<1>3. CASE pos[p] > B
  <2>1. /\ D!Linking(p) /\ Dst(p) = Plain(pos[p] - B)
        /\ Links(p) <=> ~moving[p]
        /\ moving[p] => os = "windows"
        /\ Src(p) = FileName(job[p], pos[p] - B)
    BY <1>3, <1>d, BAssumption DEF D!Linking, Src, Plain
  <2>2. CASE Links(p)
    BY <1>1, <2>1, <2>2, SameNames DEF D!Next, D!PutLink, Places
  <2>3. CASE moving[p]
    BY <1>1, <2>1, <2>3, SameNames DEF D!Next, D!PutInstead, Places
  <2>. QED BY <2>1, <2>2, <2>3
<1>. QED BY <1>2, <1>3, <1>d, BAssumption

LEMMA StepRefines == IInv /\ [Next]_vars => [D!Next]_D!vars
<1> SUFFICES ASSUME IInv, [Next]_vars PROVE [D!Next]_D!vars OBVIOUS
<1>1. ASSUME NEW p \in Installer, Rename(p) PROVE D!Next
  <2>1. pc[p] \notin Over /\ Advance(p) /\ UNCHANGED <<os, job>> /\ ~Links(p) /\ job[p].overwrite
    BY <1>1 DEF Rename, Over
  <2>2. CASE moving[p]
    <3>1. dir' = [m \in DOMAIN dir |-> IF m = Dst(p) THEN File(job[p].ver)
                                       ELSE IF m \in {Src(p)} THEN Absent ELSE dir[m]]
      BY <1>1, <2>2 DEF Rename
    <3>2. Places(p, File(job[p].ver), {Src(p)})
      BY <2>1, <2>2, <3>1 DEF Places
    <3>. QED BY <3>2, PutLemma
  <2>3. CASE ~moving[p]
    <3>1. dir' = [m \in DOMAIN dir |-> IF m = Dst(p) THEN File(job[p].ver)
                                       ELSE IF m \in {} THEN Absent ELSE dir[m]]
      BY <1>1, <2>3 DEF Rename
    <3>2. Places(p, File(job[p].ver), {})
      BY <2>1, <2>3, <3>1 DEF Places
    <3>. QED BY <3>2, PutLemma
  <2>. QED BY <2>2, <2>3
<1>2. ASSUME NEW p \in Installer, Persist(p) PROVE D!Next
  <2>1. pc[p] \notin Over /\ Advance(p) /\ UNCHANGED <<os, job>>
    BY <1>2 DEF Persist, Over
  <2>2. tmp[p] = IF Links(p) THEN Link(job[p].ver) ELSE File(job[p].ver)
    BY <1>2, <2>1, DstLemma DEF Persist, IInv, Working
  <2>3. dir' = [m \in DOMAIN dir |-> IF m = Dst(p) THEN tmp[p]
                                     ELSE IF m \in {} THEN Absent ELSE dir[m]]
    BY <1>2 DEF Persist
  <2>4. Links(p) => ~moving[p]
    BY DEF Links
  <2>5. Places(p, tmp[p], {})
    BY <1>2, <2>1, <2>2, <2>3, <2>4 DEF Places, Persist
  <2>. QED BY <2>5, PutLemma
<1>3. ASSUME NEW p \in Installer, SymlinkNoclobber(p) PROVE D!Next
  <2>1. pc[p] \notin Over /\ Advance(p) /\ UNCHANGED <<os, job>> /\ Links(p) /\ dir[Dst(p)] = Absent
    BY <1>3 DEF SymlinkNoclobber, Over
  <2>2. dir' = [m \in DOMAIN dir |-> IF m = Dst(p) THEN Link(job[p].ver)
                                     ELSE IF m \in {} THEN Absent ELSE dir[m]]
    BY <1>3 DEF SymlinkNoclobber
  <2>3. Places(p, Link(job[p].ver), {})
    BY <2>1, <2>2 DEF Places
  <2>. QED BY <2>3, PutLemma
<1>4. ASSUME NEW p \in Installer,
             \/ RenameFails(p) \/ CopyToTempfile(p) \/ Copied(p) \/ TempSymlink(p)
             \/ SymlinkFails(p) \/ Fail(p) \/ Die(p)
      PROVE  UNCHANGED D!vars
  BY <1>4 DEF RenameFails, CopyToTempfile, Copied, TempSymlink, SymlinkFails, Fail, Die, D!vars
<1>5. CASE UNCHANGED vars
  BY <1>5 DEF vars, D!vars
<1>. QED BY <1>1, <1>2, <1>3, <1>4, <1>5 DEF Next, Terminated

(* Entries of the directory of executables are replaced whole, never without
   permission and links after files, for any number of installers, binaries and
   versions, and at any failure or kill. *)
THEOREM Refinement == Spec => EntriesReplacedWhole
BY Invariance, InitRefines, StepRefines, PTL DEF Spec, EntriesReplacedWhole, D!Spec

-----------------------------------------------------------------------------
(* On Unix, files that have been placed stay, so all of them are there when the
   first link is made.  That much follows from InstallDirectory. *)
FilesStay ==
  os = "unix" =>
    \A p \in Installer, c \in Bin :
      job[p].symlinks /\ pos[p] > c => dir[Versioned(c, job[p].ver)] = File(job[p].ver)

LEMMA LinkedInit == Init => FilesStay /\ LinkedVersionWhole
<1> SUFFICES ASSUME Init PROVE FilesStay /\ LinkedVersionWhole OBVIOUS
<1>1. FilesStay
  BY DEF Init, FilesStay, Bin
<1>2. ASSUME NEW b \in Bin, NEW c \in Bin, NEW v \in Version, dir[Plain(b)] = Link(v)
      PROVE  dir[Versioned(c, v)] = File(v)
  <2>1. /\ Plain(b) \in Bin \X (Version \cup {0}) /\ Plain(b)[2] = 0
        /\ Versioned(c, v) \in Bin \X (Version \cup {0}) /\ Versioned(c, v)[2] = v /\ v # 0
    BY VersionAssumption DEF Plain, Versioned
  <2>2. PICK w \in Version :
          dir = [n \in Bin \X (Version \cup {0}) |->
                   IF n[2] = 0 THEN Link(w) ELSE IF n[2] = w THEN File(w) ELSE Absent]
    <3>1. dir # [n \in Bin \X (Version \cup {0}) |-> Absent]
      BY <1>2, <2>1 DEF Absent, Link
    <3>. QED BY <3>1 DEF Init, Before
  <2>3. dir[Plain(b)] = Link(w)
    BY <2>1, <2>2
  <2>4. v = w
    BY <1>2, <2>3 DEF Link
  <2>. QED BY <2>1, <2>2, <2>4
<1>. QED BY <1>1, <1>2 DEF LinkedVersionWhole

LEMMA LinkedNext ==
  IInv /\ FilesStay /\ LinkedVersionWhole /\ [D!Next]_D!vars => (FilesStay /\ LinkedVersionWhole)'
<1> SUFFICES ASSUME IInv, FilesStay, LinkedVersionWhole, [D!Next]_D!vars
             PROVE  (FilesStay /\ LinkedVersionWhole)'
  OBVIOUS
<1>1. CASE UNCHANGED D!vars
  BY <1>1 DEF D!vars, FilesStay, LinkedVersionWhole
<1>2. CASE os # "unix" /\ D!Next
  BY <1>2 DEF D!Next, D!PutFile, D!PutLink, D!PutInstead, D!Put, FilesStay, LinkedVersionWhole
<1>3. ASSUME os = "unix", NEW p \in Installer, NEW n \in DOMAIN dir, NEW e, D!Put(p, n, e, {}),
             \/ \E k \in Bin : n = Versioned(k, job[p].ver) /\ e = File(job[p].ver)
                               /\ job[p].symlinks /\ pos[p] = k
             \/ n[2] = 0 /\ e = File(job[p].ver) /\ ~job[p].symlinks
             \/ n[2] = 0 /\ e = Link(job[p].ver) /\ pos[p] > B /\ job[p].symlinks
      PROVE  (FilesStay /\ LinkedVersionWhole)'
  <2>1. /\ dir' = [m \in DOMAIN dir |-> IF m = n THEN e ELSE dir[m]]
        /\ pos' = [pos EXCEPT ![p] = @ + 1] /\ UNCHANGED <<os, job>>
    BY <1>3 DEF D!Put
  <2>2. job[p].ver \in Version /\ \A v \in Version : v # 0
    BY VersionAssumption DEF IInv, Job
  <2>3. ASSUME NEW b \in Bin PROVE Plain(b) \in DOMAIN dir /\ Plain(b)[1] = b /\ Plain(b)[2] = 0
    BY DEF IInv, Plain
  <2>4. ASSUME NEW c \in Bin, NEW v \in Version
        PROVE  Versioned(c, v) \in DOMAIN dir /\ Versioned(c, v)[1] = c /\ Versioned(c, v)[2] = v
    BY DEF IInv, Versioned
  <2>5. ASSUME NEW c \in Bin, NEW v \in Version, dir[Versioned(c, v)] = File(v)
        PROVE  dir'[Versioned(c, v)] = File(v)
    BY <1>3, <2>1, <2>2, <2>4, <2>5
  <2>6. FilesStay'
    <3> SUFFICES ASSUME NEW q \in Installer, NEW c \in Bin, job[q].symlinks, pos'[q] > c
                 PROVE  dir'[Versioned(c, job[q].ver)] = File(job[q].ver)
      BY <2>1 DEF FilesStay
    <3>1. job[q].ver \in Version /\ pos[q] \in Nat /\ c \in Nat
      BY DEF IInv, Job, Bin
    <3>2. CASE pos[q] > c
      BY <1>3, <2>5, <3>1, <3>2 DEF FilesStay
    <3>3. CASE ~(pos[q] > c)
      <4>1. q = p /\ pos[p] = c
        BY <2>1, <3>1, <3>3 DEF IInv
      <4>2. n = Versioned(c, job[p].ver) /\ e = File(job[p].ver)
        BY <1>3, <4>1, BAssumption DEF Bin
      <4>. QED BY <2>1, <4>1, <4>2, <1>3
    <3>. QED BY <3>2, <3>3
  <2>7. LinkedVersionWhole'
    <3> SUFFICES ASSUME NEW b \in Bin, NEW v \in Version, dir'[Plain(b)] = Link(v), NEW c \in Bin
                 PROVE  dir'[Versioned(c, v)] = File(v)
      BY <2>1 DEF LinkedVersionWhole
    <3>1. CASE n # Plain(b)
      <4>1. dir[Plain(b)] = Link(v)
        BY <2>1, <2>3, <3>1
      <4>. QED BY <1>3, <2>5, <4>1 DEF LinkedVersionWhole
    <3>2. CASE n = Plain(b)
      <4>1. e = Link(v)
        BY <2>1, <2>3, <3>2
      <4>2. n[2] = 0 /\ e # File(job[p].ver)
        BY <2>3, <3>2, <4>1 DEF File, Link
      <4>3. job[p].symlinks /\ pos[p] > B /\ v = job[p].ver
        BY <1>3, <4>1, <4>2 DEF Link
      <4>4. pos[p] > c
        BY <4>3, BAssumption DEF IInv, Bin
      <4>. QED BY <1>3, <2>5, <4>3, <4>4 DEF FilesStay
    <3>. QED BY <3>1, <3>2
  <2>. QED BY <2>6, <2>7
<1>4. ASSUME os = "unix", NEW p \in Installer, D!PutFile(p) PROVE (FilesStay /\ LinkedVersionWhole)'
  <2> DEFINE n == FileName(job[p], pos[p])
  <2>1. /\ pos[p] \in Bin /\ job[p].ver \in Version /\ job[p].symlinks \in BOOLEAN
        /\ D!Put(p, n, File(job[p].ver), {})
    <3>1. pos[p] <= B /\ D!Put(p, D!FileName(job[p], pos[p]), D!File(job[p].ver), {})
      BY <1>4 DEF D!PutFile
    <3>2. D!FileName(job[p], pos[p]) = n /\ D!File(job[p].ver) = File(job[p].ver)
      BY SameNames
    <3>3. pos[p] \in Bin /\ job[p].ver \in Version /\ job[p].symlinks \in BOOLEAN
      BY <3>1, BAssumption DEF IInv, Job, Bin
    <3>. QED BY <3>1, <3>2, <3>3, Zenon
  <2>2. n \in DOMAIN dir
    BY <2>1 DEF IInv, FileName, Plain, Versioned
  <2>3. CASE job[p].symlinks
    BY <1>3, <1>4, <2>1, <2>2, <2>3 DEF FileName
  <2>4. CASE ~job[p].symlinks
    <3>1. n[2] = 0
      BY <2>4 DEF FileName, Plain
    <3>. QED BY <1>3, <1>4, <2>1, <2>2, <2>4, <3>1
  <2>. QED BY <2>3, <2>4
<1>5. ASSUME os = "unix", NEW p \in Installer, D!PutLink(p) PROVE (FilesStay /\ LinkedVersionWhole)'
  <2> DEFINE n == Plain(pos[p] - B)
  <2>1. /\ job[p].symlinks /\ pos[p] > B /\ pos[p] - B \in Bin
        /\ D!Put(p, n, Link(job[p].ver), {})
    BY <1>5, SameNames, BAssumption DEF D!PutLink, D!Linking, IInv, Bin
  <2>2. n \in DOMAIN dir /\ n[2] = 0
    BY <2>1 DEF IInv, Plain
  <2>. QED BY <1>3, <1>5, <2>1, <2>2
<1>. QED BY <1>1, <1>2, <1>4, <1>5 DEF D!Next, D!PutInstead

(* On Unix a link leads to a version all of whose binaries are there, for any
   number of installers, binaries and versions. *)
THEOREM Linked == Spec => []LinkedVersionWhole
<1>1. Init => FilesStay /\ LinkedVersionWhole
  BY LinkedInit
<1>2. IInv /\ FilesStay /\ LinkedVersionWhole /\ [Next]_vars => (FilesStay /\ LinkedVersionWhole)'
  BY StepRefines, LinkedNext
<1>. QED BY Invariance, <1>1, <1>2, PTL DEF Spec

=============================================================================
