--------------------------- MODULE RegistryProofs ---------------------------
(***************************************************************************)
(* Proofs about RegistrySession: the lookups of a session (CrateRegistry), *)
(* for any number of tasks, versions and edits of the index, on their own  *)
(* and in a session that has found its registry first.                     *)
(***************************************************************************)
EXTENDS RegistrySession, PrefixInduction, SequenceTheorems, FiniteSetTheorems

(* MatchedVersion::find *)

(* An entry makes a number of a number: the greater one, or the old one if the
   entry is not to be had. *)
LEMMA NewerLemma ==
  ASSUME NEW b \in Nat, NEW e \in Entry, NEW accepted \in SUBSET Version
  PROVE  /\ Newer(b, e, accepted) \in Nat
         /\ ~e.yanked /\ e.vers \in accepted => Newer(b, e, accepted) >= e.vers
         /\ Newer(b, e, accepted) >= b
         /\ Newer(b, e, accepted) # b => /\ ~e.yanked /\ e.vers \in accepted
                                        /\ Newer(b, e, accepted) = e.vers
<1>1. e.yanked \in BOOLEAN /\ e.vers \in Nat
  BY MaxVersionAssumption DEF Entry, Version, None
<1>. QED BY <1>1 DEF Newer

(* The function that Find computes exists: it is the best version in every prefix
   of the entries. *)
LEMMA FindPrefixes ==
  ASSUME NEW entries \in Seq(Entry), NEW accepted \in SUBSET Version
  PROVE  \E best \in [0..Len(entries) -> Nat] :
           /\ Find(entries, accepted) = best[Len(entries)]
           /\ best[0] = None
           /\ \A n \in 1..Len(entries) : best[n] = Newer(best[n - 1], entries[n], accepted)
<1> DEFINE N == Len(entries)
           step == [n \in 1..N |-> [b \in Nat |-> Newer(b, entries[n], accepted)]]
           Fits(f) == f = [n \in 0..N |-> IF n = 0 THEN None
                                          ELSE Newer(f[n - 1], entries[n], accepted)]
<1>1. N \in Nat /\ None \in Nat
  BY DEF None
<1>2. step \in [1..N -> [Nat -> Nat]]
  BY NewerLemma
<1>3. PICK f : Unfolds(f, N, Nat, None, step)
  <2>1. IsStep(N, Nat, step)
    BY <1>2 DEF IsStep
  <2>. HIDE DEF N, step
  <2>. QED BY <1>1, <2>1, DefinedUpTo, Zenon
<1>4. Fits(f)
  <2>1. f \in [0..N -> Nat] /\ f[0] = None /\ \A n \in 1..N : f[n] = step[n][f[n - 1]]
    BY <1>3 DEF Unfolds
  <2>2. ASSUME NEW n \in 1..N
        PROVE  f[n - 1] \in Nat /\ f[n] = Newer(f[n - 1], entries[n], accepted)
    <3>1. n - 1 \in 0..N /\ f[n - 1] \in Nat
      BY <1>1, <2>1
    <3>2. f[n] = step[n][f[n - 1]] /\ step[n][f[n - 1]] = Newer(f[n - 1], entries[n], accepted)
      BY <2>1, <3>1
    <3>. QED BY <3>1, <3>2
  <2>. QED BY <1>1, <2>1, <2>2
<1> DEFINE best == CHOOSE g : Fits(g)
<1>5. Fits(best)
  BY <1>4
<1>6. Find(entries, accepted) = best[N]
  BY DEF Find
<1>. HIDE DEF best
<1>7. best[0] = None /\ \A n \in 1..N : best[n] = Newer(best[n - 1], entries[n], accepted)
  BY <1>1, <1>5
<1>8. best \in [0..N -> Nat]
  <2> DEFINE S == {n \in 0..N : best[n] \in Nat}
  <2>1. 0 \in S
    BY <1>1, <1>7
  <2>2. ASSUME NEW n \in 1..N, n - 1 \in S PROVE n \in S
    BY <1>1, <1>7, <2>2, NewerLemma
  <2>. HIDE DEF S
  <2>3. 0..N \subseteq S
    BY <1>1, <2>1, <2>2, InductUpTo
  <2>. QED BY <1>5, <2>3 DEF S
<1>. HIDE DEF best
<1>. QED BY <1>6, <1>7, <1>8
(* MatchedVersion::find goes through the entries in their order and keeps the best so
   far; what it ends with is the greatest version that is to be had, if there is one. *)
THEOREM FindIsBest ==
  ASSUME NEW entries \in Seq(Entry), NEW accepted \in SUBSET Version
  PROVE  Find(entries, accepted) = Best(entries, accepted)
<1> DEFINE N == Len(entries)
           Fit(n) == {entries[i].vers : i \in {j \in 1..n : ~entries[j].yanked}} \cap accepted
<1>1. PICK best \in [0..N -> Nat] :
        /\ Find(entries, accepted) = best[N]
        /\ best[0] = None
        /\ \A n \in 1..N : best[n] = Newer(best[n - 1], entries[n], accepted)
  BY FindPrefixes
<1> DEFINE S == {n \in 0..N : /\ \A v \in Fit(n) : v <= best[n]
                              /\ best[n] \in Fit(n) \/ (best[n] = None /\ Fit(n) = {})}
<1>2. N \in Nat /\ \A n \in 1..N : entries[n] \in Entry
  OBVIOUS
<1>3. \A v \in accepted : v \in Nat /\ v > None
  BY MaxVersionAssumption DEF Version, None
<1>4. 0 \in S
  BY <1>1, <1>2
<1>5. ASSUME NEW n \in 1..N, n - 1 \in S PROVE n \in S
  <2>1. /\ best[n - 1] \in Nat /\ best[n] \in Nat /\ entries[n] \in Entry
        /\ best[n] = Newer(best[n - 1], entries[n], accepted)
    BY <1>1, <1>2
  <2>2. /\ ~entries[n].yanked /\ entries[n].vers \in accepted => best[n] >= entries[n].vers
        /\ best[n] >= best[n - 1]
        /\ best[n] # best[n - 1] => /\ ~entries[n].yanked /\ entries[n].vers \in accepted
                                    /\ best[n] = entries[n].vers
    BY <2>1, NewerLemma
  <2>3. /\ \A v \in Fit(n - 1) : v <= best[n - 1]
        /\ best[n - 1] \in Fit(n - 1) \/ (best[n - 1] = None /\ Fit(n - 1) = {})
    BY <1>5
  <2>4. Fit(n) = Fit(n - 1) \cup ({entries[n].vers : j \in IF entries[n].yanked THEN {} ELSE {n}}
                                    \cap accepted)
    BY <1>2
  <2>5. \A m \in 0..N : \A v \in Fit(m) : v \in Nat /\ v > None
    BY <1>3
  <2>. HIDE DEF Fit
  <2>6. ASSUME NEW v \in Fit(n) PROVE v <= best[n]
    BY <1>2, <2>1, <2>2, <2>3, <2>4, <2>5
  <2>7. best[n] \in Fit(n) \/ (best[n] = None /\ Fit(n) = {})
    <3>1. CASE best[n] # best[n - 1]
      BY <2>2, <2>4, <3>1
    <3>2. CASE best[n] = best[n - 1] /\ best[n - 1] \in Fit(n - 1)
      BY <2>4, <3>2
    <3>3. CASE best[n] = best[n - 1] /\ best[n - 1] = None /\ Fit(n - 1) = {}
      <4>1. ASSUME NEW v \in Fit(n) PROVE FALSE
        BY <2>1, <2>2, <2>4, <2>5, <3>3, <4>1
      <4>. QED BY <3>3, <4>1
    <3>. QED BY <2>3, <3>1, <3>2, <3>3
  <2>. QED BY <2>6, <2>7
<1>6. N \in S
  <2>. HIDE DEF S, N
  <2>1. 0..N \subseteq S
    BY <1>2, <1>4, <1>5, InductUpTo
  <2>. QED BY <1>2, <2>1
<1>7. DOMAIN entries = 1..N
  OBVIOUS
<1>8. Best(entries, accepted) = IF Fit(N) = {} THEN None
                                ELSE CHOOSE v \in Fit(N) : \A w \in Fit(N) : w <= v
  <2> DEFINE fit == {entries[i].vers : i \in {j \in DOMAIN entries : ~entries[j].yanked}} \cap accepted
  <2>1. Best(entries, accepted) = IF fit = {} THEN None
                                  ELSE CHOOSE v \in fit : \A w \in fit : w <= v
    BY DEF Best
  <2>2. fit = Fit(N)
    BY <1>7, Zenon
  <2>. HIDE DEF fit, Fit
  <2>. QED BY <2>1, <2>2
<1>9. /\ \A v \in Fit(N) : v <= best[N]
      /\ best[N] \in Fit(N) \/ (best[N] = None /\ Fit(N) = {})
  BY <1>6
<1>10. \A v \in Fit(N) : v \in Nat
  BY <1>3
<1>. HIDE DEF Fit, S
<1>11. CASE Fit(N) = {}
  BY <1>1, <1>8, <1>9, <1>11
<1>12. CASE Fit(N) # {}
  <2>1. best[N] \in Fit(N) /\ \A v \in Fit(N) : v <= best[N]
    BY <1>9, <1>12
  <2>2. ASSUME NEW u \in Fit(N), \A w \in Fit(N) : w <= u PROVE u = best[N]
    <3>1. u <= best[N] /\ best[N] <= u /\ u \in Nat /\ best[N] \in Nat
      BY <1>10, <2>1, <2>2
    <3>. QED BY <3>1
  <2>. QED BY <1>1, <1>8, <1>12, <2>1, <2>2
<1>. QED BY <1>11, <1>12

LEMMA BestNat ==
  ASSUME NEW entries \in Seq(Entry), NEW accepted \in SUBSET Version
  PROVE  Best(entries, accepted) \in Nat
<1>1. PICK best \in [0..Len(entries) -> Nat] : Find(entries, accepted) = best[Len(entries)]
  BY FindPrefixes
<1>. QED BY <1>1, FindIsBest

-----------------------------------------------------------------------------
(* CrateRegistry *)

Tasks == {"start", "waiting", "config", "asking", "index", "download", "done", "failed", "aborted"}
Threads == {"none", "cell", "cloning", "found", "failed"}

(* What the model's variables may hold. *)
Typed ==
  /\ kind \in {"none", "sparse", "git"}
  /\ index \in Seq(Entry)
  /\ req \in [Callers -> SUBSET Version]
  /\ task \in [Callers -> Tasks] /\ thread \in [Callers -> Threads]
  /\ version \in [Callers -> Nat]
  /\ offered \in [Callers -> SUBSET Nat]

(* Before the registry is there nobody looks; only a git registry has threads, and
   the task of one that is at work, or has failed, waits or is aborted. *)
Parts ==
  /\ kind = "none" => content = {} /\ \A c \in Callers : task[c] = "start"
  /\ kind # "git" => \A c \in Callers : thread[c] = "none" /\ task[c] # "waiting"
  /\ kind = "git" => \A c \in Callers :
       /\ task[c] \notin {"config", "asking", "index"}
       /\ task[c] = "start" => thread[c] = "none"
       /\ task[c] \in {"download", "done"} => thread[c] = "found"

(* The clone is made by one thread at a time, and only while there is none. *)
OneCloner ==
  kind = "git" => /\ \A c \in Callers : thread[c] = "cloning" => holder = c /\ content = {}
                  /\ content = {} \/ \E clone \in Seq(Entry) : content = {clone}

(* What the index has for a task, and what the clone has for it, has been on offer
   while the task might have looked. *)
OnOffer ==
  kind # "none" => \A c \in Callers :
    /\ Best(index, req[c]) \in offered[c]
    /\ kind = "git" => \A clone \in content : Best(clone, req[c]) \in offered[c]

(* A version is taken from what was on offer, in a git registry from the clone. *)
Taken ==
  \A c \in Callers :
    /\ task[c] \in {"download", "done"} => version[c] \in offered[c] \ {None}
    /\ thread[c] = "found" => /\ version[c] \in offered[c] \ {None}
                              /\ \E clone \in content : version[c] = Best(clone, req[c])

(* Whoever fails has a reason of its own; a thread also if its task is aborted. *)
Reasons ==
  \A c \in Callers :
    /\ task[c] = "failed" => c \in faulted \/ None \in offered[c] \/ ~Admitted
    /\ thread[c] = "failed" => c \in faulted \/ None \in offered[c] \/ task[c] = "aborted"

IInv == Typed /\ Parts /\ OneCloner /\ OnOffer /\ Taken /\ Reasons

LEMMA InitIInv == Init => IInv
<1> SUFFICES ASSUME Init PROVE IInv OBVIOUS
<1>. USE DEF Init
<1>1. Typed
  BY DEF Typed, Tasks, Threads, None
<1>. QED BY <1>1 DEF IInv, Parts, OneCloner, OnOffer, Taken, Reasons

(* The session gets its registry, with any index and requirements. *)
LEMMA OpenedIInv == ASSUME IInv, NEW authenticated \in BOOLEAN, Opened(authenticated) PROVE IInv'
<1>1. PICK e, f \in Entry : index' = <<e, f>>
  BY DEF Opened
<1>2. /\ kind = "none" /\ kind' \in {"sparse", "git"}
      /\ req' \in [Callers -> SUBSET Version]
      /\ offered' = [c \in Callers |-> {Best(index', req'[c])}]
      /\ UNCHANGED <<holder, content, task, thread, version, faulted, edits, aborts>>
  BY DEF Opened
<1>3. index' \in Seq(Entry)
  BY <1>1
<1>4. content = {} /\ \A c \in Callers : task[c] = "start" /\ thread[c] = "none"
  BY <1>2 DEF IInv, Parts
<1>5. \A c \in Callers : offered'[c] = {Best(index', req'[c])} /\ Best(index', req'[c]) \in Nat
  BY <1>2, <1>3, BestNat
<1>6. Typed'
  BY <1>2, <1>3, <1>5 DEF IInv, Typed
<1>. QED BY <1>2, <1>4, <1>5, <1>6 DEF IInv, Parts, OneCloner, OnOffer, Taken, Reasons

(* A step of a task or a thread that changes neither registry nor index, and what
   it may do to the rest. *)
LEMMA StartIInv == ASSUME IInv, NEW c \in Callers, Start(c) PROVE IInv'
<1>1. /\ kind # "none" /\ task[c] = "start"
      /\ UNCHANGED <<given, index, holder, content, version, faulted>>
  BY DEF Start, Go
<1>2. Best(index, req[c]) \in Nat
  BY BestNat DEF IInv, Typed
<1>3. CASE kind = "git"
  <2>1. /\ task' = [task EXCEPT ![c] = "waiting"] /\ thread' = [thread EXCEPT ![c] = "cell"]
        /\ thread[c] = "none" /\ offered' = offered
    BY <1>3 DEF Start, Go, Run
  <2>2. Typed'
    BY <1>1, <2>1 DEF IInv, Typed, Tasks, Threads, given
  <2>. QED BY <1>1, <1>3, <2>1, <2>2
           DEF IInv, Typed, Parts, OneCloner, OnOffer, Taken, Reasons, Admitted, given
<1>4. CASE kind # "git"
  <2>1. /\ task' = [task EXCEPT ![c] = "config"] /\ thread' = thread
        /\ offered' = [offered EXCEPT ![c] = {Best(index, req[c])}]
    BY <1>4 DEF Start, Go
  <2>2. Typed'
    BY <1>1, <1>2, <2>1 DEF IInv, Typed, Tasks, Threads, given
  <2>. QED BY <1>1, <1>4, <2>1, <2>2
           DEF IInv, Typed, Parts, OneCloner, OnOffer, Taken, Reasons, Admitted, given
<1>. QED BY <1>3, <1>4

LEMMA SparseIInv ==
  ASSUME IInv, NEW c \in Callers,
         UseConfig(c) \/ AskConfig(c) \/ Configure(c) \/ ConfigRefused(c)
  PROVE  IInv'
<1>1. /\ UNCHANGED <<given, world, thread, version, faulted>> /\ task[c] \in {"config", "asking"}
      /\ \/ task' = [task EXCEPT ![c] = "asking"] \/ task' = [task EXCEPT ![c] = "config"]
         \/ task' = [task EXCEPT ![c] = "index"]
         \/ task' = [task EXCEPT ![c] = "failed"] /\ ~Admitted
  BY DEF UseConfig, AskConfig, Configure, ConfigRefused, Go
<1>2. kind = "sparse"
  <2>1. kind # "none"
    BY <1>1 DEF IInv, Parts
  <2>2. kind # "git"
    BY <1>1 DEF IInv, Parts
  <2>. QED BY <2>1, <2>2 DEF IInv, Typed
<1>3. /\ task' \in [Callers -> Tasks] /\ \A d \in Callers \ {c} : task'[d] = task[d]
      /\ task'[c] \in {"config", "asking", "index", "failed"} /\ (task'[c] = "failed" => ~Admitted)
  BY <1>1 DEF IInv, Typed, Tasks
<1>4. Typed' /\ Parts' /\ OneCloner' /\ OnOffer'
  BY <1>1, <1>2, <1>3 DEF IInv, Typed, Parts, OneCloner, OnOffer, given, world
<1>5. Taken' /\ Reasons'
  <2>1. \A d \in Callers : thread[d] = "none"
    BY <1>2 DEF IInv, Parts
  <2>2. Admitted' = Admitted
    BY <1>1 DEF Admitted, given, world
  <2>3. UNCHANGED <<req, thread, version, offered, faulted>>
    BY <1>1 DEF given, world
  <2>4. ASSUME NEW d \in Callers
        PROVE  /\ task'[d] \in {"download", "done"} => task[d] = task'[d]
               /\ task'[d] = "failed" => task[d] = "failed" \/ ~Admitted
    BY <1>3
  <2>5. Taken'
    BY <2>1, <2>3, <2>4 DEF IInv, Taken
  <2>6. Reasons'
    BY <2>1, <2>2, <2>3, <2>4 DEF IInv, Reasons
  <2>. QED BY <2>5, <2>6
<1>. QED BY <1>4, <1>5 DEF IInv

LEMMA ReadIndexIInv == ASSUME IInv, NEW c \in Callers, ReadIndex(c) PROVE IInv'
<1>1. Find(index, req[c]) = Best(index, req[c]) /\ Best(index, req[c]) \in Nat
  BY FindIsBest, BestNat DEF IInv, Typed
<1>2. /\ UNCHANGED <<given, world, holder, content, thread, faulted>> /\ task[c] = "index"
      /\ task' = [task EXCEPT ![c] = IF Best(index, req[c]) = None THEN "failed" ELSE "download"]
      /\ version' = [version EXCEPT ![c] = Best(index, req[c])]
  BY <1>1 DEF ReadIndex, Go, Select
<1>3. kind = "sparse"
  BY <1>2 DEF IInv, Typed, Parts
<1>. QED BY <1>1, <1>2, <1>3
         DEF IInv, Typed, Tasks, Threads, Parts, OneCloner, OnOffer, Taken, Reasons, Admitted, given, world

LEMMA RequestFailsIInv == ASSUME IInv, NEW c \in Callers, RequestFails(c) PROVE IInv'
<1>1. /\ UNCHANGED <<given, world, content, thread, version>>
      /\ task[c] \in {"asking", "index", "download"}
      /\ task' = [task EXCEPT ![c] = "failed"] /\ faulted' = faulted \cup {c}
      /\ holder' = IF holder = c THEN NoOne ELSE holder
  BY DEF RequestFails, Go, Leave
<1>2. kind = "git" => thread[c] = "found"
  BY <1>1 DEF IInv, Typed, Parts
<1>. QED BY <1>1, <1>2
         DEF IInv, Typed, Tasks, Threads, Parts, OneCloner, OnOffer, Taken, Reasons, Admitted, given, world

LEMMA DownloadIInv == ASSUME IInv, NEW c \in Callers, Download(c) PROVE IInv'
BY DEF Download, Go, IInv, Typed, Tasks, Threads, Parts, OneCloner, OnOffer, Taken, Reasons,
       Admitted, given, world

LEMMA UseCloneIInv == ASSUME IInv, NEW c \in Callers, UseClone(c) PROVE IInv'
<1>1. PICK clone \in content :
        /\ thread[c] = "cell"
        /\ thread' = [thread EXCEPT ![c] = IF Find(clone, req[c]) = None THEN "failed" ELSE "found"]
        /\ version' = [version EXCEPT ![c] = Find(clone, req[c])]
  BY DEF UseClone, Run, Select
<1>2. kind = "git"
  BY <1>1 DEF IInv, Typed, Parts
<1>3. clone \in Seq(Entry)
  BY <1>2 DEF IInv, OneCloner
<1>4. Find(clone, req[c]) = Best(clone, req[c]) /\ Best(clone, req[c]) \in Nat
  BY <1>3, FindIsBest, BestNat DEF IInv, Typed
<1>5. UNCHANGED <<given, world, holder, content, task, faulted>> /\ task[c] \notin {"download", "done"}
  BY <1>1, <1>2 DEF UseClone, IInv, Parts
<1>. QED BY <1>1, <1>2, <1>4, <1>5
         DEF IInv, Typed, Tasks, Threads, Parts, OneCloner, OnOffer, Taken, Reasons, Admitted, given, world

LEMMA StartCloneIInv == ASSUME IInv, NEW c \in Callers, StartClone(c) PROVE IInv'
BY NoOneAssumption
   DEF StartClone, Run, IInv, Typed, Tasks, Threads, Parts, OneCloner, OnOffer, Taken, Reasons,
       Admitted, given, world

LEMMA ClonedIInv == ASSUME IInv, NEW c \in Callers, Cloned(c) PROVE IInv'
<1>1. /\ UNCHANGED <<given, world, task, version, faulted>> /\ thread[c] = "cloning"
      /\ thread' = [thread EXCEPT ![c] = "cell"] /\ content' = {index}
  BY DEF Cloned, Run
<1>2. kind = "git"
  BY <1>1 DEF IInv, Typed, Parts
<1>3. \A d \in Callers : d # c => thread[d] # "cloning"
  BY <1>1, <1>2 DEF IInv, OneCloner
<1>4. content = {}
  BY <1>1, <1>2 DEF IInv, OneCloner
<1>. QED BY <1>1, <1>2, <1>3, <1>4
         DEF IInv, Typed, Tasks, Threads, Parts, OneCloner, OnOffer, Taken, Reasons, Admitted, given, world

LEMMA CloneEndsIInv == ASSUME IInv, NEW c \in Callers, CloneFails(c) \/ CloneCancelled(c) PROVE IInv'
<1>1. /\ UNCHANGED <<given, world, content, task, version>> /\ thread[c] = "cloning"
      /\ thread' = [thread EXCEPT ![c] = "failed"] /\ faulted \subseteq faulted'
      /\ c \in faulted' \/ task[c] = "aborted"
  BY DEF CloneFails, CloneCancelled, Run, Cancelled
<1>2. kind = "git"
  BY <1>1 DEF IInv, Typed, Parts
<1>3. \A d \in Callers : d # c => thread[d] # "cloning"
  BY <1>1, <1>2 DEF IInv, OneCloner
<1>. QED BY <1>1, <1>2, <1>3
         DEF IInv, Typed, Tasks, Threads, Parts, OneCloner, OnOffer, Taken, Reasons, Admitted, given, world

LEMMA JoinedIInv == ASSUME IInv, NEW c \in Callers, Joined(c) PROVE IInv'
BY DEF Joined, Go, IInv, Typed, Tasks, Threads, Parts, OneCloner, OnOffer, Taken, Reasons,
       Admitted, given, world

LEMMA AbortIInv == ASSUME IInv, NEW c \in Callers, Abort(c) PROVE IInv'
BY DEF Abort, Over, Leave, IInv, Typed, Tasks, Threads, Parts, OneCloner, OnOffer, Taken, Reasons,
       Admitted, given, world

(* What has been on offer stays so; and what the index has now is added. *)
LEMMA EditIInv == ASSUME IInv, Edit PROVE IInv'
<1>1. index' \in Seq(Entry)
  <2>1. ASSUME NEW v \in Version, index' = Append(index, [vers |-> v, yanked |-> FALSE])
        PROVE  index' \in Seq(Entry)
    BY <2>1 DEF IInv, Typed, Entry
  <2>2. ASSUME NEW i \in DOMAIN index, index' = [index EXCEPT ![i].yanked = ~@]
        PROVE  index' \in Seq(Entry)
    <3> DEFINE e == [index[i] EXCEPT !.yanked = ~@]
    <3>1. index \in Seq(Entry) /\ index[i] \in Entry
      BY DEF IInv, Typed
    <3>2. e \in Entry
      BY <3>1 DEF Entry
    <3>3. index' = [index EXCEPT ![i] = e]
      BY <2>2
    <3>. HIDE DEF e
    <3>. QED BY <3>1, <3>2, <3>3
  <2>. QED BY <2>1, <2>2 DEF Edit
<1>2. /\ kind # "none" /\ offered' = [c \in Callers |-> offered[c] \cup {Best(index', req[c])}]
      /\ UNCHANGED <<given, holder, content, task, thread, version, faulted>>
  BY DEF Edit, given
<1>3. \A c \in Callers : Best(index', req[c]) \in Nat
  BY <1>1, BestNat DEF IInv, Typed
<1>4. Typed'
  BY <1>1, <1>2, <1>3 DEF IInv, Typed, given
<1>. QED BY <1>2, <1>4 DEF IInv, Typed, Parts, OneCloner, OnOffer, Taken, Reasons, Admitted, given

LEMMA LookupsIInv == IInv /\ Lookups => IInv'
<1>1. ASSUME IInv, UNCHANGED vars PROVE IInv'
  BY <1>1 DEF vars, IInv, Typed, Parts, OneCloner, OnOffer, Taken, Reasons, Admitted
<1>. QED
  BY <1>1, StartIInv, SparseIInv, ReadIndexIInv, RequestFailsIInv, DownloadIInv, UseCloneIInv,
     StartCloneIInv, ClonedIInv, CloneEndsIInv, JoinedIInv, AbortIInv, EditIInv
  DEF Lookups, Task, Thread, AllOver

LEMMA NextIInv == IInv /\ [Next]_vars => IInv'
<1>1. ASSUME IInv, UNCHANGED vars PROVE IInv'
  BY <1>1 DEF vars, IInv, Typed, Parts, OneCloner, OnOffer, Taken, Reasons, Admitted
<1>. QED BY <1>1, OpenedIInv, LookupsIInv DEF Next

LEMMA Invariance == Spec => []IInv
BY InitIInv, NextIInv, PTL DEF Spec

(* For any number of tasks, aborted at any time, and whatever is published or yanked
   meanwhile: a lookup returns the manifest of the greatest version that was to be
   had, and lookups in one clone agree. *)
THEOREM BestIsTaken == Spec => []ManifestOfBest
<1>1. IInv => ManifestOfBest
  <2> SUFFICES ASSUME IInv, NEW c \in Callers, task[c] = "done"
               PROVE  /\ version[c] \in offered[c] \ {None}
                      /\ \A d \in Callers : kind = "git" /\ task[d] = "done" /\ req[c] = req[d]
                                               => version[c] = version[d]
    BY DEF ManifestOfBest
  <2>1. ASSUME NEW d \in Callers, kind = "git", task[d] = "done", req[c] = req[d]
        PROVE  version[c] = version[d]
    <3>1. thread[c] = "found" /\ thread[d] = "found"
      BY <2>1 DEF IInv, Parts
    <3>2. PICK clone, other \in content :
            version[c] = Best(clone, req[c]) /\ version[d] = Best(other, req[d])
      BY <3>1 DEF IInv, Taken
    <3>3. clone = other
      BY <2>1 DEF IInv, OneCloner
    <3>. QED BY <2>1, <3>2, <3>3
  <2>. QED BY <2>1 DEF IInv, Taken
<1>. QED BY Invariance, <1>1, PTL

(* No lookup fails because another one that shares the cell has failed or has been
   aborted inside it. *)
THEOREM FailuresAreOwn == Spec => []FailsForItself
<1>1. IInv => FailsForItself
  BY DEF IInv, Reasons, FailsForItself
<1>. QED BY Invariance, <1>1, PTL

-----------------------------------------------------------------------------
(* RegistrySession *)

(* Loading the configuration leaves the lookups alone, and the token it hands over
   is there or not: a session does what its registry promises. *)
THEOREM SessionLooksUp == SessionSpec => Spec
<1> DEFINE AuthOK == auth \in BOOLEAN
<1>1. SessionInit => Init /\ AuthOK
  BY DEF SessionInit, ConfigInit
<1>2. AuthOK /\ [SessionNext]_<<vars, loading>> => [Next]_vars /\ AuthOK'
  <2> SUFFICES ASSUME AuthOK, [SessionNext]_<<vars, loading>> PROVE [Next]_vars /\ AuthOK'
    OBVIOUS
  <2>1. CASE Configures
    BY <2>1 DEF Configures, Load, LoadRoot, LoadInclude, IncludeFails, AllIncluded,
                Resolve, UseIndex, UseName, FindIndex, FindProvider, FindToken, Drop,
                registry
  <2>2. CASE Resolved
    BY <2>2 DEF Resolved, HandOver, Next
  <2>3. CASE LooksUp
    BY <2>3 DEF LooksUp, loading, Next
  <2>4. CASE UNCHANGED <<vars, loading>>
    BY <2>4 DEF loading
  <2>. QED BY <2>1, <2>2, <2>3, <2>4 DEF SessionNext, Stays
<1>. QED BY <1>1, <1>2, PTL DEF SessionSpec, Spec

-----------------------------------------------------------------------------
(* What RegistryConfig is built from *)

LEMMA IteratedLemma ==
  ASSUME NEW S, NEW x \in S, NEW step \in [S -> S]
  PROVE  /\ Iterated(step, x, 0) = x
         /\ \A n \in Nat : /\ Iterated(step, x, n) \in S
                           /\ Iterated(step, x, n + 1) = step[Iterated(step, x, n)]
<1> DEFINE Fits(f) == f = [k \in Nat |-> IF k = 0 THEN x ELSE step[f[k - 1]]]
           steps == [n \in Nat |-> step]
<1>1. PICK f : UnfoldsAll(f, S, x, steps)
  <2>1. steps \in [Nat -> [S -> S]]
    OBVIOUS
  <2>. HIDE DEF steps
  <2>. QED BY <2>1, Defined, Zenon
<1>2. Fits(f)
  <2>1. f \in [Nat -> S] /\ f[0] = x /\ \A n \in Nat : f[n + 1] = step[f[n]]
    BY <1>1 DEF UnfoldsAll
  <2>2. \A k \in Nat \ {0} : k - 1 \in Nat /\ f[(k - 1) + 1] = step[f[k - 1]]
    BY <2>1
  <2>3. \A k \in Nat \ {0} : (k - 1) + 1 = k
    OBVIOUS
  <2>. QED BY <2>1, <2>2, <2>3
<1> DEFINE after == CHOOSE g : Fits(g)
<1>3. Fits(after)
  BY <1>2
<1>4. \A n : Iterated(step, x, n) = after[n]
  BY DEF Iterated
<1>. HIDE DEF after
<1>5. after[0] = x /\ \A n \in Nat : after[n + 1] = step[after[n]]
  BY <1>3
<1>6. \A n \in Nat : after[n] \in S
  <2> DEFINE E == {n \in Nat : after[n] \in S}
  <2>1. 0 \in E /\ \A n \in Nat : n \in E => n + 1 \in E
    BY <1>5
  <2>. HIDE DEF E
  <2>2. Nat \subseteq E
    BY <2>1, Induct
  <2>. QED BY <2>2 DEF E
<1>. QED BY <1>4, <1>5, <1>6

LEMMA MaxLemma ==
  ASSUME NEW n \in Nat, NEW S \in SUBSET (1..n), S # {}
  PROVE  Max(S) \in S
<1>1. PICK m \in {n - i : i \in S} : \A k \in {n - i : i \in S} : m <= k
  <2> DEFINE U == {n - i : i \in S}
  <2>1. \A i \in S : n - i \in Nat
    OBVIOUS
  <2>2. U \in SUBSET Nat /\ U # {}
    BY <2>1
  <2>. HIDE DEF U
  <2>3. \E m \in U : \A k \in U : m <= k
    BY <2>2, LeastNatural
  <2>. QED BY <2>3 DEF U
<1>2. PICK i \in S : m = n - i
  OBVIOUS
<1>3. ASSUME NEW k \in S PROVE i >= k
  <2>1. n - k \in {n - j : j \in S} /\ k \in Nat /\ i \in Nat
    OBVIOUS
  <2>2. n - i <= n - k
    BY <1>1, <1>2, <2>1
  <2>. QED BY <2>1, <2>2
<1>4. \E x \in S : \A y \in S : x >= y
  BY <1>3
<1>. QED BY <1>4 DEF Max

(* The first value that is set: values are what is said from the front to the back. *)
LEMMA FirstSetLemma ==
  ASSUME NEW n \in Nat, NEW v, DOMAIN v = 1..n
  PROVE  /\ (\A i \in 1..n : v[i] = Nothing) => FirstSet(v) = Nothing
         /\ \A i \in 1..n : v[i] # Nothing /\ (\A j \in 1..(i - 1) : v[j] = Nothing) => FirstSet(v) = v[i]
         /\ FirstSet(v) = Nothing => \A i \in 1..n : v[i] = Nothing
         /\ FirstSet(v) # Nothing =>
              \E i \in 1..n : FirstSet(v) = v[i] /\ v[i] # Nothing /\ \A j \in 1..(i - 1) : v[j] = Nothing
<1> DEFINE set == {i \in 1..n : v[i] # Nothing}
<1>1. FirstSet(v) = IF set = {} THEN Nothing ELSE v[Min(set)]
  BY DEF FirstSet
<1>2. ASSUME set # {}
      PROVE  /\ Min(set) \in set /\ \A j \in set : Min(set) <= j
  <2>0. set \in SUBSET Nat
    OBVIOUS
  <2>. HIDE DEF set
  <2>1. \E x \in set : \A y \in set : x <= y
    BY <1>2, <2>0, LeastNatural
  <2>. QED BY <2>1 DEF Min
<1>3. ASSUME NEW i \in 1..n, v[i] # Nothing, \A j \in 1..(i - 1) : v[j] = Nothing
      PROVE  FirstSet(v) = v[i]
  <2>1. i \in set /\ \A j \in set : i <= j
    BY <1>3
  <2>2. Min(set) = i
    BY <1>2, <2>1
  <2>. QED BY <1>1, <2>1, <2>2
<1>4. ASSUME set # {}
      PROVE  \E i \in 1..n : FirstSet(v) = v[i] /\ v[i] # Nothing /\ \A j \in 1..(i - 1) : v[j] = Nothing
  <2>1. Min(set) \in 1..n /\ FirstSet(v) = v[Min(set)] /\ v[Min(set)] # Nothing
    BY <1>1, <1>2, <1>4
  <2>2. \A j \in 1..(Min(set) - 1) : v[j] = Nothing
    BY <1>2, <1>4, <2>1
  <2>. QED BY <2>1, <2>2
<1>5. set = {} <=> \A i \in 1..n : v[i] = Nothing
  OBVIOUS
<1>. HIDE DEF set
<1>. QED BY <1>1, <1>3, <1>4, <1>5

(* A value more at the back counts if there is none before it. *)
LEMMA FirstSetLast ==
  ASSUME NEW n \in Nat, NEW v, NEW w, DOMAIN v = 1..n, DOMAIN w = 1..(n + 1), \A i \in 1..n : w[i] = v[i]
  PROVE  FirstSet(w) = OrElse(FirstSet(v), w[n + 1])
<1>1. CASE FirstSet(v) # Nothing
  <2>1. PICK i \in 1..n : FirstSet(v) = v[i] /\ v[i] # Nothing /\ \A j \in 1..(i - 1) : v[j] = Nothing
    BY <1>1, FirstSetLemma
  <2>2. i \in 1..(n + 1) /\ w[i] # Nothing /\ \A j \in 1..(i - 1) : w[j] = Nothing
    BY <2>1
  <2>3. FirstSet(w) = w[i]
    BY <2>2, FirstSetLemma
  <2>. QED BY <1>1, <2>1, <2>3 DEF OrElse
<1>2. CASE FirstSet(v) = Nothing
  <2>1. \A i \in 1..n : w[i] = Nothing
    BY <1>2, FirstSetLemma
  <2>2. n + 1 \in Nat /\ n + 1 \in 1..(n + 1) /\ \A j \in 1..((n + 1) - 1) : w[j] = Nothing
    BY <2>1
  <2>3. CASE w[n + 1] # Nothing
    <3>1. FirstSet(w) = w[n + 1]
      BY <2>2, <2>3, FirstSetLemma
    <3>. QED BY <1>2, <3>1 DEF OrElse
  <2>4. CASE w[n + 1] = Nothing
    <3>1. \A i \in 1..(n + 1) : w[i] = Nothing
      BY <2>1, <2>4
    <3>2. FirstSet(w) = Nothing
      BY <2>2, <3>1, FirstSetLemma
    <3>. QED BY <1>2, <2>4, <3>2 DEF OrElse
  <2>. QED BY <2>3, <2>4
<1>. QED BY <1>1, <1>2

(* The sequences of a prefix as one, the last one first. *)
Joins(joined, s, X) ==
  /\ joined \in [0..Len(s) -> Seq(X)]
  /\ LastFirst(s) = joined[Len(s)]
  /\ joined[0] = <<>>
  /\ \A n \in 1..Len(s) : joined[n] = s[n] \o joined[n - 1]

LEMMA JoinedPrefixes ==
  ASSUME NEW X, NEW s \in Seq(Seq(X))
  PROVE  \E joined : Joins(joined, s, X)
<1> DEFINE N == Len(s)
           Join(n, q) == s[n] \o q
           step == [n \in 1..N |-> [q \in Seq(X) |-> Join(n, q)]]
           Fits(f) == f = [n \in 0..N |-> IF n = 0 THEN <<>> ELSE Join(n, f[n - 1])]
           joined == CHOOSE g : Fits(g)
<1>1. N \in Nat /\ <<>> \in Seq(X) /\ \A n \in 1..N : s[n] \in Seq(X)
  OBVIOUS
<1>2. \A n \in 1..N, q \in Seq(X) : Join(n, q) \in Seq(X)
  BY <1>1, ConcatProperties
<1>3. LastFirst(s) = joined[N]
  BY DEF LastFirst
<1>4. \A n, q : Join(n, q) = s[n] \o q
  OBVIOUS
<1>. HIDE DEF Join
<1>5. \E f : Unfolds(f, N, Seq(X), <<>>, step)
  <2>1. IsStep(N, Seq(X), step)
    BY <1>2 DEF IsStep
  <2>. HIDE DEF N, step
  <2>. QED BY <1>1, <2>1, DefinedUpTo, Zenon
<1>6. \E f : Fits(f)
  <2>1. PICK f : Unfolds(f, N, Seq(X), <<>>, step)
    BY <1>5, Zenon
  <2>2. f \in [0..N -> Seq(X)] /\ f[0] = <<>> /\ \A n \in 1..N : f[n] = step[n][f[n - 1]]
    BY <2>1 DEF Unfolds
  <2>. HIDE DEF N
  <2>3. ASSUME NEW n \in 1..N PROVE f[n - 1] \in Seq(X) /\ f[n] = Join(n, f[n - 1])
    <3>1. n - 1 \in 0..N
      BY <1>1
    <3>2. f[n - 1] \in Seq(X)
      BY <2>2, <3>1, Zenon
    <3>3. step[n][f[n - 1]] = Join(n, f[n - 1])
      BY <3>2, Zenon
    <3>. QED BY <2>2, <3>2, <3>3
  <2>4. Fits(f)
    BY <1>1, <2>2, <2>3
  <2>. HIDE DEF Fits
  <2>. QED BY <2>4
<1>7. Fits(joined)
  <2>. HIDE DEF Fits
  <2>. QED BY <1>6
<1>. HIDE DEF joined, N
<1>8. joined[0] = <<>> /\ \A n \in 1..N : joined[n] = Join(n, joined[n - 1])
  BY <1>1, <1>7
<1>9. joined \in [0..N -> Seq(X)]
  <2> DEFINE E == {n \in 0..N : joined[n] \in Seq(X)}
  <2>1. 0 \in E
    <3>1. 0 \in 0..N
      BY <1>1
    <3>. QED BY <1>1, <1>8, <3>1, Zenon
  <2>2. ASSUME NEW n \in 1..N, n - 1 \in E PROVE n \in E
    BY <1>2, <1>8, <2>2
  <2>. HIDE DEF E
  <2>3. 0..N \subseteq E
    BY <1>1, <2>1, <2>2, InductUpTo
  <2>. QED BY <1>7, <2>3 DEF E
<1>10. Joins(joined, s, X)
  BY <1>3, <1>4, <1>8, <1>9 DEF Joins, N
<1>. QED BY <1>10

LEMMA IsSeqLemma ==
  ASSUME NEW X, NEW n \in Nat, NEW s \in [1..n -> X]
  PROVE  s \in Seq(X) /\ Len(s) = n
OBVIOUS

LEMMA ConcatAt ==
  ASSUME NEW X, NEW a \in Seq(X), NEW b \in Seq(X), NEW p, NEW q, Len(a) = p, Len(b) = q
  PROVE  a \o b \in Seq(X) /\ a \o b = [i \in 1..(p + q) |-> IF i <= p THEN a[i] ELSE b[i - p]]
<1> DEFINE ab == a \o b
<1>1. ab \in Seq(X) /\ Len(ab) = p + q /\ \A i \in 1..(p + q) : ab[i] = IF i <= p THEN a[i] ELSE b[i - p]
  BY ConcatProperties
<1>. HIDE DEF ab
<1>2. DOMAIN ab = 1..(p + q)
  BY <1>1
<1>3. ab = [i \in 1..(p + q) |-> IF i <= p THEN a[i] ELSE b[i - p]]
  BY <1>1, <1>2
<1>. QED BY <1>1, <1>3 DEF ab

LEMMA AppendAt ==
  ASSUME NEW X, NEW a \in Seq(X), NEW x \in X, NEW n \in Nat \ {0}, Len(a) = n - 1
  PROVE  a \o <<x>> = [i \in 1..n |-> IF i <= n - 1 THEN a[i] ELSE x]
<1> DEFINE b == Append(a, x)
<1>1. Len(b) = n /\ b \in Seq(X) /\ b[n] = x /\ \A i \in 1..(n - 1) : b[i] = a[i]
  BY AppendProperties
<1>2. b = a \o <<x>>
  BY AppendIsConcat
<1>. HIDE DEF b
<1>3. b = [i \in 1..n |-> IF i <= n - 1 THEN a[i] ELSE x]
  BY <1>1
<1>. QED BY <1>2, <1>3

(* Named, so that the provers do not take concatenations apart. *)
Glued(ab, a, b, X) == ab \in Seq(X) /\ ab = a \o b

LEMMA GluedExists ==
  ASSUME NEW X, NEW a \in Seq(X), NEW b \in Seq(X)
  PROVE  \E ab : Glued(ab, a, b, X)
BY ConcatProperties DEF Glued

Associates(X) == \A a, b, c \in Seq(X) : (a \o b) \o c = a \o (b \o c)

LEMMA Associative == ASSUME NEW X PROVE Associates(X)
<1> SUFFICES ASSUME NEW a \in Seq(X), NEW b \in Seq(X), NEW c \in Seq(X)
             PROVE  (a \o b) \o c = a \o (b \o c)
  BY DEF Associates
<1>. QED OBVIOUS

LEMMA ThreeConcat ==
  ASSUME NEW X, NEW a \in Seq(X), NEW b \in Seq(X), NEW c \in Seq(X),
         NEW ab, NEW bc, NEW l, NEW r,
         Glued(ab, a, b, X), Glued(bc, b, c, X), Glued(l, ab, c, X), Glued(r, a, bc, X)
  PROVE  l = r
<1>1. (a \o b) \o c = a \o (b \o c)
  OBVIOUS
<1>. QED BY <1>1, Zenon DEF Glued

LEMMA FourConcat ==
  ASSUME NEW X, NEW a \in Seq(X), NEW b \in Seq(X), NEW c \in Seq(X), NEW e \in Seq(X)
  PROVE  a \o ((b \o c) \o e) = (a \o b) \o (c \o e)
<1>1. PICK ab : Glued(ab, a, b, X)
  BY GluedExists, Zenon
<1>2. PICK bc : Glued(bc, b, c, X)
  BY GluedExists, Zenon
<1>3. PICK ce : Glued(ce, c, e, X)
  BY GluedExists, Zenon
<1>4. ab \in Seq(X) /\ bc \in Seq(X) /\ ce \in Seq(X)
  BY <1>1, <1>2, <1>3 DEF Glued
<1>5. PICK bce : Glued(bce, bc, e, X)
  BY <1>4, GluedExists, Zenon
<1>6. PICK l : Glued(l, ab, ce, X)
  BY <1>4, GluedExists, Zenon
<1>7. bce \in Seq(X)
  BY <1>5 DEF Glued
<1>8. PICK r : Glued(r, a, bce, X)
  BY <1>7, GluedExists, Zenon
<1>9. PICK bce2 : Glued(bce2, b, ce, X)
  BY <1>4, GluedExists, Zenon
<1>10. bce = bce2
  BY <1>2, <1>3, <1>5, <1>9, ThreeConcat, Zenon
<1>11. Glued(r, a, bce2, X)
  BY <1>8, <1>10, Zenon
<1>12. l = r
  BY <1>1, <1>4, <1>6, <1>9, <1>11, ThreeConcat, Zenon
<1>13. r = a \o ((b \o c) \o e)
  BY <1>2, <1>5, <1>8, Zenon DEF Glued
<1>14. l = (a \o b) \o (c \o e)
  BY <1>1, <1>3, <1>6, Zenon DEF Glued
<1>. QED BY <1>12, <1>13, <1>14, Zenon

LEMMA LastFirstConcat ==
  ASSUME NEW X, NEW a \in Seq(Seq(X)), NEW b \in Seq(Seq(X))
  PROVE  /\ LastFirst(a) \in Seq(X)
         /\ LastFirst(a \o b) = LastFirst(b) \o LastFirst(a)
<1> DEFINE ab == a \o b
           m == Len(a)
           N == Len(b)
<1>1. /\ ab \in Seq(Seq(X)) /\ Len(ab) = m + N /\ m \in Nat /\ N \in Nat
      /\ \A i \in 1..m : ab[i] = a[i]
      /\ \A i \in 1..N : ab[m + i] = b[i] /\ b[i] \in Seq(X)
  <2>1. m \in Nat /\ N \in Nat /\ \A i \in 1..N : b[i] \in Seq(X)
    OBVIOUS
  <2>2. /\ ab \in Seq(Seq(X)) /\ Len(ab) = m + N
        /\ \A i \in 1..(m + N) : ab[i] = IF i <= m THEN a[i] ELSE b[i - m]
    BY ConcatProperties
  <2>. HIDE DEF ab, m, N
  <2>3. \A i \in 1..m : ab[i] = a[i]
    BY <2>1, <2>2
  <2>4. ASSUME NEW i \in 1..N PROVE ab[m + i] = b[i]
    <3>1. m + i \in 1..(m + N) /\ ~(m + i <= m) /\ (m + i) - m = i
      BY <2>1
    <3>. QED BY <2>2, <3>1
  <2>. QED BY <2>1, <2>2, <2>3, <2>4
<1>a. Associates(X)
  BY Associative, Zenon
<1>2. PICK ja : Joins(ja, a, X)
  BY JoinedPrefixes, Zenon
<1>3. PICK jb : Joins(jb, b, X)
  BY JoinedPrefixes, Zenon
<1>4. PICK jab : Joins(jab, ab, X)
  BY <1>1, JoinedPrefixes, Zenon
<1>. HIDE DEF ab, m, N
<1>5. /\ ja \in [0..m -> Seq(X)] /\ ja[0] = <<>> /\ LastFirst(a) = ja[m]
      /\ \A n \in 1..m : ja[n] = a[n] \o ja[n - 1]
  BY <1>2 DEF Joins, m
<1>6. /\ jb \in [0..N -> Seq(X)] /\ jb[0] = <<>> /\ LastFirst(b) = jb[N]
      /\ \A n \in 1..N : jb[n] = b[n] \o jb[n - 1]
  BY <1>3 DEF Joins, N
<1>7. /\ jab \in [0..(m + N) -> Seq(X)] /\ jab[0] = <<>> /\ LastFirst(ab) = jab[m + N]
      /\ \A n \in 1..(m + N) : jab[n] = ab[n] \o jab[n - 1]
  BY <1>1, <1>4 DEF Joins
<1>8. jab[m] = ja[m]
  <2> DEFINE E == {n \in 0..m : jab[n] = ja[n]}
  <2>1. 0 \in E
    BY <1>1, <1>5, <1>7
  <2>2. ASSUME NEW n \in 1..m, n - 1 \in E PROVE n \in E
    <3>1. n \in 1..(m + N) /\ ab[n] = a[n]
      BY <1>1
    <3>2. jab[n - 1] = ja[n - 1] /\ n \in 0..m
      BY <2>2
    <3>3. jab[n] = a[n] \o ja[n - 1]
      BY <1>7, <3>1, <3>2, Zenon
    <3>4. jab[n] = ja[n]
      BY <1>5, <3>3, Zenon
    <3>. QED BY <3>2, <3>4
  <2>. HIDE DEF E
  <2>3. 0..m \subseteq E
    BY <1>1, <2>1, <2>2, InductUpTo
  <2>. QED BY <1>1, <2>3 DEF E
<1>9. jab[m + N] = jb[N] \o ja[m]
  <2> DEFINE E == {n \in 0..N : jab[m + n] = jb[n] \o ja[m]}
  <2>0. ja[m] \in Seq(X)
    <3>1. m \in 0..m
      BY <1>1
    <3>. QED BY <1>5, <3>1, Zenon
  <2>1. 0 \in E
    <3>1. jb[0] \o ja[m] = ja[m]
      BY <1>6, <2>0, ConcatEmptySeq
    <3>2. m + 0 = m /\ 0 \in 0..N
      BY <1>1
    <3>3. jab[m + 0] = jb[0] \o ja[m]
      BY <1>8, <3>1, <3>2, Zenon
    <3>. QED BY <3>2, <3>3, Zenon
  <2>2. ASSUME NEW n \in 1..N, n - 1 \in E PROVE n \in E
    <3>1. m + n \in 1..(m + N) /\ (m + n) - 1 = m + (n - 1) /\ n \in 0..N /\ n - 1 \in 0..N
      BY <1>1
    <3>2. jab[m + (n - 1)] = jb[n - 1] \o ja[m]
      BY <2>2
    <3>3. jab[m + n] = b[n] \o (jb[n - 1] \o ja[m])
      BY <1>1, <1>7, <3>1, <3>2, Zenon
    <3>4. b[n] \in Seq(X) /\ jb[n - 1] \in Seq(X)
      BY <1>1, <1>6, <3>1, Zenon
    <3>5. (b[n] \o jb[n - 1]) \o ja[m] = b[n] \o (jb[n - 1] \o ja[m])
      BY <2>0, <3>4, <1>a, Zenon DEF Associates
    <3>6. jab[m + n] = jb[n] \o ja[m]
      BY <1>6, <3>3, <3>5, Zenon
    <3>. QED BY <3>1, <3>6, Zenon
  <2>. HIDE DEF E
  <2>3. 0..N \subseteq E
    BY <1>1, <2>1, <2>2, InductUpTo
  <2>4. N \in 0..N
    BY <1>1
  <2>. QED BY <2>3, <2>4 DEF E
<1>. QED BY <1>1, <1>5, <1>6, <1>7, <1>9 DEF ab

LEMMA LastFirstFew ==
  ASSUME NEW X, NEW s \in Seq(Seq(X))
  PROVE  /\ Len(s) = 0 => LastFirst(s) = <<>>
         /\ Len(s) = 1 => LastFirst(s) = s[1]
<1>1. PICK joined : Joins(joined, s, X)
  BY JoinedPrefixes, Zenon
<1>2. Len(s) = 0 => LastFirst(s) = <<>>
  BY <1>1 DEF Joins
<1>3. ASSUME Len(s) = 1 PROVE LastFirst(s) = s[1]
  <2>1. s[1] \in Seq(X) /\ s[1] \o <<>> = s[1]
    BY <1>3, ConcatEmptySeq
  <2>. QED BY <1>1, <1>3, <2>1 DEF Joins
<1>. QED BY <1>2, <1>3

(* Files that can be loaded, and what they set. *)
Loads(d, l) == l \in Seq(Files) /\ \A i \in DOMAIN l : d[l[i]].text = "config"

Fields == {"index", "replace", "provider"}

Entries(c, d, l) ==
  /\ c = [default |-> c.default, global |-> c.global, registries |-> c.registries, alias |-> c.alias]
  /\ \A r \in Registries, x \in Fields :
       c.registries[r][x] = FirstSet([i \in DOMAIN l |-> d[l[i]].sets.registries[r][x]])
  /\ c.alias = [a \in Aliases |-> FirstSet([i \in DOMAIN l |-> d[l[i]].sets.alias[a]])]

(* The configuration c has been put together from the files l. *)
Reads(c, d, l) ==
  /\ Entries(c, d, l)
  /\ c.default = FirstSet([i \in DOMAIN l |-> d[l[i]].sets.default])
  /\ c.global = LastFirst([i \in DOMAIN l |-> d[l[i]].sets.global])

LEMMA SetsLemma ==
  ASSUME NEW d \in [Files -> File], NEW f \in Files, d[f].text = "config"
  PROVE  /\ d[f].include \in Seq(Files)
         /\ d[f].sets \in Setting
         /\ d[f].sets.global \in Seq(Provider)
         /\ d[f].sets.default \in Option(Registries)
         /\ d[f].sets.alias \in [Aliases -> Option(Provider)]
         /\ \A r \in Registries : /\ d[f].sets.registries[r].replace \in Option(Registries)
                                  /\ d[f].sets.registries[r].provider \in Option(Provider)
<1>1. d[f].include \in Includes /\ d[f].sets \in Settings
  <2>1. d[f] \in File
    OBVIOUS
  <2>. QED BY <2>1 DEF File
<1>2. d[f].include \in Seq(Files) /\ d[f].sets \in Setting
  BY <1>1, IncludesAssumption, SettingsAssumption
<1>. QED BY <1>2 DEF Setting, RegistryEntry

LEMMA FirstSetIn ==
  ASSUME NEW n \in Nat, NEW v, DOMAIN v = 1..n, NEW S, \A i \in 1..n : v[i] \in Option(S)
  PROVE  FirstSet(v) \in Option(S)
BY FirstSetLemma DEF Option

LEMMA FirstSetOne ==
  ASSUME NEW v, DOMAIN v = 1..1
  PROVE  FirstSet(v) = v[1]
<1>1. 1 \in Nat /\ 1 \in 1..1 /\ \A j \in 1..(1 - 1) : v[j] = Nothing
  OBVIOUS
<1>2. CASE v[1] = Nothing
  <2>1. \A i \in 1..1 : v[i] = Nothing
    BY <1>2
  <2>. QED BY <1>1, <1>2, <2>1, FirstSetLemma
<1>3. CASE v[1] # Nothing
  BY <1>1, <1>3, FirstSetLemma
<1>. QED BY <1>2, <1>3

LEMMA EntriesTypes ==
  ASSUME NEW d \in [Files -> File], NEW l, Loads(d, l), NEW c, Entries(c, d, l)
  PROVE  /\ c.alias \in [Aliases -> Option(Provider)]
         /\ \A r \in Registries : /\ c.registries[r].replace \in Option(Registries)
                                  /\ c.registries[r].provider \in Option(Provider)
<1>1. Len(l) \in Nat /\ DOMAIN l = 1..Len(l) /\ \A i \in DOMAIN l : l[i] \in Files /\ d[l[i]].text = "config"
  BY DEF Loads
<1>2. ASSUME NEW a \in Aliases PROVE c.alias[a] \in Option(Provider)
  <2> DEFINE v == [i \in DOMAIN l |-> d[l[i]].sets.alias[a]]
  <2>1. \A i \in DOMAIN l : v[i] \in Option(Provider)
    BY <1>1, SetsLemma
  <2>2. c.alias[a] = FirstSet(v) /\ DOMAIN v = 1..Len(l)
    BY <1>1 DEF Entries
  <2>. HIDE DEF v
  <2>. QED BY <1>1, <2>1, <2>2, FirstSetIn
<1>3. ASSUME NEW r \in Registries PROVE c.registries[r].replace \in Option(Registries)
  <2> DEFINE v == [i \in DOMAIN l |-> d[l[i]].sets.registries[r].replace]
  <2>1. \A i \in DOMAIN l : v[i] \in Option(Registries)
    BY <1>1, SetsLemma
  <2>2. c.registries[r].replace = FirstSet(v) /\ DOMAIN v = 1..Len(l)
    BY <1>1 DEF Entries, Fields
  <2>. HIDE DEF v
  <2>. QED BY <1>1, <2>1, <2>2, FirstSetIn
<1>4. ASSUME NEW r \in Registries PROVE c.registries[r].provider \in Option(Provider)
  <2> DEFINE v == [i \in DOMAIN l |-> d[l[i]].sets.registries[r].provider]
  <2>1. \A i \in DOMAIN l : v[i] \in Option(Provider)
    BY <1>1, SetsLemma
  <2>2. c.registries[r].provider = FirstSet(v) /\ DOMAIN v = 1..Len(l)
    BY <1>1 DEF Entries, Fields
  <2>. HIDE DEF v
  <2>. QED BY <1>1, <2>1, <2>2, FirstSetIn
<1>5. c.alias = [a \in Aliases |-> c.alias[a]]
  BY DEF Entries
<1>. QED BY <1>2, <1>3, <1>4, <1>5

LEMMA ReadRoot ==
  ASSUME NEW d \in [Files -> File], NEW f \in Files, d[f].text = "config"
  PROVE  Loads(d, <<f>>) /\ Reads(d[f].sets, d, <<f>>)
<1> DEFINE l == <<f>>
           c == d[f].sets
<1>1. l \in Seq(Files) /\ DOMAIN l = 1..1 /\ l[1] = f
  OBVIOUS
<1>2. c \in Setting /\ c.global \in Seq(Provider) /\ c.alias \in [Aliases -> Option(Provider)]
  BY SetsLemma
<1>. HIDE DEF l
<1>3. c = [default |-> c.default, global |-> c.global, registries |-> c.registries, alias |-> c.alias]
  BY <1>2 DEF Setting
<1>4. c.default = FirstSet([i \in DOMAIN l |-> d[l[i]].sets.default])
  BY <1>1, FirstSetOne
<1>5. ASSUME NEW r \in Registries, NEW x \in Fields
      PROVE  c.registries[r][x] = FirstSet([i \in DOMAIN l |-> d[l[i]].sets.registries[r][x]])
  BY <1>1, FirstSetOne
<1>6. c.alias = [a \in Aliases |-> FirstSet([i \in DOMAIN l |-> d[l[i]].sets.alias[a]])]
  <2>1. \A a \in Aliases : c.alias[a] = FirstSet([i \in DOMAIN l |-> d[l[i]].sets.alias[a]])
    BY <1>1, FirstSetOne
  <2>. QED BY <1>2, <2>1
<1>7. c.global = LastFirst([i \in DOMAIN l |-> d[l[i]].sets.global])
  <2> DEFINE v == [i \in DOMAIN l |-> d[l[i]].sets.global]
  <2>1. v \in Seq(Seq(Provider)) /\ Len(v) = 1 /\ v[1] = c.global
    BY <1>1, <1>2
  <2>. HIDE DEF v
  <2>2. LastFirst(v) = c.global
    BY <2>1, LastFirstFew
  <2>. QED BY <2>2 DEF v
<1>8. Loads(d, l)
  BY <1>1 DEF Loads
<1>. QED BY <1>3, <1>4, <1>5, <1>6, <1>7, <1>8 DEF Reads, Entries, l

(* A file that is merged counts less than all before it; its global providers come
   before theirs. *)
LEMMA ReadMore ==
  ASSUME NEW d \in [Files -> File], NEW l, Loads(d, l), NEW c, Reads(c, d, l),
         NEW f \in Files, d[f].text = "config"
  PROVE  Loads(d, Append(l, f)) /\ Reads(Merge(c, d[f].sets), d, Append(l, f))
<1> DEFINE m == Append(l, f)
           n == Len(l)
           s == d[f].sets
           c2 == Merge(c, s)
<1>1. /\ n \in Nat /\ DOMAIN l = 1..n /\ \A i \in 1..n : l[i] \in Files /\ d[l[i]].text = "config"
      /\ m \in Seq(Files) /\ DOMAIN m = 1..(n + 1) /\ m[n + 1] = f /\ \A i \in 1..n : m[i] = l[i]
  BY DEF Loads
<1>. HIDE DEF m, n
<1>2. Loads(d, m)
  BY <1>1 DEF Loads
<1>3. c2 = [default |-> c2.default, global |-> c2.global, registries |-> c2.registries, alias |-> c2.alias]
  BY DEF Merge
<1>4. c2.default = FirstSet([i \in DOMAIN m |-> d[m[i]].sets.default])
  <2> DEFINE v == [i \in DOMAIN l |-> d[l[i]].sets.default]
             w == [i \in DOMAIN m |-> d[m[i]].sets.default]
  <2>1. DOMAIN v = 1..n /\ DOMAIN w = 1..(n + 1) /\ w[n + 1] = s.default /\ \A i \in 1..n : w[i] = v[i]
    BY <1>1
  <2>2. c.default = FirstSet(v) /\ c2.default = OrElse(c.default, s.default)
    BY DEF Reads, Merge
  <2>. HIDE DEF v, w, s
  <2>3. FirstSet(w) = OrElse(FirstSet(v), w[n + 1])
    BY <1>1, <2>1, FirstSetLast
  <2>4. c2.default = FirstSet(w)
    BY <2>1, <2>2, <2>3
  <2>. QED BY <2>4 DEF w
<1>5. ASSUME NEW r \in Registries, NEW x \in Fields
      PROVE  c2.registries[r][x] = FirstSet([i \in DOMAIN m |-> d[m[i]].sets.registries[r][x]])
  <2> DEFINE v == [i \in DOMAIN l |-> d[l[i]].sets.registries[r][x]]
             w == [i \in DOMAIN m |-> d[m[i]].sets.registries[r][x]]
  <2>1. DOMAIN v = 1..n /\ DOMAIN w = 1..(n + 1) /\ w[n + 1] = s.registries[r][x] /\ \A i \in 1..n : w[i] = v[i]
    BY <1>1
  <2>2. DOMAIN NoEntry = Fields
    BY DEF NoEntry, Fields
  <2>3. c.registries[r][x] = FirstSet(v) /\ c2.registries[r][x] = OrElse(c.registries[r][x], s.registries[r][x])
    BY <2>2 DEF Reads, Entries, Merge
  <2>. HIDE DEF v, w, s
  <2>4. FirstSet(w) = OrElse(FirstSet(v), w[n + 1])
    BY <1>1, <2>1, FirstSetLast
  <2>5. c2.registries[r][x] = FirstSet(w)
    BY <2>1, <2>3, <2>4
  <2>. QED BY <2>5 DEF w
<1>6. c2.alias = [a \in Aliases |-> FirstSet([i \in DOMAIN m |-> d[m[i]].sets.alias[a]])]
  <2>1. ASSUME NEW a \in Aliases
        PROVE  c2.alias[a] = FirstSet([i \in DOMAIN m |-> d[m[i]].sets.alias[a]])
    <3> DEFINE v == [i \in DOMAIN l |-> d[l[i]].sets.alias[a]]
               w == [i \in DOMAIN m |-> d[m[i]].sets.alias[a]]
    <3>1. DOMAIN v = 1..n /\ DOMAIN w = 1..(n + 1) /\ w[n + 1] = s.alias[a] /\ \A i \in 1..n : w[i] = v[i]
      BY <1>1
    <3>2. c.alias[a] = FirstSet(v) /\ c2.alias[a] = OrElse(c.alias[a], s.alias[a])
      BY DEF Reads, Entries, Merge
    <3>. HIDE DEF v, w, s
    <3>3. FirstSet(w) = OrElse(FirstSet(v), w[n + 1])
      BY <1>1, <3>1, FirstSetLast
    <3>4. c2.alias[a] = FirstSet(w)
      BY <3>1, <3>2, <3>3
    <3>. QED BY <3>4 DEF w
  <2>2. c2.alias = [a \in Aliases |-> c2.alias[a]]
    BY DEF Merge
  <2>. QED BY <2>1, <2>2
<1>7. c2.global = LastFirst([i \in DOMAIN m |-> d[m[i]].sets.global])
  <2> DEFINE v == [i \in DOMAIN l |-> d[l[i]].sets.global]
             w == [i \in DOMAIN m |-> d[m[i]].sets.global]
             g == s.global
  <2>1. g \in Seq(Provider) /\ \A i \in 1..n : d[l[i]].sets.global \in Seq(Provider)
    BY <1>1, SetsLemma
  <2>2. v \in Seq(Seq(Provider)) /\ <<g>> \in Seq(Seq(Provider)) /\ Len(<<g>>) = 1
    <3>. HIDE DEF g, s
    <3>1. DOMAIN v = 1..n /\ \A i \in 1..n : v[i] \in Seq(Provider)
      BY <1>1, <2>1
    <3>2. v = [i \in 1..n |-> v[i]]
      BY <3>1
    <3>. HIDE DEF v
    <3>3. v \in [1..n -> Seq(Provider)]
      BY <3>1, <3>2
    <3>4. v \in Seq(Seq(Provider))
      BY <1>1, <3>3
    <3>5. <<g>> \in Seq(Seq(Provider)) /\ Len(<<g>>) = 1
      BY <2>1
    <3>. QED BY <3>4, <3>5
  <2>3. w = v \o <<g>>
    <3>1. /\ DOMAIN w = 1..(n + 1) /\ w[n + 1] = g /\ DOMAIN v = 1..n
          /\ \A i \in 1..n : w[i] = v[i]
      BY <1>1, <2>1
    <3>2. w = [i \in 1..(n + 1) |-> w[i]]
      BY <3>1
    <3>. HIDE DEF v, w, g
    <3>3. w = [i \in 1..(n + 1) |-> IF i <= (n + 1) - 1 THEN v[i] ELSE g]
      <4>1. ASSUME NEW i \in 1..(n + 1) PROVE w[i] = IF i <= (n + 1) - 1 THEN v[i] ELSE g
        <5>1. CASE i = n + 1
          BY <1>1, <3>1, <5>1
        <5>2. CASE i # n + 1
          <6>1. i \in 1..n /\ i <= (n + 1) - 1
            BY <1>1, <5>2
          <6>. QED BY <3>1, <6>1
        <5>. QED BY <5>1, <5>2
      <4>. QED BY <3>2, <4>1
    <3>4. n + 1 \in Nat \ {0} /\ Len(v) = (n + 1) - 1
      BY <1>1, <2>2, <3>1
    <3>5. v \o <<g>> = [i \in 1..(n + 1) |-> IF i <= (n + 1) - 1 THEN v[i] ELSE g]
      BY <2>1, <2>2, <3>4, AppendAt
    <3>. QED BY <3>3, <3>5, Zenon
  <2>4. c.global = LastFirst(v) /\ c2.global = g \o c.global
    BY DEF Reads, Merge, MergeProviders
  <2>. HIDE DEF v, w, g
  <2>5. LastFirst(w) = g \o LastFirst(v)
    <3>1. LastFirst(v \o <<g>>) = LastFirst(<<g>>) \o LastFirst(v)
      BY <2>2, LastFirstConcat
    <3>2. LastFirst(<<g>>) = g
      <4>1. <<g>>[1] = g
        OBVIOUS
      <4>. QED BY <2>2, <4>1, LastFirstFew
    <3>. QED BY <2>3, <3>1, <3>2
  <2>6. c2.global = LastFirst(w)
    BY <2>4, <2>5
  <2>. QED BY <2>6 DEF w
<1>. HIDE DEF c2
<1>8. Reads(c2, d, m)
  BY <1>3, <1>4, <1>5, <1>6, <1>7 DEF Reads, Entries
<1>. QED BY <1>2, <1>8 DEF m, c2

(* The files that f leads to when its includes go n deep. *)
IncludedLayers(d, n, f) == [i \in DOMAIN d[f].include |-> Layers(d, n)[d[f].include[i]]]

LEMMA LayersLemma ==
  ASSUME NEW d \in [Files -> File]
  PROVE  \A n \in Nat :
           /\ Layers(d, n) \in [Files -> Seq(Files)]
           /\ \A f \in Files :
                /\ d[f].text # "config" => Layers(d, n)[f] = <<>>
                /\ d[f].text = "config" => Layers(d, n + 1)[f] = <<f>> \o LastFirst(IncludedLayers(d, n, f))
                /\ d[f].text = "config" => IncludedLayers(d, n, f) \in Seq(Seq(Files))
<1> DEFINE S == [Files -> Seq(Files)]
           Deeper(L, f) == <<f>> \o LastFirst([i \in DOMAIN d[f].include |-> L[d[f].include[i]]])
           step == [n \in Nat |-> [L \in S |->
                     [f \in Files |-> IF d[f].text # "config" THEN <<>> ELSE Deeper(L, f)]]]
           nothing == [f \in Files |-> <<>>]
           Fits(g) == g = [k \in Nat |-> [f \in Files |->
                            IF k = 0 \/ d[f].text # "config" THEN <<>> ELSE Deeper(g[k - 1], f)]]
           layers == CHOOSE g : Fits(g)
<1>1. ASSUME NEW L \in S, NEW f \in Files, d[f].text = "config"
      PROVE  /\ Deeper(L, f) \in Seq(Files)
             /\ [i \in DOMAIN d[f].include |-> L[d[f].include[i]]] \in Seq(Seq(Files))
  <2> DEFINE p == [i \in DOMAIN d[f].include |-> L[d[f].include[i]]]
  <2>1. d[f].include \in Seq(Files)
    BY <1>1, SetsLemma
  <2>2. p \in Seq(Seq(Files))
    <3>1. Len(d[f].include) \in Nat /\ DOMAIN d[f].include = 1..Len(d[f].include)
      BY <2>1
    <3>2. \A i \in DOMAIN d[f].include : L[d[f].include[i]] \in Seq(Files)
      BY <2>1
    <3>3. p \in [1..Len(d[f].include) -> Seq(Files)]
      BY <3>1, <3>2
    <3>. HIDE DEF p
    <3> DEFINE X == Seq(Files)
    <3>4. \A n \in Nat : [1..n -> X] \subseteq Seq(X)
      <4>. HIDE DEF X
      <4>. QED OBVIOUS
    <3>. QED BY <3>1, <3>3, <3>4
  <2>. HIDE DEF p
  <2>3. LastFirst(p) \in Seq(Files)
    BY <2>2, LastFirstConcat
  <2>4. <<f>> \in Seq(Files)
    OBVIOUS
  <2>5. <<f>> \o LastFirst(p) \in Seq(Files)
    BY <2>3, <2>4, ConcatProperties
  <2>. QED BY <2>2, <2>5 DEF p
<1>2. \A L, f : Deeper(L, f) = <<f>> \o LastFirst([i \in DOMAIN d[f].include |-> L[d[f].include[i]]])
  OBVIOUS
<1>3. \A n : Layers(d, n) = layers[n]
  BY DEF Layers
<1>. HIDE DEF Deeper
<1>4. step \in [Nat -> [S -> S]] /\ nothing \in S
  <2>1. <<>> \in Seq(Files)
    OBVIOUS
  <2>. QED BY <1>1, <2>1
<1>5. PICK g : UnfoldsAll(g, S, nothing, step)
  <2>. HIDE DEF step, S, nothing
  <2>. QED BY <1>4, Defined, Zenon
<1>6. Fits(g)
  <2>1. g \in [Nat -> S] /\ g[0] = nothing /\ \A n \in Nat : g[n + 1] = step[n][g[n]]
    BY <1>5 DEF UnfoldsAll
  <2>2. ASSUME NEW k \in Nat \ {0}
        PROVE  g[k] = [f \in Files |-> IF d[f].text # "config" THEN <<>> ELSE Deeper(g[k - 1], f)]
    <3>1. k - 1 \in Nat /\ (k - 1) + 1 = k
      OBVIOUS
    <3>2. g[k - 1] \in S
      BY <2>1, <3>1
    <3>3. g[k] = step[k - 1][g[k - 1]]
      BY <2>1, <3>1
    <3>. HIDE DEF S
    <3>. QED BY <3>1, <3>2, <3>3
  <2>. HIDE DEF S, step
  <2>3. ASSUME NEW k \in Nat
        PROVE  g[k] = [f \in Files |-> IF k = 0 \/ d[f].text # "config" THEN <<>> ELSE Deeper(g[k - 1], f)]
    <3>1. CASE k = 0
      BY <2>1, <3>1
    <3>2. CASE k # 0
      BY <2>2, <3>2
    <3>. QED BY <3>1, <3>2
  <2>. QED BY <2>1, <2>3
<1>7. Fits(layers)
  <2>. HIDE DEF Fits
  <2>. QED BY <1>6
<1>. HIDE DEF layers
<1>8. ASSUME NEW k \in Nat
      PROVE  layers[k] = [f \in Files |-> IF k = 0 \/ d[f].text # "config" THEN <<>> ELSE Deeper(layers[k - 1], f)]
  BY <1>7, Zenon
<1>9. \A n \in Nat : layers[n] \in S
  <2> DEFINE E == {n \in Nat : layers[n] \in S}
  <2>0. <<>> \in Seq(Files)
    OBVIOUS
  <2>1. 0 \in E
    BY <1>8, <2>0
  <2>2. ASSUME NEW n \in Nat, n \in E PROVE n + 1 \in E
    <3>1. n + 1 \in Nat /\ n + 1 # 0 /\ (n + 1) - 1 = n
      OBVIOUS
    <3>2. layers[n + 1] = [f \in Files |-> IF d[f].text # "config" THEN <<>> ELSE Deeper(layers[n], f)]
      BY <1>8, <3>1
    <3>3. layers[n] \in S
      BY <2>2
    <3>4. \A f \in Files : d[f].text = "config" => Deeper(layers[n], f) \in Seq(Files)
      BY <1>1, <3>3, Zenon
    <3>5. layers[n + 1] \in S
      BY <2>0, <3>2, <3>4
    <3>. QED BY <3>1, <3>5
  <2>. HIDE DEF E
  <2>3. Nat \subseteq E
    BY <2>1, <2>2, Induct
  <2>. QED BY <2>3 DEF E
<1>10. ASSUME NEW n \in Nat, NEW f \in Files
       PROVE  /\ d[f].text # "config" => layers[n][f] = <<>>
              /\ d[f].text = "config" => layers[n + 1][f] = Deeper(layers[n], f)
  <2>1. n + 1 \in Nat /\ n + 1 # 0 /\ (n + 1) - 1 = n
    OBVIOUS
  <2>2. layers[n + 1] = [q \in Files |-> IF d[q].text # "config" THEN <<>> ELSE Deeper(layers[n], q)]
    BY <1>8, <2>1
  <2>3. layers[n] = [q \in Files |-> IF n = 0 \/ d[q].text # "config" THEN <<>> ELSE Deeper(layers[n - 1], q)]
    BY <1>8
  <2>4. d[f].text # "config" => layers[n][f] = <<>>
    BY <2>3
  <2>5. d[f].text = "config" => layers[n + 1][f] = Deeper(layers[n], f)
    BY <2>2
  <2>. QED BY <2>4, <2>5
<1>11. ASSUME NEW n \in Nat, NEW f \in Files, d[f].text = "config"
       PROVE  /\ Deeper(layers[n], f) = <<f>> \o LastFirst(IncludedLayers(d, n, f))
              /\ IncludedLayers(d, n, f) \in Seq(Seq(Files))
  BY <1>1, <1>2, <1>3, <1>9, <1>11 DEF IncludedLayers
<1>. HIDE DEF S
<1>12. ASSUME NEW n \in Nat PROVE Layers(d, n) \in [Files -> Seq(Files)]
  BY <1>3, <1>9 DEF S
<1>13. ASSUME NEW n \in Nat, NEW f \in Files
       PROVE  /\ d[f].text # "config" => Layers(d, n)[f] = <<>>
              /\ d[f].text = "config" => Layers(d, n + 1)[f] = <<f>> \o LastFirst(IncludedLayers(d, n, f))
  <2>1. Layers(d, n) = layers[n] /\ Layers(d, n + 1) = layers[n + 1]
    BY <1>3, Zenon
  <2>2. CASE d[f].text # "config"
    BY <1>10, <2>1, <2>2, Zenon
  <2>3. CASE d[f].text = "config"
    <3>1. layers[n + 1][f] = Deeper(layers[n], f)
      BY <1>10, <2>3, Zenon
    <3>2. Deeper(layers[n], f) = <<f>> \o LastFirst(IncludedLayers(d, n, f))
      BY <1>11, <2>3, Zenon
    <3>. QED BY <2>1, <2>3, <3>1, <3>2, Zenon
  <2>. QED BY <2>2, <2>3
<1>. QED BY <1>11, <1>12, <1>13

-----------------------------------------------------------------------------
(* Aliases *)

AliasStep(c) == [q \in Option(Provider) |-> IF q \in Aliases THEN c.alias[q] ELSE q]

(* What aliases lead to, and whether they lead anywhere: walking on without regard
   for what has been seen comes to the same end, if it is of use. *)
LEMMA SupportedLemma ==
  ASSUME config.alias \in [Aliases -> Option(Provider)], NEW p \in Option(Provider)
  PROVE  {Supported(p)} \ {Nothing} =
           {u \in Usable : \E n \in 0..Cardinality(Aliases) : Iterated(AliasStep(config), p, n) = u}
<1> DEFINE N == Cardinality(Aliases)
           S == [to : Option(Provider), seen : SUBSET Aliases]
           alias == AliasStep(config)
           It(n) == Iterated(alias, p, n)
           begin == [to |-> p, seen |-> {}]
           L(n) == Iterated(Link, begin, n)
<1>1. N \in Nat
  BY NamesAssumption, FS_CardinalityType
<1>2. /\ Aliases \subseteq Option(Provider) /\ Usable \subseteq Option(Provider)
      /\ Usable \cap Aliases = {} /\ Nothing \notin Usable
  BY NamesAssumption DEF Option, Provider, Usable
<1>3. alias \in [Option(Provider) -> Option(Provider)] /\ Link \in [S -> S] /\ begin \in S
  <2>1. alias \in [Option(Provider) -> Option(Provider)]
    BY DEF AliasStep
  <2>2. \A l \in S : l.to \in Aliases \ l.seen =>
          [to |-> config.alias[l.to], seen |-> l.seen \cup {l.to}] \in S
    OBVIOUS
  <2>3. Link = [l \in S |-> IF l.to \in Aliases \ l.seen
                            THEN [to |-> config.alias[l.to], seen |-> l.seen \cup {l.to}] ELSE l]
    BY DEF Link
  <2>. QED BY <2>1, <2>2, <2>3
<1>4. It(0) = p /\ \A n \in Nat : It(n) \in Option(Provider) /\ It(n + 1) = alias[It(n)]
  <2>. HIDE DEF alias
  <2>. QED BY <1>3, IteratedLemma
<1>5. L(0) = begin /\ \A n \in Nat : L(n) \in S /\ L(n + 1) = Link[L(n)]
  <2>. HIDE DEF S, begin
  <2>. QED BY <1>3, IteratedLemma
<1>6. Supported(p) = IF L(N).to \in Usable THEN L(N).to ELSE Nothing
  BY DEF Supported
<1>. HIDE DEF It, L, N
<1>7. \A n \in Nat : It(n) \in Aliases => It(n + 1) = config.alias[It(n)]
  BY <1>2, <1>4 DEF AliasStep
<1>8. \A n \in Nat : It(n) \notin Aliases => It(n + 1) = It(n)
  BY <1>4 DEF AliasStep
<1>9. \A n \in Nat : L(n).to \in Aliases \ L(n).seen =>
        L(n + 1).to = config.alias[L(n).to] /\ L(n + 1).seen = L(n).seen \cup {L(n).to}
  <2> SUFFICES ASSUME NEW n \in Nat, L(n).to \in Aliases \ L(n).seen
               PROVE  L(n + 1).to = config.alias[L(n).to] /\ L(n + 1).seen = L(n).seen \cup {L(n).to}
    OBVIOUS
  <2>1. Link[L(n)] = [to |-> config.alias[L(n).to], seen |-> L(n).seen \cup {L(n).to}]
    BY <1>5 DEF Link
  <2>. QED BY <1>5, <2>1
<1>10. \A n \in Nat : L(n).to \notin Aliases \ L(n).seen => L(n + 1) = L(n)
  BY <1>5 DEF Link
<1>11. \A n \in Nat : \E m \in 0..n : L(n).to = It(m)
  <2> DEFINE E == {n \in Nat : \E m \in 0..n : L(n).to = It(m)}
  <2>1. 0 \in E
    BY <1>4, <1>5
  <2>2. ASSUME NEW n \in Nat, n \in E PROVE n + 1 \in E
    <3>1. PICK m \in 0..n : L(n).to = It(m)
      BY <2>2
    <3>2. m \in Nat /\ m \in 0..(n + 1) /\ m + 1 \in 0..(n + 1) /\ n + 1 \in Nat
      OBVIOUS
    <3>3. CASE L(n).to \in Aliases \ L(n).seen
      <4>1. L(n + 1).to = It(m + 1)
        BY <1>7, <1>9, <3>1, <3>2, <3>3
      <4>. QED BY <3>2, <4>1
    <3>4. CASE L(n).to \notin Aliases \ L(n).seen
      <4>1. L(n + 1).to = It(m)
        BY <1>10, <3>1, <3>4
      <4>. QED BY <3>2, <4>1
    <3>. QED BY <3>3, <3>4
  <2>. HIDE DEF E
  <2>3. Nat \subseteq E
    BY <2>1, <2>2, Induct
  <2>. QED BY <2>3 DEF E
<1>12. ASSUME NEW u \in Usable, NEW n \in 0..N, It(n) = u PROVE L(N).to = u
  <2> DEFINE K == {k \in Nat : It(k) \notin Aliases}
  <2>1. n \in K
    BY <1>1, <1>2, <1>12
  <2>2. PICK last \in K : \A k \in K : last <= k
    <3>1. K \in SUBSET Nat /\ K # {}
      BY <2>1
    <3>. HIDE DEF K
    <3>. QED BY <3>1, LeastNatural
  <2>3. last \in Nat /\ last <= n /\ It(last) \notin Aliases /\ \A k \in 0..(last - 1) : It(k) \in Aliases
    BY <2>1, <2>2
  <2>4. \A k \in Nat : It(last + k) = It(last)
    <3> DEFINE E == {k \in Nat : It(last + k) = It(last)}
    <3>1. 0 \in E
      BY <2>3
    <3>2. ASSUME NEW k \in Nat, k \in E PROVE k + 1 \in E
      <4>1. last + k \in Nat /\ (last + k) + 1 = last + (k + 1)
        BY <2>3
      <4>2. It((last + k) + 1) = It(last + k)
        BY <1>8, <2>3, <3>2, <4>1
      <4>. QED BY <3>2, <4>1, <4>2
    <3>. HIDE DEF E
    <3>3. Nat \subseteq E
      BY <3>1, <3>2, Induct
    <3>. QED BY <3>3 DEF E
  <2>5. It(last) = u
    <3>1. n - last \in Nat /\ last + (n - last) = n
      BY <1>1, <2>3
    <3>. QED BY <1>12, <2>4, <3>1
  <2>6. ASSUME NEW i \in 0..(last - 1), NEW j \in 0..(last - 1), i < j PROVE It(i) # It(j)
    <3> SUFFICES ASSUME It(i) = It(j) PROVE FALSE
      OBVIOUS
    <3> DEFINE E == {k \in Nat : It(i + k) = It(j + k)}
    <3>1. 0 \in E
      OBVIOUS
    <3>2. ASSUME NEW k \in Nat, k \in E PROVE k + 1 \in E
      <4>1. i + k \in Nat /\ (i + k) + 1 = i + (k + 1) /\ j + k \in Nat /\ (j + k) + 1 = j + (k + 1)
        BY <2>3
      <4>2. It((i + k) + 1) = It((j + k) + 1)
        BY <1>4, <3>2, <4>1
      <4>. QED BY <4>1, <4>2
    <3>. HIDE DEF E
    <3>3. Nat \subseteq E
      BY <3>1, <3>2, Induct
    <3>4. /\ last - j \in Nat /\ j + (last - j) = last /\ i + (last - j) \in 0..(last - 1)
      BY <2>3, <2>6
    <3>5. It(i + (last - j)) = It(j + (last - j))
      BY <3>3, <3>4 DEF E
    <3>6. It(i + (last - j)) = It(last)
      BY <3>4, <3>5
    <3>. QED BY <2>3, <3>4, <3>6
  <2>7. \A m \in 0..last : L(m).to = It(m) /\ L(m).seen = {It(j) : j \in 0..(m - 1)}
    <3> DEFINE E == {m \in 0..last : L(m).to = It(m) /\ L(m).seen = {It(j) : j \in 0..(m - 1)}}
    <3>1. 0 \in E
      <4>1. 0..(0 - 1) = {} /\ 0 \in 0..last
        BY <2>3
      <4>. QED BY <1>4, <1>5, <4>1
    <3>2. ASSUME NEW m \in 1..last, m - 1 \in E PROVE m \in E
      <4>1. /\ m - 1 \in Nat /\ (m - 1) + 1 = m /\ m \in 0..last /\ m - 1 \in 0..(last - 1)
            /\ 0..(m - 1) = 0..((m - 1) - 1) \cup {m - 1}
            /\ \A j \in 0..((m - 1) - 1) : j \in 0..(last - 1) /\ j < m - 1
        BY <2>3
      <4>2. L(m - 1).to = It(m - 1) /\ L(m - 1).seen = {It(j) : j \in 0..((m - 1) - 1)}
        BY <3>2
      <4>3. It(m - 1) \in Aliases
        BY <2>3, <4>1
      <4>4. It(m - 1) \notin {It(j) : j \in 0..((m - 1) - 1)}
        BY <2>6, <4>1
      <4>5. L(m).to = It(m) /\ L(m).seen = L(m - 1).seen \cup {It(m - 1)}
        <5>1. L(m - 1).to \in Aliases \ L(m - 1).seen
          BY <4>2, <4>3, <4>4
        <5>2. /\ L((m - 1) + 1).to = config.alias[L(m - 1).to]
              /\ L((m - 1) + 1).seen = L(m - 1).seen \cup {L(m - 1).to}
          BY <1>9, <4>1, <5>1, Zenon
        <5>3. It((m - 1) + 1) = config.alias[It(m - 1)]
          BY <1>7, <4>1, <4>3, Zenon
        <5>. QED BY <4>1, <4>2, <5>2, <5>3
      <4>6. L(m).seen = {It(j) : j \in 0..(m - 1)}
        BY <4>1, <4>2, <4>5
      <4>. QED BY <4>1, <4>5, <4>6
    <3>. HIDE DEF E
    <3>3. 0..last \subseteq E
      BY <2>3, <3>1, <3>2, InductUpTo
    <3>. QED BY <3>3 DEF E
  <2>8. \A k \in Nat : L(last + k).to = u
    <3> DEFINE E == {k \in Nat : L(last + k).to = u}
    <3>1. 0 \in E
      BY <2>3, <2>5, <2>7
    <3>2. ASSUME NEW k \in Nat, k \in E PROVE k + 1 \in E
      <4>1. last + k \in Nat /\ (last + k) + 1 = last + (k + 1)
        BY <2>3
      <4>2. L((last + k) + 1) = L(last + k)
        BY <1>2, <1>10, <3>2, <4>1
      <4>. QED BY <3>2, <4>1, <4>2
    <3>. HIDE DEF E
    <3>3. Nat \subseteq E
      BY <3>1, <3>2, Induct
    <3>. QED BY <3>3 DEF E
  <2>9. N - last \in Nat /\ last + (N - last) = N
    BY <1>1, <2>3
  <2>. QED BY <2>8, <2>9
<1>13. L(N).to \in Usable => \E n \in 0..N : It(n) = L(N).to
  BY <1>1, <1>11
<1>14. {Supported(p)} \ {Nothing} = {u \in Usable : \E n \in 0..N : It(n) = u}
  BY <1>2, <1>6, <1>12, <1>13
<1>. QED BY <1>14 DEF N, It

-----------------------------------------------------------------------------
(* The inductive invariant *)

FilesRead == Layers(disk, Cardinality(Files))[Root]

(* A file that is to be loaded has been met: loading will fail. *)
Doomed == \E i \in DOMAIN stack : stack[i] \in visited

(* What has been read, done, and what the stack leads to are what the includes of
   Root lead to when they go as deep as there are files.  For what is on the stack
   they need only go as deep as there are files not met. *)
Depths(fuel) ==
  /\ fuel \in [DOMAIN stack -> Nat]
  /\ \A i \in DOMAIN stack : fuel[i] + Cardinality(visited) + 1 >= Cardinality(Files)

Pending(fuel) == [i \in DOMAIN stack |-> Layers(disk, fuel[i])[stack[i]]]

Gathered(done, fuel) ==
  /\ Loads(disk, done) /\ Reads(config, disk, done)
  /\ Depths(fuel)
  /\ FilesRead = done \o LastFirst(Pending(fuel))

(* Root itself is not counted as met at first: if it is included, what it includes
   is on the stack once more, with the first of it met. *)
Including ==
  /\ Loadable(Root)
  /\ stack \in Seq(Files) /\ visited \in SUBSET Files
  /\ IF visited = {} THEN stack = Included(Root)
     ELSE \E i \in DOMAIN Included(Root) : Included(Root)[i] \in visited
  /\ Doomed \/ (Root \notin visited /\ \E done, fuel : Gathered(done, fuel))

Loaded == Loads(disk, FilesRead) /\ Reads(config, disk, FilesRead)

Named ==
  /\ Loads(disk, FilesRead) /\ Entries(config, disk, FilesRead)
  /\ IF named THEN config.global = LastFirst([i \in DOMAIN FilesRead |-> Sets(FilesRead[i]).global])
     ELSE /\ config.global = <<>>
          /\ name = FirstSet([i \in DOMAIN FilesRead |-> Sets(FilesRead[i]).default])

(* The provider is what the configuration as it is leads to. *)
Provided ==
  /\ name # Nothing /\ override = Nothing => ~Endless(name)
  /\ provider =
       IF override # Nothing THEN Supported(override)
       ELSE IF name # Nothing /\ GetRegistry(name).provider # Nothing
            THEN Supported(GetRegistry(name).provider)
            ELSE OrElse(Global, "token")

ConfigTypes ==
  /\ disk \in [Files -> File]
  /\ name \in Option(Registries) /\ override \in Option(Provider) /\ named \in BOOLEAN

ConfigInv ==
  /\ ConfigTypes
  /\ phase = "start" => stack = <<>> /\ visited = {} /\ config = Empty
  /\ phase = "including" => Including
  /\ phase = "loaded" => Loaded
  /\ phase \in {"named", "indexed", "provided", "endless"} => Named
  /\ phase = "endless" => name # Nothing /\ Endless(name)
  /\ phase = "provided" => Provided

LEMMA FilesNumber == Cardinality(Files) \in Nat /\ Cardinality(Files) >= 1
<1>1. IsFiniteSet(Files) /\ Root \in Files
  BY FilesAssumption
<1>2. Cardinality(Files) \in Nat /\ Cardinality(Files) # 0
  BY <1>1, FS_CardinalityType, FS_EmptySet
<1>. QED BY <1>2

LEMMA InitConfigInv == ConfigInit => ConfigInv
BY DEF ConfigInit, ConfigInv, ConfigTypes, Option

LEMMA LoadRootConfigInv == ASSUME ConfigInv, LoadRoot PROVE ConfigInv'
<1> DEFINE N == Cardinality(Files)
<1>1. /\ disk \in [Files -> File] /\ Root \in Files /\ N \in Nat /\ N >= 1 /\ N - 1 \in Nat /\ (N - 1) + 1 = N
  BY FilesNumber, FilesAssumption DEF ConfigInv, ConfigTypes
<1>2. stack = <<>> /\ visited = {} /\ config = Empty /\ disk' = disk /\ visited' = visited /\ ConfigTypes'
  BY DEF ConfigInv, ConfigTypes, LoadRoot, Enters, registry
<1>3. FilesRead' = FilesRead
  BY <1>2 DEF FilesRead
<1>4. CASE disk[Root].text = "absent"
  <2>1. phase' = "loaded" /\ config' = Empty
    BY <1>2, <1>4 DEF LoadRoot, Enters, Loadable
  <2>2. FilesRead = <<>>
    BY <1>1, <1>4, LayersLemma DEF FilesRead
  <2>3. Loads(disk, <<>>)
    BY DEF Loads
  <2>4. \A v : DOMAIN v = DOMAIN <<>> => FirstSet(v) = Nothing
    <3>1. DOMAIN <<>> = 1..0 /\ 0 \in Nat /\ \A v : \A i \in 1..0 : v[i] = Nothing
      OBVIOUS
    <3>. QED BY <3>1, FirstSetLemma
  <2>5. \A v : v \in Seq(Seq(Provider)) /\ Len(v) = 0 => LastFirst(v) = <<>>
    BY LastFirstFew
  <2>6. Reads(Empty, disk, <<>>)
    <3>1. Empty = [default |-> Empty.default, global |-> Empty.global,
                   registries |-> Empty.registries, alias |-> Empty.alias]
      BY DEF Empty
    <3>2. ASSUME NEW r \in Registries, NEW x \in Fields PROVE Empty.registries[r][x] = Nothing
      BY DEF Empty, NoEntry, Fields
    <3>3. Empty.alias = [a \in Aliases |-> Nothing] /\ Empty.default = Nothing /\ Empty.global = <<>>
      BY DEF Empty
    <3>4. [i \in DOMAIN <<>> |-> disk[<<>>[i]].sets.global] \in Seq(Seq(Provider))
          /\ Len([i \in DOMAIN <<>> |-> disk[<<>>[i]].sets.global]) = 0
      OBVIOUS
    <3>. HIDE DEF Empty
    <3>5. Entries(Empty, disk, <<>>)
      BY <2>4, <3>1, <3>2, <3>3 DEF Entries
    <3>6. Empty.default = FirstSet([i \in DOMAIN <<>> |-> disk[<<>>[i]].sets.default])
      BY <2>4, <3>3
    <3>7. Empty.global = LastFirst([i \in DOMAIN <<>> |-> disk[<<>>[i]].sets.global])
      BY <2>5, <3>3, <3>4
    <3>. QED BY <3>5, <3>6, <3>7 DEF Reads
  <2>7. Loaded'
    BY <1>2, <1>3, <2>1, <2>2, <2>3, <2>6 DEF Loaded
  <2>. QED BY <1>2, <2>1, <2>7 DEF ConfigInv
<1>5. CASE disk[Root].text = "broken"
  <2>1. phase' = "failed"
    BY <1>5 DEF LoadRoot, Enters
  <2>. QED BY <1>2, <2>1 DEF ConfigInv
<1>6. CASE disk[Root].text \notin {"absent", "broken"}
  <2>1. disk[Root].text = "config"
    <3>1. disk[Root] \in File
      BY <1>1
    <3>. QED BY <1>6, <3>1 DEF File
  <2>2. phase' = "including" /\ config' = disk[Root].sets /\ stack' = disk[Root].include
    BY <2>1 DEF LoadRoot, Enters, Loadable, Sets, Included
  <2>3. stack' \in Seq(Files)
    BY <1>1, <2>1, <2>2, SetsLemma
  <2>a. PICK fuel : fuel = [i \in DOMAIN stack' |-> N - 1]
    OBVIOUS
  <2>4. Gathered(<<Root>>, fuel)'
    <3>1. Loads(disk, <<Root>>) /\ Reads(disk[Root].sets, disk, <<Root>>)
      BY <1>1, <2>1, ReadRoot
    <3>2. Depths(fuel)'
      <4>1. Cardinality(visited') = 0
        BY <1>2, FS_EmptySet
      <4>2. fuel \in [DOMAIN stack' -> Nat] /\ \A i \in DOMAIN stack' : fuel[i] + 0 + 1 >= N
        BY <1>1, <2>a
      <4>. QED BY <4>1, <4>2 DEF Depths
    <3>3. Pending(fuel)' = IncludedLayers(disk, N - 1, Root)
      BY <1>2, <2>2, <2>a DEF Pending, IncludedLayers
    <3>4. FilesRead = <<Root>> \o LastFirst(IncludedLayers(disk, N - 1, Root))
      <4>1. Layers(disk, (N - 1) + 1)[Root] = <<Root>> \o LastFirst(IncludedLayers(disk, N - 1, Root))
        BY <1>1, <2>1, LayersLemma
      <4>. QED BY <1>1, <4>1 DEF FilesRead
    <3>. QED BY <1>2, <1>3, <2>2, <3>1, <3>2, <3>3, <3>4 DEF Gathered
  <2>5. Including'
    <3>1. Loadable(Root)' /\ visited' \in SUBSET Files /\ Root \notin visited' /\ stack' = Included(Root)' /\ visited' = {}
      BY <1>2, <2>1, <2>2 DEF Loadable, Included
    <3>2. (\E done, f : Gathered(done, f))'
      BY <2>4
    <3>. QED BY <2>3, <3>1, <3>2 DEF Including
  <2>. QED BY <1>2, <2>2, <2>5 DEF ConfigInv
<1>. QED BY <1>4, <1>5, <1>6

(* A file that is loaded and not doomed is met for the first time and is not Root:
   its includes go one less deep, and there is one file less not met. *)
LEMMA LoadIncludeConfigInv == ASSUME ConfigInv, LoadInclude PROVE ConfigInv'
<1> DEFINE N == Cardinality(Files)
           n == Len(stack)
<1>0. PICK f : f = Last(stack)
  OBVIOUS
<1>1. /\ Including /\ ConfigTypes /\ disk \in [Files -> File] /\ Root \in Files
      /\ N \in Nat /\ IsFiniteSet(Files)
  BY FilesNumber, FilesAssumption DEF ConfigInv, ConfigTypes, LoadInclude, Enters
<1>2. /\ stack # <<>> /\ Loadable(f) /\ f \notin visited
      /\ visited' = visited \cup {f} /\ config' = Merge(config, disk[f].sets)
      /\ stack' = Front(stack) \o disk[f].include
      /\ phase' = "including" /\ disk' = disk
      /\ name' = name /\ override' = override /\ named' = named
  BY <1>0 DEF LoadInclude, Enters, DeadLoop, Sets, Included, registry
<1>3. /\ stack \in Seq(Files) /\ n \in Nat \ {0} /\ DOMAIN stack = 1..n /\ f = stack[n] /\ f \in Files
      /\ visited \in SUBSET Files /\ Loadable(Root) /\ n - 1 \in Nat
  BY <1>0, <1>1, <1>2 DEF Including, Last
<1>4. /\ Front(stack) \in Seq(Files) /\ Len(Front(stack)) = n - 1
      /\ \A i \in 1..(n - 1) : Front(stack)[i] = stack[i]
  BY <1>3 DEF Front
<1> DEFINE inc == disk[f].include
           m == Len(inc)
<1>5. inc \in Seq(Files) /\ m \in Nat /\ DOMAIN inc = 1..m
  BY <1>1, <1>2, <1>3, SetsLemma DEF Loadable
<1>. HIDE DEF N, n, inc, m
<1>6. /\ stack' \in Seq(Files) /\ DOMAIN stack' = 1..((n - 1) + m)
      /\ \A i \in 1..(n - 1) : stack'[i] = stack[i]
      /\ \A i \in 1..m : stack'[(n - 1) + i] = inc[i]
  <2>1. stack' = Front(stack) \o inc
    BY <1>2 DEF inc
  <2>2. /\ stack' \in Seq(Files) /\ Len(stack') = (n - 1) + m
        /\ \A i \in 1..(n - 1) : stack'[i] = Front(stack)[i]
        /\ \A i \in 1..m : stack'[(n - 1) + i] = inc[i]
    <3>1. /\ Front(stack) \o inc \in Seq(Files)
          /\ Front(stack) \o inc = [i \in 1..((n - 1) + m) |->
                                      IF i <= n - 1 THEN Front(stack)[i] ELSE inc[i - (n - 1)]]
      BY <1>4, <1>5, ConcatAt DEF m
    <3>2. \A i \in 1..(n - 1) : i \in 1..((n - 1) + m) /\ i <= n - 1
      BY <1>3, <1>5
    <3>3. \A i \in 1..m : (n - 1) + i \in 1..((n - 1) + m) /\ ~((n - 1) + i <= n - 1) /\ ((n - 1) + i) - (n - 1) = i
      BY <1>3, <1>5
    <3>4. Len(stack') = (n - 1) + m
      BY <1>3, <1>5, <2>1, <3>1
    <3>5. ASSUME NEW i \in 1..(n - 1) PROVE stack'[i] = Front(stack)[i]
      BY <2>1, <3>1, <3>2
    <3>6. ASSUME NEW i \in 1..m PROVE stack'[(n - 1) + i] = inc[i]
      BY <2>1, <3>1, <3>3
    <3>. QED BY <2>1, <3>1, <3>4, <3>5, <3>6
  <2>. QED BY <1>4, <2>2
<1>7. ConfigTypes' /\ FilesRead' = FilesRead /\ visited' \in SUBSET Files /\ visited' # {}
  BY <1>1, <1>2, <1>3 DEF ConfigTypes, FilesRead
<1>8. Loadable(Root)' /\ Included(Root)' = Included(Root)
  BY <1>2, <1>3 DEF Loadable, Included
<1>9. \E i \in DOMAIN Included(Root) : Included(Root)[i] \in visited'
  <2>1. CASE visited = {}
    <3>1. Included(Root) = stack
      BY <1>1, <2>1 DEF Including
    <3>2. n \in DOMAIN stack /\ stack[n] \in visited'
      BY <1>2, <1>3
    <3>. QED BY <3>1, <3>2
  <2>2. CASE visited # {}
    BY <1>1, <1>2, <2>2 DEF Including
  <2>. QED BY <2>1, <2>2
<1>10. Doomed' \/ (Root \notin visited' /\ \E done, fuel : Gathered(done, fuel)')
  <2>1. CASE Doomed
    <3>1. PICK i \in 1..n : stack[i] \in visited
      BY <1>3, <2>1 DEF Doomed
    <3>2. i \in 1..(n - 1)
      BY <1>2, <1>3, <3>1
    <3>3. i \in 1..((n - 1) + m) /\ stack'[i] \in visited'
      <4>1. i \in 1..((n - 1) + m)
        BY <1>3, <1>5, <3>2
      <4>2. stack'[i] = stack[i]
        BY <1>6, <3>2
      <4>. QED BY <1>2, <3>1, <4>1, <4>2
    <3>. QED BY <1>6, <3>3 DEF Doomed
  <2>2. CASE f = Root
    <3>1. PICK i \in 1..m : inc[i] \in visited'
      BY <1>5, <1>9, <2>2 DEF Included, inc
    <3>2. (n - 1) + i \in 1..((n - 1) + m) /\ stack'[(n - 1) + i] \in visited'
      BY <1>3, <1>5, <1>6, <3>1
    <3>. QED BY <1>6, <3>2 DEF Doomed
  <2>3. CASE f # Root /\ ~Doomed
    <3>1. Root \notin visited /\ \E done, fuel : Gathered(done, fuel)
      BY <1>1, <2>3 DEF Including
    <3>2. PICK done, fuel : Gathered(done, fuel)
      BY <3>1
    <3>3. /\ Loads(disk, done) /\ Reads(config, disk, done)
          /\ fuel \in [1..n -> Nat]
          /\ \A i \in 1..n : fuel[i] + Cardinality(visited) + 1 >= N
          /\ FilesRead = done \o LastFirst(Pending(fuel))
      BY <1>3, <3>2 DEF Gathered, Depths, N
    <3>4. /\ Root \notin visited' /\ Cardinality(visited) \in Nat
          /\ Cardinality(visited') = Cardinality(visited) + 1 /\ Cardinality(visited) + 2 <= N
      <4>1. IsFiniteSet(visited)
        BY <1>1, <1>3, FS_Subset
      <4>2. Cardinality(visited') = Cardinality(visited) + 1 /\ Cardinality(visited) \in Nat /\ IsFiniteSet(visited')
        BY <1>2, <4>1, FS_AddElement, FS_CardinalityType
      <4>3. Root \notin visited'
        BY <1>2, <2>3, <3>1
      <4>4. Cardinality(visited' \cup {Root}) = Cardinality(visited') + 1
        BY <4>2, <4>3, FS_AddElement
      <4>5. Cardinality(visited' \cup {Root}) <= N
        <5>1. visited' \cup {Root} \subseteq Files
          BY <1>1, <1>7
        <5>. QED BY <1>1, <5>1, FS_Subset DEF N
      <4>. QED BY <1>1, <4>2, <4>3, <4>4, <4>5
    <3>5. PICK k \in Nat : k = fuel[n] - 1
      <4>1. n \in 1..n
        BY <1>3
      <4>2. fuel[n] \in Nat /\ fuel[n] + Cardinality(visited) + 1 >= N
        BY <3>3, <4>1
      <4>3. fuel[n] - 1 \in Nat
        BY <1>1, <3>4, <4>2
      <4>. QED BY <4>3
    <3>6. k + 1 = fuel[n] /\ n \in 1..n
      BY <1>3, <3>3, <3>5
    <3>7. PICK fuel2 : fuel2 = [i \in 1..((n - 1) + m) |-> IF i <= n - 1 THEN fuel[i] ELSE k]
      OBVIOUS
    <3> DEFINE front == [i \in 1..(n - 1) |-> Layers(disk, fuel[i])[stack[i]]]
               parts == IncludedLayers(disk, k, f)
               deep == LastFirst(parts)
               rest == LastFirst(front)
               top == Layers(disk, fuel[n])[f]
    <3>8. \A q \in Nat, g \in Files : Layers(disk, q)[g] \in Seq(Files)
      <4>1. \A q \in Nat : Layers(disk, q) \in [Files -> Seq(Files)]
        BY <1>1, LayersLemma
      <4>. QED BY <4>1
    <3>9. /\ parts \in Seq(Seq(Files)) /\ top = <<f>> \o deep
          /\ Len(parts) = m /\ \A i \in 1..m : parts[i] = Layers(disk, k)[inc[i]]
      <4>1. disk[f].text = "config"
        BY <1>2 DEF Loadable
      <4>2. parts \in Seq(Seq(Files)) /\ Layers(disk, k + 1)[f] = <<f>> \o deep
        BY <1>1, <1>3, <4>1, LayersLemma
      <4>3. parts = [i \in 1..m |-> Layers(disk, k)[inc[i]]]
        BY <1>5 DEF IncludedLayers, inc
      <4>4. Len(parts) = m
        BY <1>5, <4>3
      <4>. QED BY <3>6, <4>2, <4>3, <4>4
    <3>10. front \in Seq(Seq(Files)) /\ Len(front) = n - 1
      <4>1. \A i \in 1..(n - 1) : fuel[i] \in Nat /\ stack[i] \in Files
        BY <1>3, <3>3
      <4>2. front \in [1..(n - 1) -> Seq(Files)]
        BY <3>8, <4>1
      <4>. HIDE DEF front
      <4>. QED BY <1>3, <4>2, IsSeqLemma
    <3>. HIDE DEF parts, deep, rest, top
    <3>11. top \in Seq(Files)
      BY <1>3, <3>3, <3>6, <3>8 DEF top
    <3>12. Pending(fuel) = front \o <<top>>
      <4>1. Pending(fuel) = [i \in 1..n |-> Layers(disk, fuel[i])[stack[i]]]
        BY <1>3 DEF Pending
      <4>2. /\ Pending(fuel)[n] = top
            /\ \A i \in 1..(n - 1) : Pending(fuel)[i] = front[i]
        BY <1>3, <3>6, <4>1 DEF top
      <4>3. Pending(fuel) = [i \in 1..n |-> IF i <= n - 1 THEN front[i] ELSE top]
        BY <1>3, <4>1, <4>2
      <4>. HIDE DEF front
      <4>4. front \o <<top>> = [i \in 1..n |-> IF i <= n - 1 THEN front[i] ELSE top]
        BY <1>3, <3>10, <3>11, AppendAt
      <4>. QED BY <4>3, <4>4
    <3>13. Pending(fuel2)' = front \o parts
      <4>1. Pending(fuel2)' = [i \in 1..((n - 1) + m) |-> Layers(disk, fuel2[i])[stack'[i]]]
        BY <1>2, <1>6 DEF Pending
      <4>2. front \o parts = [i \in 1..((n - 1) + m) |-> IF i <= n - 1 THEN front[i] ELSE parts[i - (n - 1)]]
        <5>. HIDE DEF front
        <5>. QED BY <3>9, <3>10, ConcatAt, SMTT(20)
      <4>3. ASSUME NEW i \in 1..((n - 1) + m)
            PROVE  Layers(disk, fuel2[i])[stack'[i]] = IF i <= n - 1 THEN front[i] ELSE parts[i - (n - 1)]
        <5>1. CASE i <= n - 1
          <6>1. i \in 1..(n - 1) /\ fuel2[i] = fuel[i] /\ stack'[i] = stack[i]
            BY <1>3, <1>6, <3>7, <5>1
          <6>. QED BY <5>1, <6>1
        <5>2. CASE ~(i <= n - 1)
          <6>1. i - (n - 1) \in 1..m /\ (n - 1) + (i - (n - 1)) = i
            BY <1>3, <1>5, <5>2
          <6>2. fuel2[i] = k /\ stack'[i] = inc[i - (n - 1)]
            BY <1>6, <3>7, <5>2, <6>1
          <6>. QED BY <3>9, <5>2, <6>1, <6>2
        <5>. QED BY <5>1, <5>2
      <4>. QED BY <4>1, <4>2, <4>3
    <3>. HIDE DEF front
    <3>14. deep \in Seq(Files) /\ rest \in Seq(Files) /\ <<f>> \in Seq(Files) /\ done \in Seq(Files)
      BY <1>3, <3>3, <3>9, <3>10, LastFirstConcat DEF Loads, deep, rest
    <3>15. LastFirst(Pending(fuel)) = (<<f>> \o deep) \o rest
      <4>1. <<top>> \in Seq(Seq(Files)) /\ Len(<<top>>) = 1 /\ <<top>>[1] = top
        BY <3>11
      <4>2. LastFirst(<<top>>) = top
        BY <4>1, LastFirstFew
      <4>3. LastFirst(front \o <<top>>) = LastFirst(<<top>>) \o rest
        BY <3>10, <4>1, LastFirstConcat DEF rest
      <4>. QED BY <3>9, <3>12, <4>2, <4>3
    <3>16. LastFirst(Pending(fuel2)') = deep \o rest
      BY <3>9, <3>10, <3>13, LastFirstConcat DEF deep, rest
    <3>17. FilesRead = Append(done, f) \o (deep \o rest)
      <4>1. Append(done, f) = done \o <<f>>
        BY <1>3, <3>14, AppendIsConcat
      <4>2. FilesRead = done \o ((<<f>> \o deep) \o rest)
        BY <3>3, <3>15, Zenon
      <4>3. done \o ((<<f>> \o deep) \o rest) = (done \o <<f>>) \o (deep \o rest)
        BY <3>14, FourConcat, SMTT(20)
      <4>. QED BY <4>1, <4>2, <4>3, Zenon
    <3>18. Loads(disk, Append(done, f)) /\ Reads(config', disk, Append(done, f))
      BY <1>1, <1>2, <1>3, <3>3, ReadMore DEF Loadable
    <3>19. Depths(fuel2)'
      <4>1. fuel2 \in [1..((n - 1) + m) -> Nat]
        BY <1>3, <1>5, <3>3, <3>5, <3>7
      <4>2. ASSUME NEW i \in 1..((n - 1) + m) PROVE fuel2[i] + Cardinality(visited') + 1 >= N
        <5>1. CASE i <= n - 1
          <6>1. i \in 1..n /\ fuel2[i] = fuel[i] /\ fuel[i] \in Nat
            BY <1>3, <3>3, <3>7, <5>1
          <6>. QED BY <1>1, <3>3, <3>4, <6>1
        <5>2. CASE ~(i <= n - 1)
          <6>1. fuel2[i] = k /\ k + 1 + Cardinality(visited) + 1 >= N
            BY <3>3, <3>6, <3>7, <5>2
          <6>. QED BY <1>1, <3>4, <6>1
        <5>. QED BY <5>1, <5>2
      <4>. QED BY <1>6, <4>1, <4>2 DEF Depths, N
    <3>20. Gathered(Append(done, f), fuel2)'
      BY <1>2, <1>7, <3>16, <3>17, <3>18, <3>19 DEF Gathered
    <3>. QED BY <3>4, <3>20
  <2>. QED BY <2>1, <2>2, <2>3
<1>11. Including'
  BY <1>6, <1>7, <1>8, <1>9, <1>10 DEF Including
<1>. QED BY <1>2, <1>7, <1>11 DEF ConfigInv

LEMMA IncludeFailsConfigInv == ASSUME ConfigInv, IncludeFails PROVE ConfigInv'
BY DEF ConfigInv, ConfigTypes, IncludeFails, Enters, registry

LEMMA AllIncludedConfigInv == ASSUME ConfigInv, AllIncluded PROVE ConfigInv'
<1>1. /\ Including /\ ConfigTypes /\ stack = <<>> /\ phase' = "loaded"
      /\ disk' = disk /\ config' = config /\ name' = name /\ override' = override /\ named' = named
  BY DEF ConfigInv, AllIncluded, Enters, registry
<1>2. ~Doomed
  BY <1>1 DEF Doomed
<1>3. PICK done, fuel : Gathered(done, fuel)
  BY <1>1, <1>2 DEF Including
<1>4. FilesRead = done
  <2>1. done \in Seq(Files) /\ FilesRead = done \o LastFirst(Pending(fuel))
    BY <1>3 DEF Gathered, Loads
  <2> DEFINE none == Pending(fuel)
  <2>2. none \in Seq(Seq(Files)) /\ Len(none) = 0
    BY <1>1 DEF Pending
  <2>. HIDE DEF none
  <2>3. LastFirst(none) = <<>>
    BY <2>2, LastFirstFew
  <2>. QED BY <2>1, <2>3, ConcatEmptySeq DEF none
<1>5. Loads(disk, FilesRead) /\ Reads(config, disk, FilesRead)
  BY <1>3, <1>4 DEF Gathered
<1>6. FilesRead' = FilesRead
  BY <1>1 DEF FilesRead
<1>7. Loaded' /\ ConfigTypes'
  BY <1>1, <1>5, <1>6 DEF Loaded, ConfigTypes
<1>. QED BY <1>1, <1>7 DEF ConfigInv

LEMMA UseIndexConfigInv == ASSUME ConfigInv, UseIndex PROVE ConfigInv'
BY DEF ConfigInv, ConfigTypes, UseIndex, Enters, registry

LEMMA UseNameConfigInv == ASSUME ConfigInv, UseName PROVE ConfigInv'
<1>1. /\ Loads(disk, FilesRead) /\ Reads(config, disk, FilesRead) /\ ConfigTypes /\ phase' = "named"
      /\ disk' = disk /\ override' = override /\ named' \in BOOLEAN
  BY DEF ConfigInv, Loaded, UseName, Enters
<1>2. FilesRead' = FilesRead
  BY <1>1 DEF FilesRead
<1>3. config.default \in Option(Registries)
  <2> DEFINE v == [i \in DOMAIN FilesRead |-> disk[FilesRead[i]].sets.default]
  <2>1. /\ FilesRead \in Seq(Files) /\ Len(FilesRead) \in Nat /\ DOMAIN FilesRead = 1..Len(FilesRead)
        /\ \A i \in DOMAIN FilesRead : FilesRead[i] \in Files /\ disk[FilesRead[i]].text = "config"
    BY <1>1 DEF Loads
  <2>2. \A i \in 1..Len(FilesRead) : v[i] \in Option(Registries)
    BY <1>1, <2>1, SetsLemma DEF ConfigTypes
  <2>3. DOMAIN v = 1..Len(FilesRead) /\ config.default = FirstSet(v)
    BY <1>1, <2>1 DEF Reads
  <2>. HIDE DEF v
  <2>. QED BY <2>1, <2>2, <2>3, FirstSetIn
<1>4. CASE named'
  <2>1. name' \in Registries /\ config' = config
    BY <1>4 DEF UseName
  <2>2. Named'
    BY <1>1, <1>2, <1>4, <2>1 DEF Named, Reads, Sets
  <2>. QED BY <1>1, <2>1, <2>2 DEF ConfigInv, ConfigTypes, Option
<1>5. CASE ~named'
  <2>1. name' = config.default /\ config' = [config EXCEPT !.default = Nothing, !.global = <<>>]
    BY <1>5 DEF UseName
  <2>2. /\ config'.global = <<>> /\ config'.registries = config.registries /\ config'.alias = config.alias
        /\ config' = [default |-> config'.default, global |-> config'.global,
                      registries |-> config'.registries, alias |-> config'.alias]
    <3>1. config = [default |-> config.default, global |-> config.global,
                    registries |-> config.registries, alias |-> config.alias]
      BY <1>1 DEF Reads, Entries
    <3>2. config' = [default |-> Nothing, global |-> <<>>,
                     registries |-> config.registries, alias |-> config.alias]
      BY <2>1, <3>1
    <3>. QED BY <3>2
  <2>3. Entries(config', disk, FilesRead)
    <3>1. Entries(config, disk, FilesRead)
      BY <1>1 DEF Reads
    <3>. QED BY <2>2, <3>1, Zenon DEF Entries
  <2>4. name' = FirstSet([i \in DOMAIN FilesRead |-> disk[FilesRead[i]].sets.default])
    BY <1>1, <2>1 DEF Reads
  <2>5. Named'
    BY <1>1, <1>2, <1>5, <2>2, <2>3, <2>4 DEF Named, Sets
  <2>. QED BY <1>1, <1>3, <2>1, <2>5 DEF ConfigInv, ConfigTypes
<1>. QED BY <1>1, <1>4, <1>5

(* Nothing that is put together or asked for changes any more. *)
LEMMA NamedStays ==
  ASSUME ConfigTypes, Named, UNCHANGED <<disk, config, name, named>>
  PROVE  /\ Named' /\ (override' \in Option(Provider) => ConfigTypes')
         /\ Endless(name)' = Endless(name) /\ GetRegistry(name)' = GetRegistry(name)
         /\ Global' = Global
         /\ \A p : Supported(p)' = Supported(p)
<1>1. FilesRead' = FilesRead
  BY DEF FilesRead
<1>2. Named'
  BY <1>1 DEF Named, Sets
<1>3. GetRegistry(name)' = GetRegistry(name)
  BY DEF GetRegistry, Replaced
<1>4. Endless(name)' = Endless(name)
  BY <1>3 DEF Endless
<1>5. Link' = Link
  BY DEF Link
<1>6. \A p : Supported(p)' = Supported(p)
  BY <1>5 DEF Supported
<1>7. Global' = Global
  BY <1>6 DEF Global
<1>. QED BY <1>2, <1>3, <1>4, <1>6, <1>7 DEF ConfigTypes

LEMMA FindIndexConfigInv == ASSUME ConfigInv, FindIndex PROVE ConfigInv'
<1>1. /\ ConfigTypes /\ Named /\ UNCHANGED <<disk, config, name, named>> /\ override' = override
  BY DEF ConfigInv, FindIndex, Enters, registry
<1>2. Named' /\ ConfigTypes' /\ Endless(name)' = Endless(name)
  BY <1>1, NamedStays DEF ConfigTypes
<1>3. \/ phase' \in {"indexed", "failed"}
      \/ phase' = "endless" /\ name # Nothing /\ Endless(name)
  BY DEF FindIndex, Enters
<1>. QED BY <1>1, <1>2, <1>3 DEF ConfigInv

LEMMA FindProviderConfigInv == ASSUME ConfigInv, FindProvider PROVE ConfigInv'
<1>1. /\ ConfigTypes /\ Named /\ UNCHANGED <<disk, config, name, named>> /\ override' \in Option(Provider)
  BY DEF ConfigInv, FindProvider, Enters, Option
<1>2. /\ Named' /\ ConfigTypes' /\ Endless(name)' = Endless(name) /\ GetRegistry(name)' = GetRegistry(name)
      /\ Global' = Global /\ \A p : Supported(p)' = Supported(p)
  BY <1>1, NamedStays
<1>3. CASE override' # Nothing
  <2>1. phase' = "provided" /\ provider' = Supported(override')
    BY <1>3 DEF FindProvider, Enters
  <2>2. Provided'
    BY <1>2, <1>3, <2>1 DEF Provided
  <2>. QED BY <1>2, <2>1, <2>2 DEF ConfigInv
<1>4. CASE override' = Nothing /\ name # Nothing /\ Endless(name)
  <2>1. phase' = "endless"
    BY <1>4 DEF FindProvider, Enters
  <2>. QED BY <1>1, <1>2, <1>4, <2>1 DEF ConfigInv
<1>5. CASE override' = Nothing /\ ~(name # Nothing /\ Endless(name))
  <2>1. /\ phase' = "provided"
        /\ provider' = IF name # Nothing /\ GetRegistry(name).provider # Nothing
                       THEN Supported(GetRegistry(name).provider)
                       ELSE OrElse(Global, "token")
    BY <1>5 DEF FindProvider, Enters
  <2>2. Provided'
    BY <1>1, <1>2, <1>5, <2>1 DEF Provided
  <2>. QED BY <1>2, <2>1, <2>2 DEF ConfigInv
<1>. QED BY <1>3, <1>4, <1>5

LEMMA FindTokenConfigInv == ASSUME ConfigInv, FindToken PROVE ConfigInv'
BY DEF ConfigInv, ConfigTypes, FindToken, Enters

LEMMA DropConfigInv == ASSUME ConfigInv, Drop PROVE ConfigInv'
<1>1. \A f \in Files : [text |-> "absent"] \in File
  BY DEF File
<1>2. disk' \in [Files -> File] /\ name' = Nothing /\ override' = Nothing /\ named' = FALSE /\ phase' = "dropped"
  BY <1>1 DEF Drop, Enters
<1>. QED BY <1>2 DEF ConfigInv, ConfigTypes, Option

LEMMA HandOverConfigInv == ASSUME ConfigInv, HandOver PROVE ConfigInv'
BY DEF ConfigInv, ConfigTypes, HandOver, Enters

LEMMA SameConfigInv == ASSUME ConfigInv, UNCHANGED loading PROVE ConfigInv'
<1>1. UNCHANGED <<disk, phase, stack, visited, config, name, provider, override, named>>
  BY DEF loading
<1>2. /\ FilesRead' = FilesRead /\ Link' = Link
      /\ (Loadable(Root)' <=> Loadable(Root)) /\ Included(Root)' = Included(Root)
  BY <1>1 DEF FilesRead, Link, Loadable, Included
<1>3. ConfigTypes' = ConfigTypes /\ Loaded' = Loaded /\ Named' = Named
  BY <1>1, <1>2 DEF ConfigTypes, Loaded, Named, Sets
<1>4. \A done, fuel : Gathered(done, fuel)' = Gathered(done, fuel)
  <2>1. \A fuel : Pending(fuel)' = Pending(fuel) /\ Depths(fuel)' = Depths(fuel)
    BY <1>1 DEF Pending, Depths
  <2>. QED BY <1>1, <1>2, <2>1 DEF Gathered
<1>5. Including' = Including
  <2>1. Doomed' = Doomed
    BY <1>1 DEF Doomed
  <2>. QED BY <1>1, <1>2, <1>4, <2>1 DEF Including
<1>6. GetRegistry(name)' = GetRegistry(name) /\ Endless(name)' = Endless(name)
  BY <1>1 DEF GetRegistry, Endless, Replaced
<1>7. \A p : Supported(p)' = Supported(p)
  BY <1>2 DEF Supported
<1>8. Global' = Global
  BY <1>1, <1>7 DEF Global
<1>9. Provided' = Provided
  BY <1>1, <1>6, <1>7, <1>8 DEF Provided
<1>. QED BY <1>1, <1>3, <1>5, <1>6, <1>9 DEF ConfigInv

LEMMA SessionConfigInv == ConfigInv /\ [SessionNext]_<<vars, loading>> => ConfigInv'
<1> SUFFICES ASSUME ConfigInv, [SessionNext]_<<vars, loading>> PROVE ConfigInv'
  OBVIOUS
<1>1. CASE Configures
  BY <1>1, LoadRootConfigInv, LoadIncludeConfigInv, IncludeFailsConfigInv, AllIncludedConfigInv,
     UseIndexConfigInv, UseNameConfigInv, FindIndexConfigInv, FindProviderConfigInv,
     FindTokenConfigInv, DropConfigInv DEF Configures, Load, Resolve
<1>2. CASE Resolved
  BY <1>2, HandOverConfigInv DEF Resolved
<1>3. CASE UNCHANGED loading
  BY <1>3, SameConfigInv
<1>. QED BY <1>1, <1>2, <1>3 DEF SessionNext, LooksUp, Stays

(* What the files say and what has been put together of them lead to the same. *)
LEMMA ConfigInvAsRead == ConfigInv => ProviderAsRead
<1> SUFFICES ASSUME ConfigInv PROVE ProviderAsRead
  OBVIOUS
<1> DEFINE read == [i \in DOMAIN FilesRead |-> Sets(FilesRead[i])]
           alias == [p \in Option(Provider) |->
                       IF p \in Aliases THEN FirstSet([i \in DOMAIN read |-> read[i].alias[p]]) ELSE p]
           Found(p) == {u \in Usable : \E n \in 0..Cardinality(Aliases) : Iterated(alias, p, n) = u}
           Of(r, field) == FirstSet([i \in DOMAIN read |-> read[i].registries[r][field]])
           replaced == [r \in Registries |-> OrElse(Of(r, "replace"), r)]
           standIn == Iterated(replaced, name, Cardinality(Registries))
           own == Of(standIn, "provider")
           circle == Of(standIn, "replace") # Nothing
           all == LastFirst([i \in DOMAIN read |-> read[i].global])
           useful == {i \in DOMAIN all : Found(all[i]) # {}}
           global == IF named THEN all ELSE <<>>
           usable == {i \in DOMAIN global : Found(global[i]) # {}}
           default == FirstSet([i \in DOMAIN read |-> read[i].default])
           expected == IF override # Nothing THEN Found(override)
                       ELSE IF name # Nothing /\ own # Nothing THEN Found(own)
                       ELSE IF named /\ useful # {} THEN Found(all[Max(useful)])
                       ELSE {"token"}
<1>1. SUFFICES ASSUME phase \in {"provided", "endless"}
               PROVE  /\ phase = "endless" => circle
                      /\ phase = "provided" => /\ ~named => name = default
                                               /\ name # Nothing /\ override = Nothing => ~circle
                                               /\ {provider} \ {Nothing} = expected
  BY DEF ProviderAsRead, FilesRead
<1>2. /\ Named /\ ConfigTypes
      /\ phase = "endless" => name # Nothing /\ Endless(name)
      /\ phase = "provided" => Provided
  BY <1>1 DEF ConfigInv
<1>3. /\ Loads(disk, FilesRead) /\ Entries(config, disk, FilesRead) /\ disk \in [Files -> File]
      /\ name \in Option(Registries) /\ override \in Option(Provider) /\ named \in BOOLEAN
  BY <1>2 DEF Named, ConfigTypes
<1>4. /\ FilesRead \in Seq(Files) /\ DOMAIN FilesRead = 1..Len(FilesRead) /\ Len(FilesRead) \in Nat
      /\ DOMAIN read = DOMAIN FilesRead
      /\ \A i \in DOMAIN FilesRead : /\ read[i] = disk[FilesRead[i]].sets
                                     /\ FilesRead[i] \in Files /\ disk[FilesRead[i]].text = "config"
  BY <1>3 DEF Loads, Sets
<1>5. /\ config.alias \in [Aliases -> Option(Provider)]
      /\ \A r \in Registries : /\ config.registries[r].replace \in Option(Registries)
                               /\ config.registries[r].provider \in Option(Provider)
  BY <1>3, EntriesTypes
<1>. HIDE DEF read
<1>6. ASSUME NEW r \in Registries, NEW x \in Fields PROVE Of(r, x) = config.registries[r][x]
  <2>1. [i \in DOMAIN read |-> read[i].registries[r][x]]
          = [i \in DOMAIN FilesRead |-> disk[FilesRead[i]].sets.registries[r][x]]
    BY <1>4
  <2>. QED BY <1>3, <2>1 DEF Entries
<1>7. alias = AliasStep(config)
  <2>1. ASSUME NEW a \in Aliases
        PROVE  FirstSet([i \in DOMAIN read |-> read[i].alias[a]]) = config.alias[a]
    <3>1. [i \in DOMAIN read |-> read[i].alias[a]] = [i \in DOMAIN FilesRead |-> disk[FilesRead[i]].sets.alias[a]]
      BY <1>4
    <3>. QED BY <1>3, <3>1 DEF Entries
  <2>. QED BY <2>1 DEF AliasStep
<1>8. default = FirstSet([i \in DOMAIN FilesRead |-> Sets(FilesRead[i]).default])
  <2>1. [i \in DOMAIN read |-> read[i].default] = [i \in DOMAIN FilesRead |-> Sets(FilesRead[i]).default]
    BY <1>4 DEF Sets
  <2>. QED BY <2>1
<1>9. global = config.global /\ global \in Seq(Provider)
  <2>1. [i \in DOMAIN read |-> read[i].global] = [i \in DOMAIN FilesRead |-> Sets(FilesRead[i]).global]
    BY <1>4 DEF Sets
  <2>2. global = config.global
    BY <1>2, <2>1 DEF Named
  <2>3. LastFirst([i \in DOMAIN read |-> read[i].global]) \in Seq(Provider)
    <3> DEFINE v == [i \in DOMAIN read |-> read[i].global]
    <3>1. \A i \in DOMAIN FilesRead : read[i].global \in Seq(Provider)
      BY <1>3, <1>4, SetsLemma
    <3>2. v \in [1..Len(FilesRead) -> Seq(Provider)]
      BY <1>4, <3>1
    <3>. HIDE DEF v
    <3>3. v \in Seq(Seq(Provider))
      BY <1>4, <3>2, IsSeqLemma
    <3>4. LastFirst(v) \in Seq(Provider)
      BY <3>3, LastFirstConcat
    <3>. QED BY <3>4 DEF v
  <2>. QED BY <2>2, <2>3
<1>10. \A p \in Option(Provider) : Found(p) = {Supported(p)} \ {Nothing}
  <2> SUFFICES ASSUME NEW p \in Option(Provider) PROVE Found(p) = {Supported(p)} \ {Nothing}
    OBVIOUS
  <2>1. Found(p) = {u \in Usable : \E n \in 0..Cardinality(Aliases) : Iterated(AliasStep(config), p, n) = u}
    BY <1>7
  <2>2. {Supported(p)} \ {Nothing} =
          {u \in Usable : \E n \in 0..Cardinality(Aliases) : Iterated(AliasStep(config), p, n) = u}
    BY <1>5, SupportedLemma
  <2>. HIDE DEF Found
  <2>. QED BY <2>1, <2>2
<1>. HIDE DEF alias, Found, Of
<1>11. replaced = Replaced /\ Replaced \in [Registries -> Registries]
  <2>1. \A r \in Registries : Of(r, "replace") = config.registries[r].replace
    BY <1>6 DEF Fields
  <2>2. replaced = Replaced
    BY <2>1 DEF Replaced
  <2>. QED BY <1>5, <2>2 DEF Replaced, OrElse, Option
<1>. HIDE DEF replaced
<1>12. name # Nothing =>
         /\ (circle <=> Endless(name)) /\ own = GetRegistry(name).provider
         /\ GetRegistry(name).provider \in Option(Provider)
  <2> SUFFICES ASSUME name # Nothing
               PROVE  /\ (circle <=> Endless(name)) /\ own = GetRegistry(name).provider
                      /\ GetRegistry(name).provider \in Option(Provider)
    OBVIOUS
  <2>1. Cardinality(Registries) \in Nat
    BY NamesAssumption, FS_CardinalityType
  <2>2. name \in Registries
    BY <1>3 DEF Option
  <2>3. standIn \in Registries /\ GetRegistry(name) = config.registries[standIn]
    <3>1. \A n \in Nat : Iterated(Replaced, name, n) \in Registries
      BY <1>11, <2>2, IteratedLemma
    <3>. QED BY <1>11, <2>1, <3>1 DEF GetRegistry
  <2>. HIDE DEF standIn
  <2>4. Of(standIn, "provider") = config.registries[standIn].provider /\ Of(standIn, "replace") = config.registries[standIn].replace
    BY <1>6, <2>3 DEF Fields
  <2>. QED BY <1>5, <2>3, <2>4 DEF Endless
<1>g. IF usable = {} THEN ~(named /\ useful # {})
      ELSE named /\ useful # {} /\ Found(all[Max(useful)]) = Found(global[Max(usable)])
  <2>1. CASE named
    <3>1. global = all /\ usable = useful
      BY <2>1
    <3>. QED BY <2>1, <3>1
  <2>2. CASE ~named
    <3>1. global = <<>>
      BY <2>2
    <3>2. usable = {}
      BY <3>1
    <3>. QED BY <2>2, <3>2
  <2>. QED BY <2>1, <2>2
<1>. HIDE DEF standIn, own, circle, global
<1>13. IF usable = {} THEN Global = Nothing
       ELSE Global # Nothing /\ Found(global[Max(usable)]) = {Global}
  <2>1. \A i \in DOMAIN global : global[i] \in Provider /\ global[i] \in Option(Provider)
    BY <1>9 DEF Option
  <2>2. usable = {i \in DOMAIN config.global : Supported(config.global[i]) # Nothing}
    BY <1>9, <1>10, <2>1
  <2>3. CASE usable = {}
    BY <2>2, <2>3 DEF Global
  <2>4. CASE usable # {}
    <3>1. Len(global) \in Nat /\ usable \in SUBSET (1..Len(global))
      BY <1>9
    <3>2. Max(usable) \in usable
      <4>. HIDE DEF usable
      <4>. QED BY <2>4, <3>1, MaxLemma
    <3>3. Max(usable) \in DOMAIN global /\ Supported(global[Max(usable)]) # Nothing
      BY <1>9, <2>2, <3>2
    <3>. HIDE DEF usable
    <3>4. Global = Supported(global[Max(usable)])
      BY <1>9, <2>2, <2>4 DEF Global
    <3>. QED BY <1>10, <2>1, <2>4, <3>3, <3>4
  <2>. QED BY <2>3, <2>4
<1>. HIDE DEF usable, useful, all
<1>14. "token" # Nothing
  BY NamesAssumption
<1>15. ASSUME phase = "provided" PROVE {provider} \ {Nothing} = expected
  <2>1. provider = IF override # Nothing THEN Supported(override)
                   ELSE IF name # Nothing /\ GetRegistry(name).provider # Nothing
                        THEN Supported(GetRegistry(name).provider)
                        ELSE OrElse(Global, "token")
    BY <1>2, <1>15 DEF Provided
  <2>2. CASE override # Nothing
    BY <1>3, <1>10, <2>1, <2>2
  <2>3. CASE override = Nothing /\ name # Nothing /\ own # Nothing
    BY <1>10, <1>12, <2>1, <2>3
  <2>4. CASE override = Nothing /\ ~(name # Nothing /\ own # Nothing)
    <3>1. provider = OrElse(Global, "token")
      BY <1>12, <2>1, <2>4
    <3>2. CASE usable = {}
      <4>1. Global = Nothing /\ expected = {"token"}
        BY <1>13, <1>g, <2>4, <3>2
      <4>. QED BY <1>14, <3>1, <4>1 DEF OrElse
    <3>3. CASE usable # {}
      <4>1. Global # Nothing /\ expected = {Global}
        BY <1>13, <1>g, <2>4, <3>3
      <4>. QED BY <3>1, <4>1 DEF OrElse
    <3>. QED BY <3>2, <3>3
  <2>. QED BY <2>2, <2>3, <2>4
<1>16. phase = "endless" => circle
  BY <1>2, <1>12
<1>17. ASSUME phase = "provided" PROVE (~named => name = default) /\ (name # Nothing /\ override = Nothing => ~circle)
  BY <1>2, <1>8, <1>12, <1>17 DEF Named, Provided
<1>. HIDE DEF expected, default
<1>. QED BY <1>15, <1>16, <1>17

(* Whatever files include each other, and to whatever depth, a session with --registry
   has the credential provider that they all together ask for, each setting taken from
   the file that counts most; and it is found if and only if aliases lead to it.
   Without --registry this holds of the default registry and its own provider, and the
   global providers are never asked. *)
THEOREM ProviderIsRead == SessionSpec => []ProviderAsRead
<1>1. SessionInit => ConfigInv
  BY InitConfigInv DEF SessionInit
<1>. QED BY <1>1, SessionConfigInv, ConfigInvAsRead, PTL DEF SessionSpec
=============================================================================
