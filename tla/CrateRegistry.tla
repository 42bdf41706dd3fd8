--------------------------- MODULE CrateRegistry ---------------------------
(* Lookups of several tasks in one registry (crates/binstalk-registry): which
   version of a crate is taken, and its manifest.  A sparse registry is asked for
   its configuration once and for the index of a crate each time; a git registry
   is cloned once, in the blocking thread of some task, and all look into that
   clone.  Tasks may be aborted at any await, their threads cannot; maintainers
   publish and yank meanwhile. *)
EXTENDS Naturals, Sequences

CONSTANTS
  Callers,    \* tasks that look the crate up
  MaxVersion, \* versions are 1..MaxVersion
  NoOne,      \* holder of a free cell
  MaxEdits,   \* bound: versions published, yanked or restored
  MaxAborts   \* bound: tasks aborted

ASSUME NoOneAssumption == NoOne \notin Callers
ASSUME MaxVersionAssumption == MaxVersion \in Nat \ {0}

VARIABLES
  kind,     \* "sparse" or "git"
  private,  \* the registry has auth-required
  token,    \* the session has a token for it
  index,    \* entries of the crate, in the order they were added
  req,      \* versions each requirement accepts
  holder,   \* who is inside the initializer of the cell
  content,  \* the cell: {}, or {the clone}, or {the configuration}
  task,     \* where each task is
  thread,   \* where its blocking thread is
  version,  \* the version selected
  offered,  \* history: what has been best while the task might have looked
  faulted,  \* history: tasks whose own request or clone failed
  edits, aborts

vars == <<kind, private, token, index, req, holder, content, task, thread, version,
          offered, faulted, edits, aborts>>
given == <<kind, private, token, req>>
world == <<index, offered, edits>>

Version == 1..MaxVersion
None == 0 \* no version, also that of an entry that is not a semantic version
Config == <<>> \* what it says, auth-required, is in private

Entry == [vers : Version \cup {None}, yanked : BOOLEAN]

-----------------------------------------------------------------------------
(* MatchedVersion::find *)

(* Mutant: the entry added last is taken for the newest. *)
NewerUnchecked(best, e, accepted) ==
  IF ~e.yanked /\ e.vers \in accepted THEN e.vers ELSE best

Newer(best, e, accepted) ==
  IF ~e.yanked /\ e.vers \in accepted /\ e.vers > best THEN e.vers ELSE best

Find(entries, accepted) ==
  LET best[n \in 0..Len(entries)] ==
        IF n = 0 THEN None ELSE Newer(best[n - 1], entries[n], accepted)
  IN  best[Len(entries)]

(* What it should return: the greatest version that can be had. *)
Best(entries, accepted) ==
  LET fit == {entries[i].vers : i \in {j \in DOMAIN entries : ~entries[j].yanked}}
               \cap accepted
  IN  IF fit = {} THEN None ELSE CHOOSE v \in fit : \A w \in fit : w <= v

(* The session has not got its registry yet. *)
Init ==
  /\ kind = "none" /\ private = FALSE /\ token = FALSE
  /\ index = <<>> /\ req = [c \in Callers |-> {}]
  /\ holder = NoOne /\ content = {}
  /\ task = [c \in Callers |-> "start"] /\ thread = [c \in Callers |-> "none"]
  /\ version = [c \in Callers |-> None]
  /\ offered = [c \in Callers |-> {}]
  /\ faulted = {} /\ edits = 0 /\ aborts = 0

(* A registry is what its index is; the session may have a token for it.  To a
   public one that makes no difference. *)
Opened(authenticated) ==
  /\ kind = "none"
  /\ kind' \in {"sparse", "git"}
  /\ private' \in BOOLEAN /\ token' = (private' /\ authenticated)
  /\ \E e, f \in Entry : e.vers # f.vers /\ ~f.yanked /\ index' = <<e, f>>
  /\ req' \in [Callers -> SUBSET Version \ {{}}]
  /\ offered' = [c \in Callers |-> {Best(index', req'[c])}]
  /\ UNCHANGED <<holder, content, task, thread, version, faulted, edits, aborts>>

Go(c, from, to) == task[c] = from /\ task' = [task EXCEPT ![c] = to]
Run(c, from, to) == thread[c] = from /\ thread' = [thread EXCEPT ![c] = to]
Select(c, v) == version' = [version EXCEPT ![c] = v]
Leave(c) == holder' = IF holder = c THEN NoOne ELSE holder

(* The token is sent where it is required, and it is an error to have none. *)
Admitted == private => token

(* Several tasks enter at once. *)
Start(c) ==
  /\ kind # "none"
  /\ IF kind = "git"
     THEN Go(c, "start", "waiting") /\ Run(c, "none", "cell") /\ UNCHANGED offered
     ELSE /\ Go(c, "start", "config")
          /\ offered' = [offered EXCEPT ![c] = {Best(index, req[c])}]
          /\ UNCHANGED thread
  /\ UNCHANGED <<given, index, holder, content, version, faulted, edits, aborts>>

-----------------------------------------------------------------------------
(* SparseRegistry::fetch_crate_matched *)

UseConfig(c) ==
  /\ content # {}
  /\ Go(c, "config", IF Admitted THEN "index" ELSE "failed")
  /\ UNCHANGED <<given, world, holder, content, thread, version, faulted, aborts>>

AskConfig(c) ==
  /\ content = {} /\ holder = NoOne
  /\ Go(c, "config", "asking")
  /\ holder' = c
  /\ UNCHANGED <<given, world, content, thread, version, faulted, aborts>>

(* The configuration may be public where the rest is not. *)
Configure(c) ==
  /\ Go(c, "asking", "config")
  /\ content' = {Config}
  /\ Leave(c)
  /\ UNCHANGED <<given, world, thread, version, faulted, aborts>>

ConfigRefused(c) ==
  /\ ~Admitted
  /\ Go(c, "asking", "failed")
  /\ Leave(c)
  /\ UNCHANGED <<given, world, content, thread, version, faulted, aborts>>

ReadIndex(c) ==
  /\ Go(c, "index", IF Find(index, req[c]) = None THEN "failed" ELSE "download")
  /\ Select(c, Find(index, req[c]))
  /\ UNCHANGED <<given, world, holder, content, thread, faulted, aborts>>

(* A request of the task gets an error, an answer that does not parse, or an
   archive that has not the checksum of the index (parse_manifest). *)
RequestFails(c) ==
  /\ \E from \in {"asking", "index", "download"} : Go(c, from, "failed")
  /\ faulted' = faulted \cup {c}
  /\ Leave(c)
  /\ UNCHANGED <<given, world, content, thread, version, aborts>>

(* The archive has the checksum of the index: it is that of the version. *)
Download(c) ==
  /\ Go(c, "download", "done")
  /\ UNCHANGED <<given, world, holder, content, thread, version, faulted, aborts>>

-----------------------------------------------------------------------------
(* GitRegistry::fetch_crate_matched *)

UseClone(c) ==
  /\ \E clone \in content :
       /\ Run(c, "cell", IF Find(clone, req[c]) = None THEN "failed" ELSE "found")
       /\ Select(c, Find(clone, req[c]))
  /\ UNCHANGED <<given, world, holder, content, task, faulted, aborts>>

StartClone(c) ==
  /\ content = {} /\ holder = NoOne
  /\ Run(c, "cell", "cloning")
  /\ holder' = c
  /\ UNCHANGED <<given, world, content, task, version, faulted, aborts>>

(* GitIndex::new; the clone stays as it is while the registry goes on. *)
Cloned(c) ==
  /\ Run(c, "cloning", "cell")
  /\ content' = {index}
  /\ Leave(c)
  /\ UNCHANGED <<given, world, task, version, faulted, aborts>>

CloneFails(c) ==
  /\ Run(c, "cloning", "failed")
  /\ faulted' = faulted \cup {c}
  /\ Leave(c)
  /\ UNCHANGED <<given, world, content, task, version, aborts>>

(* Mutant: nothing cancels a clone. *)
NotCancelled(c) == FALSE

(* Mutant: all clones share one token. *)
CancelledWithAny(c) == \E d \in Callers : task[d] = "aborted"

(* cancel_on_drop, of the task that started the clone. *)
Cancelled(c) == task[c] = "aborted"

CloneCancelled(c) ==
  /\ Cancelled(c)
  /\ Run(c, "cloning", "failed")
  /\ Leave(c)
  /\ UNCHANGED <<given, world, content, task, version, faulted, aborts>>

Joined(c) ==
  /\ thread[c] \in {"found", "failed"}
  /\ Go(c, "waiting", IF thread[c] = "found" /\ Admitted THEN "download" ELSE "failed")
  /\ UNCHANGED <<given, world, holder, content, thread, version, faulted, aborts>>

-----------------------------------------------------------------------------

Over(c) == task[c] \in {"done", "failed", "aborted"}

(* The task is dropped, and with it the initializer it is in; its thread runs on. *)
Abort(c) ==
  /\ ~Over(c) /\ task[c] # "start" /\ aborts < MaxAborts
  /\ aborts' = aborts + 1
  /\ task' = [task EXCEPT ![c] = "aborted"]
  /\ IF kind = "git" THEN UNCHANGED holder ELSE Leave(c)
  /\ UNCHANGED <<given, world, content, thread, version, faulted>>

(* Maintainers publish a version, also one for an older line, or yank one or
   restore it. *)
Edit ==
  /\ kind # "none" /\ edits < MaxEdits
  /\ edits' = edits + 1
  /\ \/ \E v \in Version :
          /\ \A i \in DOMAIN index : index[i].vers # v
          /\ index' = Append(index, [vers |-> v, yanked |-> FALSE])
     \/ \E i \in DOMAIN index : index' = [index EXCEPT ![i].yanked = ~@]
  /\ offered' = [c \in Callers |-> offered[c] \cup {Best(index', req[c])}]
  /\ UNCHANGED <<given, holder, content, task, thread, version, faulted, aborts>>

Task(c) == \/ Start(c) \/ UseConfig(c) \/ AskConfig(c) \/ Configure(c) \/ ConfigRefused(c)
           \/ ReadIndex(c) \/ RequestFails(c) \/ Download(c) \/ Joined(c)

Thread(c) == UseClone(c) \/ StartClone(c) \/ CloneCancelled(c)

AllOver == /\ \A c \in Callers : Over(c) /\ thread[c] \in {"none", "found", "failed"}
           /\ UNCHANGED vars

Lookups == \/ \E c \in Callers : Task(c) \/ Thread(c) \/ Cloned(c) \/ CloneFails(c) \/ Abort(c)
           \/ Edit
           \/ AllOver

Next == (\E authenticated \in BOOLEAN : Opened(authenticated)) \/ Lookups

Spec == Init /\ [][Next]_vars

-----------------------------------------------------------------------------
(* Properties *)

(* The manifest a lookup returns is that of the greatest version that could be had
   at some time during the lookup, or during the session if the registry is cloned,
   whatever the order of the entries; and lookups in one clone agree. *)
ManifestOfBest ==
  \A c \in Callers : task[c] = "done" =>
    /\ version[c] \in offered[c] \ {None}
    /\ \A d \in Callers : kind = "git" /\ task[d] = "done" /\ req[c] = req[d]
                             => version[c] = version[d]

(* A lookup fails for a reason of its own: not because another task that shares the
   cell has met an error, or has been aborted in the middle of it. *)
FailsForItself ==
  \A c \in Callers : task[c] = "failed" =>
    c \in faulted \/ None \in offered[c] \/ ~Admitted

(* A lookup and its thread are over, or a server is silent to the clone of a task
   that still waits for it. *)
Settled(c) ==
  \/ Over(c) /\ thread[c] \in {"none", "found", "failed"}
  \/ \E d \in Callers : thread[d] = "cloning" /\ task[d] = "waiting"
=============================================================================
