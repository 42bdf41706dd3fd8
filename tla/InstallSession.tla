--------------------------- MODULE InstallSession ---------------------------
(***************************************************************************)
(* One cargo-binstall session (entry::install_crates): a task per crate    *)
(* resolves it, the main task joins them in order, asks for confirmation,  *)
(* installs what was fetched and updates the manifests without yielding    *)
(* (block_in_place), lets go of the manifests and then runs one            *)
(* cargo install per remaining crate.  Without --continue-on-failure the   *)
(* first error joined ends the session.  A signal drops the main task at   *)
(* an await point and reports UserAbort at once.                           *)
(***************************************************************************)
EXTENDS Naturals

CONSTANT N \* crates of the command line that are not filtered out, deduplicated

ASSUME NAssumption == N \in Nat \ {0}

VARIABLES
  opts,     \* settings of the session
  task,     \* state of the resolution task of each crate
  main,     \* where the main task is
  next,     \* the task, or the build, the main task joins next
  answer,   \* the user's answer to the confirmation
  manifests, \* is Manifests (and with it the locks) still held?
  disk,     \* crates all of whose files have been put in place
  partial,  \* crates that failed after a file of theirs was put in place
  recorded, \* crates written to the manifests
  build,    \* state of the cargo install task of each crate
  errors,   \* crates with a collected error
  updateFailed, \* manifest_update_res is an error
  cancelled, \* a signal has arrived and the main task has been told to stop
  exit      \* how the session ends, as the user sees it

vars == <<opts, task, main, next, answer, manifests, disk, partial, recorded, build,
          errors, updateFailed, cancelled, exit>>

places == <<disk, partial>>

Crate == 1..N

Options == [continue_on_failure: BOOLEAN, dry_run: BOOLEAN, no_confirm: BOOLEAN,
            track_installs: BOOLEAN]

Resolved == {"current", "fetch", "source", "error", "panicked"}
TaskState == Resolved \cup {"running", "aborted"}
BuildState == {"none", "spawned", "cargo", "built", "failed", "aborted"}
(* Mutant: an installation is interrupted by a signal too. *)
AwaitPointsAndInstall == {"join", "confirm", "join_builds", "install"}

(* Mutant: a signal is not heard while the user is asked. *)
AwaitPointsNotConfirm == {"join", "join_builds"}

AwaitPoints == {"join", "confirm", "join_builds"}
Phases == AwaitPoints \cup {"install", "spawn", "ended"}

Fetches == {i \in Crate : task[i] = "fetch"}
Sources == {i \in Crate : task[i] = "source"}

Init ==
  /\ opts \in Options
  /\ task = [i \in Crate |-> "running"]
  /\ main = "join" /\ next = 1 /\ answer = "none"
  /\ manifests = opts.track_installs
  /\ disk = {} /\ partial = {} /\ recorded = {} /\ errors = {}
  /\ build = [i \in Crate |-> "none"]
  /\ updateFailed = FALSE /\ cancelled = FALSE /\ exit = "none"

-----------------------------------------------------------------------------
(* Resolution tasks and the answering thread *)

ResolveEnds(i) ==
  /\ task[i] = "running"
  /\ \E r \in Resolved : task' = [task EXCEPT ![i] = r]
  /\ UNCHANGED <<opts, main, next, answer, manifests, places, recorded, build, errors,
                 updateFailed, cancelled, exit>>

UserAnswers ==
  /\ main = "confirm" /\ answer = "none"
  /\ answer' \in {"yes", "no"}
  /\ UNCHANGED <<opts, task, main, next, manifests, places, recorded, build, errors,
                 updateFailed, cancelled, exit>>

-----------------------------------------------------------------------------
(* The end of the main task: what it owns is dropped, so the manifests are
   unlocked and every AutoAbortJoinHandle aborts its task (kill_on_drop takes
   the cargo process along). *)
Aborted(f, live) == [i \in Crate |-> IF f[i] \in live THEN "aborted" ELSE f[i]]

MainEnds(how) ==
  /\ main' = "ended"
  /\ exit' = IF exit = "none" THEN how ELSE exit
  /\ manifests' = FALSE
  /\ task' = Aborted(task, {"running"})
  /\ build' = Aborted(build, {"spawned", "cargo"})

(* The main task moves on to another phase, from one task to the next. *)
MainAt(phase, n) ==
  /\ main' = phase /\ next' = n
  /\ UNCHANGED <<exit, task, build>>

(* Mutant: only the last error is kept. *)
CollectLast(errs, i) == {i}

Collect(errs, i) == errs \cup {i}

(* The result of the session once all that could be done has been done. *)
Verdict(errs, failed) == IF errs = {} /\ ~failed THEN "ok" ELSE "error"

(* Mutant: a failed crate is skipped in either mode. *)
JoinTaskLenient ==
  /\ main = "join" /\ next <= N
  /\ task[next] # "running"
  /\ errors' = IF task[next] \in {"error", "panicked"} THEN Collect(errors, next) ELSE errors
  /\ MainAt("join", next + 1)
  /\ UNCHANGED <<opts, answer, manifests, places, recorded, updateFailed, cancelled>>

(* task.await: the tasks are joined in the order of the command line. *)
JoinTask ==
  /\ main = "join" /\ next <= N
  /\ task[next] # "running"
  /\ \/ /\ task[next] \in {"current", "fetch", "source"}
        /\ MainAt("join", next + 1)
        /\ UNCHANGED <<manifests, errors>>
     \/ /\ task[next] = "error" /\ opts.continue_on_failure
        /\ errors' = Collect(errors, next)
        /\ MainAt("join", next + 1)
        /\ UNCHANGED manifests
     \/ /\ task[next] = "error" /\ ~opts.continue_on_failure
        /\ MainEnds("error")
        /\ UNCHANGED <<next, errors>>
     \/ /\ task[next] = "panicked" \* a join error: returned, or a panic of its own
        /\ MainEnds(IF opts.continue_on_failure THEN "panic" ELSE "error")
        /\ UNCHANGED <<next, errors>>
  /\ UNCHANGED <<opts, answer, places, recorded, updateFailed, cancelled>>

(* All tasks are joined: nothing to do, or on to the confirmation. *)
AllJoined ==
  /\ main = "join" /\ next = N + 1
  /\ \/ /\ Fetches \cup Sources = {}
        /\ MainEnds(Verdict(errors, FALSE))
        /\ UNCHANGED next
     \/ /\ Fetches \cup Sources # {}
        /\ MainAt(IF opts.dry_run \/ opts.no_confirm THEN "install" ELSE "confirm", 1)
        /\ UNCHANGED manifests
  /\ UNCHANGED <<opts, answer, places, recorded, errors, updateFailed, cancelled>>

Confirmed ==
  /\ main = "confirm" /\ answer # "none"
  /\ \/ /\ answer = "yes"
        /\ MainAt("install", 1)
        /\ UNCHANGED manifests
     \/ /\ answer = "no"
        /\ MainEnds("abort")
        /\ UNCHANGED next
  /\ UNCHANGED <<opts, answer, places, recorded, errors, updateFailed, cancelled>>

-----------------------------------------------------------------------------
(* do_install_fetches and do_install_fetches_continue_on_failure *)

(* Mutant: the manifests live on after an early return. *)
SkipInstallKeeping ==
  /\ main = "install" /\ next = 1
  /\ Fetches = {} \/ opts.dry_run
  /\ MainAt("spawn", 1)
  /\ UNCHANGED <<opts, answer, manifests, places, recorded, errors, updateFailed, cancelled>>

(* No fetches, or a dry run: the manifests are dropped on return. *)
SkipInstall ==
  /\ main = "install" /\ next = 1
  /\ Fetches = {} \/ opts.dry_run
  /\ MainAt("spawn", 1)
  /\ manifests' = FALSE
  /\ UNCHANGED <<opts, answer, places, recorded, errors, updateFailed, cancelled>>

(* ResolutionFetch::install of the next fetched crate: its files are put in place
   one by one, and those that were stay there when another one cannot be. *)
InstallNext ==
  /\ main = "install" /\ next <= N /\ ~opts.dry_run /\ Fetches # {}
  /\ \/ /\ next \notin Fetches
        /\ MainAt("install", next + 1)
        /\ UNCHANGED <<manifests, places, errors>>
     \/ /\ next \in Fetches
        /\ disk' = disk \cup {next}
        /\ MainAt("install", next + 1)
        /\ UNCHANGED <<manifests, partial, errors>>
     \/ /\ next \in Fetches
        /\ partial' \in {partial, partial \cup {next}}
        /\ \/ /\ opts.continue_on_failure
              /\ errors' = Collect(errors, next)
              /\ MainAt("install", next + 1)
              /\ UNCHANGED manifests
           \/ /\ ~opts.continue_on_failure
              /\ MainEnds("error")
              /\ UNCHANGED <<next, errors>>
        /\ UNCHANGED disk
  /\ UNCHANGED <<opts, answer, recorded, updateFailed, cancelled>>

(* update_manifest, which consumes the manifests whatever comes of it. *)
UpdateManifest ==
  /\ main = "install" /\ next = N + 1
  /\ \/ /\ recorded' = IF manifests THEN disk ELSE {}
        /\ manifests' = FALSE
        /\ MainAt("spawn", 1)
        /\ UNCHANGED updateFailed
     \/ /\ manifests /\ opts.continue_on_failure
        /\ updateFailed' = TRUE
        /\ manifests' = FALSE
        /\ MainAt("spawn", 1)
        /\ UNCHANGED recorded
     \/ /\ manifests /\ ~opts.continue_on_failure
        /\ MainEnds("error")
        /\ UNCHANGED <<next, recorded, updateFailed>>
  /\ UNCHANGED <<opts, answer, places, errors, cancelled>>

-----------------------------------------------------------------------------
(* Crates left to cargo install *)

SpawnBuilds ==
  /\ main = "spawn"
  /\ build' = [i \in Crate |-> IF i \in Sources THEN "spawned" ELSE "none"]
  /\ main' = "join_builds"
  /\ UNCHANGED <<opts, task, next, answer, manifests, places, recorded, errors,
                 updateFailed, cancelled, exit>>

(* ResolutionSource::install_inner: no viable target or an install path cargo
   does not support, a dry run, or a cargo process. *)
BuildStarts(i) ==
  /\ build[i] = "spawned"
  /\ build' = [build EXCEPT ![i] = IF opts.dry_run THEN "built" ELSE "cargo"]
  /\ UNCHANGED <<opts, task, main, next, answer, manifests, places, recorded, errors,
                 updateFailed, cancelled, exit>>

BuildEnds(i) ==
  /\ \/ build[i] = "spawned" /\ build' = [build EXCEPT ![i] = "failed"]
     \/ build[i] = "cargo" /\ \E b \in {"built", "failed"} : build' = [build EXCEPT ![i] = b]
  /\ UNCHANGED <<opts, task, main, next, answer, manifests, places, recorded, errors,
                 updateFailed, cancelled, exit>>

JoinBuild ==
  /\ main = "join_builds" /\ next <= N
  /\ build[next] \in {"none", "built", "failed"}
  /\ \/ /\ build[next] # "failed"
        /\ MainAt("join_builds", next + 1)
        /\ UNCHANGED <<manifests, errors>>
     \/ /\ build[next] = "failed" /\ opts.continue_on_failure
        /\ errors' = Collect(errors, next)
        /\ MainAt("join_builds", next + 1)
        /\ UNCHANGED manifests
     \/ /\ build[next] = "failed" /\ ~opts.continue_on_failure
        /\ MainEnds("error")
        /\ UNCHANGED <<next, errors>>
  /\ UNCHANGED <<opts, answer, places, recorded, updateFailed, cancelled>>

Finish ==
  /\ main = "join_builds" /\ next = N + 1
  /\ MainEnds(Verdict(errors, updateFailed))
  /\ UNCHANGED <<opts, next, answer, places, recorded, errors, updateFailed, cancelled>>

-----------------------------------------------------------------------------
(* cancel_on_user_sig_term: the signal wins over the main task, whose handle
   is dropped.  The user is told of the abort at once. *)
Signal ==
  /\ main # "ended" /\ ~cancelled
  /\ cancelled' = TRUE /\ exit' = "abort"
  /\ UNCHANGED <<opts, task, main, next, answer, manifests, places, recorded, build,
                 errors, updateFailed>>

(* The aborted main task goes at an await point, and only there: a running one
   runs on to it, through an installation and its manifest update. *)
MainDropped ==
  /\ cancelled /\ main \in AwaitPoints
  /\ MainEnds("abort")
  /\ UNCHANGED <<opts, next, answer, places, recorded, errors, updateFailed, cancelled>>

MainStep == \/ JoinTask \/ AllJoined \/ Confirmed \/ SkipInstall \/ InstallNext
            \/ UpdateManifest \/ SpawnBuilds \/ JoinBuild \/ Finish \/ MainDropped

TaskStep == \E i \in Crate : ResolveEnds(i) \/ BuildStarts(i) \/ BuildEnds(i)

Terminated == main = "ended" /\ UNCHANGED vars

Next == MainStep \/ TaskStep \/ UserAnswers \/ Signal \/ Terminated

Spec == Init /\ [][Next]_vars

(* The runtime runs the main task; nothing else need ever happen. *)
FairSpec == Spec /\ WF_vars(MainStep)

(* Tasks are run by the runtime and end (resolution is bounded by its time
   limits, cargo ends); the user answers in the end, but need not interrupt. *)
OthersFair == /\ WF_vars(UserAnswers)
              /\ \A i \in Crate : WF_vars(ResolveEnds(i) \/ BuildStarts(i) \/ BuildEnds(i))

-----------------------------------------------------------------------------
(* Properties *)

TypeOK ==
  /\ opts \in Options
  /\ task \in [Crate -> TaskState]
  /\ main \in Phases /\ next \in 1..(N + 1)
  /\ answer \in {"none", "yes", "no"}
  /\ manifests \in BOOLEAN /\ updateFailed \in BOOLEAN /\ cancelled \in BOOLEAN
  /\ disk \subseteq Crate /\ partial \subseteq Crate /\ recorded \subseteq Crate /\ errors \subseteq Crate
  /\ build \in [Crate -> BuildState]
  /\ exit \in {"none", "ok", "error", "panic", "abort"}

Cargo == {i \in Crate : build[i] \in {"cargo", "built"}}

(* Fail-fast: once the resolution of a crate has failed nothing at all is
   installed, whichever task was the first to end. *)
NothingOnFailedResolution ==
  ~opts.continue_on_failure /\ (\E i \in Crate : task[i] \in {"error", "panicked"}) =>
    disk = {} /\ partial = {} /\ Cargo = {}

(* A cargo install process never runs while the session holds the manifests,
   whose lock it needs. *)
BuildsUnlocked == manifests => \A i \in Crate : build[i] # "cargo"

(* No crate is forgotten: at the end of a session that reports success, or that
   goes on after failures, every crate is current, in place or built, or has
   its error collected; success means no error, and a record of what is in place. *)
NoCrateForgotten ==
  main = "ended" /\ (exit = "ok" \/ (exit = "error" /\ opts.continue_on_failure)) =>
    /\ exit = "ok" => errors = {}
    /\ \A i \in Crate \ errors :
         \/ task[i] = "current"
         \/ i \in Fetches /\ opts.dry_run
         \/ i \in disk /\ (exit = "ok" /\ opts.track_installs => i \in recorded)
         \/ i \in Sources /\ build[i] = "built"

(* A tracking session leaves no file unrecorded behind its user's back, and a
   signal never comes between an installation and its record.  A crate is
   recorded only if all of its files are in place; one that is not recorded and
   has a file in place has failed itself, with its error collected, or belongs to
   a session whose manifest update has failed or which an error has stopped
   before it left anything to cargo.  None of these sessions reports success. *)
TrackedOrReported ==
  main = "ended" /\ opts.track_installs =>
    /\ recorded \subseteq disk \ partial
    /\ \A i \in (disk \cup partial) \ recorded :
         /\ exit # "ok"
         /\ IF opts.continue_on_failure THEN i \in errors \/ (i \in disk /\ updateFailed)
            ELSE build = [k \in Crate |-> "none"]

(* Nothing the session has started outlives it. *)
NoOrphans ==
  main = "ended" =>
    \A i \in Crate : task[i] # "running" /\ build[i] \notin {"spawned", "cargo"}

(* The session ends if its tasks end and its user answers.  After a signal it ends
   even if no task and no user ever does anything more, the thread that waits for
   the answer included, and nothing it has started outlives it. *)
SessionEnds ==
  /\ OthersFair => <>(main = "ended")
  /\ cancelled ~> (main = "ended" /\ NoOrphans)
=============================================================================
