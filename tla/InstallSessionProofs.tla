------------------------ MODULE InstallSessionProofs ------------------------
(* Proofs about InstallSession, for any number of crates. *)
EXTENDS InstallSession, TLAPS

USE DEF places

(* A task that has been joined without ending the session. *)
JoinedOk(i) ==
  \/ task[i] \in {"current", "fetch", "source"}
  \/ task[i] = "error" /\ opts.continue_on_failure /\ i \in errors

(* An installation that is over. *)
InstalledOk(i) == task[i] = "fetch" => opts.dry_run \/ i \in disk \/ i \in errors

(* A build that has been joined without ending the session. *)
BuiltOk(i) == build[i] \in {"none", "built"} \/ i \in errors

NoBuilds == \A i \in Crate : build[i] = "none"

(* What each phase of the main task knows of the phases before. *)
PhaseInv ==
  /\ main = "join" => \A i \in Crate : i < next => JoinedOk(i)
  /\ main \in {"confirm", "install", "spawn", "join_builds"} => \A i \in Crate : JoinedOk(i)
  /\ main \in {"join", "confirm", "install"} =>
       NoBuilds /\ recorded = {} /\ updateFailed = FALSE
  /\ main \in {"join", "confirm"} => disk = {} /\ partial = {}
  /\ main \in {"install", "spawn", "join_builds"} => disk \subseteq Fetches
  /\ main \in {"install", "spawn", "join_builds"} =>
       disk \cap partial = {} /\ partial \subseteq errors
         /\ (opts.continue_on_failure \/ partial = {})
  /\ main = "install" /\ opts.dry_run => disk = {}
  /\ main = "install" => \A i \in disk \cup partial : i < next
  /\ main = "install" => \A i \in Crate : i < next => InstalledOk(i)
  /\ main \in {"spawn", "join_builds"} =>
       /\ manifests = FALSE
       /\ \A i \in Crate : InstalledOk(i)
       /\ opts.track_installs => recorded = disk \/ updateFailed
       /\ recorded \subseteq disk /\ (updateFailed => opts.continue_on_failure)
  /\ main = "install" => (manifests <=> opts.track_installs)
  /\ main \in {"join", "confirm"} => (manifests <=> opts.track_installs)
  /\ main = "spawn" => NoBuilds /\ next = 1
  /\ main = "join_builds" =>
       \A i \in Crate : (build[i] = "none" <=> task[i] # "source") /\ (i < next => BuiltOk(i))
  /\ main # "ended" => exit \in {"none", "abort"}

Good ==
  /\ NothingOnFailedResolution
  /\ BuildsUnlocked
  /\ NoCrateForgotten
  /\ TrackedOrReported
  /\ NoOrphans

IInv == TypeOK /\ PhaseInv /\ (main = "ended" => Good)

LEMMA InitIInv == Init => IInv
<1> SUFFICES ASSUME Init PROVE IInv OBVIOUS
<1>1. main = "join" /\ next = 1 /\ manifests = opts.track_installs /\ NoBuilds
  BY DEF Init, NoBuilds
<1>2. TypeOK
  <2>1. opts.track_installs \in BOOLEAN
    BY DEF Init, Options
  <2>2. next \in 1..(N + 1) /\ main \in Phases
    BY <1>1, NAssumption DEF Phases, AwaitPoints
  <2>3. task \in [Crate -> TaskState] /\ build \in [Crate -> BuildState]
    BY DEF Init, TaskState, BuildState
  <2>. QED BY <1>1, <2>1, <2>2, <2>3 DEF Init, TypeOK
<1>3. \A i \in Crate : ~(i < 1)
  BY NAssumption DEF Crate
<1>. QED BY <1>1, <1>2, <1>3 DEF Init, IInv, PhaseInv

(* Before the end the phases say enough. *)
LEMMA GoodWhileRunning == TypeOK /\ PhaseInv /\ main # "ended" => Good
<1> SUFFICES ASSUME TypeOK, PhaseInv, main # "ended" PROVE Good OBVIOUS
<1>1. main \in {"join", "confirm", "install", "spawn", "join_builds"}
  BY DEF TypeOK, Phases, AwaitPoints
<1>2. BuildsUnlocked
  BY <1>1 DEF PhaseInv, BuildsUnlocked, NoBuilds
<1>3. NothingOnFailedResolution
  BY <1>1 DEF PhaseInv, NothingOnFailedResolution, NoBuilds, JoinedOk, Cargo
<1>. QED BY <1>2, <1>3 DEF Good, NoCrateForgotten, TrackedOrReported, NoOrphans

(* The end of the main task ends everything else, and changes nothing that is
   over. *)
LEMMA EndLemma ==
  ASSUME TypeOK, NEW how \in {"ok", "error", "panic", "abort"}, MainEnds(how),
         exit \in {"none", "abort"}, UNCHANGED opts,
         next' \in 1..(N + 1), errors' \subseteq Crate, disk' \subseteq Crate, partial' \subseteq Crate, recorded' \subseteq Crate,
         UNCHANGED <<answer, updateFailed, cancelled>>
  PROVE  /\ TypeOK' /\ PhaseInv' /\ BuildsUnlocked' /\ NoOrphans'
         /\ \A i \in Crate : /\ task'[i] = IF task[i] = "running" THEN "aborted" ELSE task[i]
                             /\ build'[i] = IF build[i] \in {"spawned", "cargo"} THEN "aborted" ELSE build[i]
         /\ exit' \in {how, "abort"}
         /\ main' = "ended"
<1>1. /\ main' = "ended" /\ manifests' = FALSE /\ exit' \in {how, "abort"}
      /\ task' = [i \in Crate |-> IF task[i] \in {"running"} THEN "aborted" ELSE task[i]]
      /\ build' = [i \in Crate |-> IF build[i] \in {"spawned", "cargo"} THEN "aborted" ELSE build[i]]
  BY DEF MainEnds, Aborted
<1>2. PhaseInv'
  BY <1>1 DEF PhaseInv
<1>3. task' \in [Crate -> TaskState] /\ build' \in [Crate -> BuildState]
  BY <1>1 DEF TypeOK, TaskState, BuildState, Resolved
<1>4. TypeOK'
  BY <1>1, <1>3 DEF TypeOK, Phases, AwaitPoints
<1>5. BuildsUnlocked' /\ NoOrphans'
  BY <1>1 DEF BuildsUnlocked, NoOrphans
<1>. QED BY <1>1, <1>2, <1>4, <1>5

(* Outside the installation itself whatever is in place is recorded, or its error
   or that of the manifest update has been collected. *)
Accounted ==
  opts.track_installs =>
    /\ recorded \subseteq disk \ partial
    /\ \A i \in (disk \cup partial) \ recorded :
         opts.continue_on_failure /\ (i \in errors \/ (i \in disk /\ updateFailed))

LEMMA AccountedLemma ==
  ASSUME PhaseInv, main \in {"join", "confirm", "spawn", "join_builds"}
  PROVE  Accounted
<1>1. CASE main \in {"join", "confirm"}
  BY <1>1 DEF PhaseInv, Accounted
<1>2. CASE main \in {"spawn", "join_builds"}
  <2>1. /\ disk \cap partial = {} /\ partial \subseteq errors
        /\ opts.continue_on_failure \/ partial = {}
        /\ opts.track_installs => recorded = disk \/ updateFailed
        /\ recorded \subseteq disk /\ (updateFailed => opts.continue_on_failure)
    BY <1>2 DEF PhaseInv
  <2>. QED BY <2>1 DEF Accounted
<1>. QED BY <1>1, <1>2

(* Ends that change nothing of it report what is not recorded. *)
LEMMA TrackedEnd ==
  ASSUME Accounted, UNCHANGED <<opts, disk, partial, recorded, errors, updateFailed>>,
         exit' = "ok" => errors = {} /\ ~updateFailed
  PROVE  TrackedOrReported'
<1>1. ASSUME opts.track_installs, NEW i \in (disk \cup partial) \ recorded
      PROVE  /\ opts.continue_on_failure /\ (i \in errors \/ (i \in disk /\ updateFailed))
             /\ exit' # "ok"
  BY <1>1 DEF Accounted
<1>. QED BY <1>1 DEF Accounted, TrackedOrReported

(* At an end after all tasks have been joined none has failed, unless the
   session goes on after failures. *)
LEMMA JoinedLemma ==
  ASSUME \A i \in Crate : JoinedOk(i), UNCHANGED opts,
         \A i \in Crate : task'[i] = IF task[i] = "running" THEN "aborted" ELSE task[i]
  PROVE  NothingOnFailedResolution'
BY DEF JoinedOk, NothingOnFailedResolution

LEMMA NextIInv == IInv /\ [Next]_vars => IInv'
<1> SUFFICES ASSUME IInv, [Next]_vars PROVE IInv' OBVIOUS
<1>c. Crate = 1..N /\ N \in Nat \ {0}
  BY NAssumption DEF Crate
<1>t. TypeOK /\ PhaseInv
  BY DEF IInv
<1>1. ASSUME NEW i \in Crate, ResolveEnds(i) PROVE IInv'
  <2>1. main # "ended"
    BY <1>1 DEF IInv, Good, NoOrphans, ResolveEnds
  <2>2. TypeOK'
    BY <1>1, <1>t DEF TypeOK, ResolveEnds, TaskState, Resolved
  <2>3. /\ task[i] = "running" /\ \A j \in Crate \ {i} : task'[j] = task[j]
        /\ UNCHANGED <<opts, main, next, answer, manifests, disk, partial, recorded, build, errors,
                       updateFailed, cancelled, exit>>
    BY <1>1, <1>t DEF TypeOK, ResolveEnds
  <2>4. ~JoinedOk(i)
    BY <2>3 DEF JoinedOk
  <2>5. main = "join" /\ ~(i < next)
    BY <2>1, <2>4, <1>t DEF TypeOK, PhaseInv, Phases, AwaitPoints
  <2>6. PhaseInv'
    BY <2>3, <2>5, <1>t, <1>c DEF PhaseInv, JoinedOk, NoBuilds
  <2>. QED BY <2>1, <2>2, <2>3, <2>6 DEF IInv
<1>2. ASSUME NEW i \in Crate, BuildStarts(i) \/ BuildEnds(i) PROVE IInv'
  <2>1. /\ build[i] \in {"spawned", "cargo"} /\ build'[i] \in {"cargo", "built", "failed"}
        /\ build' \in [Crate -> BuildState] /\ \A j \in Crate \ {i} : build'[j] = build[j]
        /\ UNCHANGED <<opts, task, main, next, answer, manifests, disk, partial, recorded, errors,
                       updateFailed, cancelled, exit>>
    BY <1>2, <1>t DEF BuildStarts, BuildEnds, TypeOK, BuildState
  <2>2. main # "ended"
    BY <2>1 DEF IInv, Good, NoOrphans
  <2>3. TypeOK'
    BY <2>1, <1>t DEF TypeOK
  <2>4. main = "join_builds"
    BY <2>1, <2>2, <1>t DEF TypeOK, PhaseInv, Phases, AwaitPoints, NoBuilds
  <2>5. PhaseInv'
    BY <2>1, <2>4, <1>t, <1>c DEF PhaseInv, JoinedOk, InstalledOk, BuiltOk, NoBuilds, Fetches
  <2>. QED BY <2>1, <2>2, <2>3, <2>5 DEF IInv
<1>3. CASE UserAnswers
  <2>1. TypeOK' /\ main = "confirm"
    BY <1>3, <1>t DEF TypeOK, UserAnswers
  <2>2. PhaseInv'
    BY <1>3, <1>t DEF UserAnswers, PhaseInv, JoinedOk, InstalledOk, BuiltOk, NoBuilds, Fetches
  <2>. QED BY <1>3, <2>1, <2>2 DEF IInv, UserAnswers
<1>4. CASE Signal
  <2>1. TypeOK' /\ main # "ended" /\ main' = main
    BY <1>4, <1>t DEF TypeOK, Signal
  <2>2. PhaseInv'
    BY <1>4, <1>t DEF Signal, PhaseInv, JoinedOk, InstalledOk, BuiltOk, NoBuilds, Fetches
  <2>. QED BY <2>1, <2>2 DEF IInv
<1>5. CASE JoinTask
  <2>1. /\ main = "join" /\ next \in 1..N
        /\ UNCHANGED <<opts, answer, disk, partial, recorded, updateFailed, cancelled>>
    BY <1>5, <1>t, <1>c DEF JoinTask, TypeOK
  <2>2. CASE MainAt("join", next + 1)
    <3>0. /\ main' = "join" /\ next' = next + 1 /\ UNCHANGED <<exit, task, build>>
          /\ \/ task[next] \in {"current", "fetch", "source"} /\ UNCHANGED <<manifests, errors>>
             \/ /\ task[next] = "error" /\ opts.continue_on_failure
                /\ errors' = errors \cup {next} /\ UNCHANGED manifests
      BY <1>5, <2>2 DEF JoinTask, MainAt, MainEnds, Collect
    <3>2. errors \subseteq errors' /\ errors' \subseteq Crate /\ manifests' = manifests
      BY <2>1, <3>0, <1>t, <1>c DEF TypeOK
    <3>1. ASSUME NEW j \in Crate, j = next PROVE JoinedOk(j)'
      BY <2>1, <3>0, <3>1, Zenon DEF JoinedOk
    <3>3. TypeOK'
      BY <2>1, <2>2, <3>2, <1>t, <1>c DEF MainAt, TypeOK
    <3>4. \A j \in Crate : j < next' => JoinedOk(j)'
      <4> SUFFICES ASSUME NEW j \in Crate, j < next' PROVE JoinedOk(j)' OBVIOUS
      <4>1. j < next \/ j = next
        BY <2>1, <2>2, <1>c DEF MainAt
      <4>2. CASE j < next
        <5>1. JoinedOk(j)
          BY <4>2, <2>1, <1>t DEF PhaseInv
        <5>. QED BY <5>1, <2>1, <3>0, <3>2 DEF JoinedOk
      <4>. QED BY <4>1, <4>2, <3>1
    <3>5. PhaseInv'
      BY <2>1, <2>2, <3>2, <3>4, <1>t DEF MainAt, PhaseInv, NoBuilds
    <3>. QED BY <2>2, <3>3, <3>5 DEF IInv, MainAt
  <2>3. ASSUME NEW how \in {"error", "panic"}, MainEnds(how), UNCHANGED <<next, errors>>,
               how = "panic" \/ ~opts.continue_on_failure
        PROVE  IInv'
    <3>1. next' \in 1..(N + 1) /\ errors' \subseteq Crate /\ disk' = {} /\ partial' = {} /\ recorded' = {} /\ NoBuilds
      BY <2>1, <2>3, <1>t, <1>c DEF TypeOK, PhaseInv
    <3>2. exit \in {"none", "abort"}
      BY <2>1, <1>t DEF PhaseInv
    <3>3. /\ TypeOK' /\ PhaseInv' /\ BuildsUnlocked' /\ NoOrphans' /\ main' = "ended"
          /\ \A i \in Crate : build'[i] = IF build[i] \in {"spawned", "cargo"} THEN "aborted" ELSE build[i]
          /\ exit' \in {how, "abort"}
      BY <2>1, <2>3, <3>1, <3>2, <1>t, EndLemma
    <3>4. NothingOnFailedResolution'
      BY <3>1, <3>3 DEF NothingOnFailedResolution, NoBuilds, Cargo
    <3>5. NoCrateForgotten' /\ TrackedOrReported'
      BY <2>1, <2>3, <3>1, <3>3 DEF NoCrateForgotten, TrackedOrReported
    <3>. QED BY <3>3, <3>4, <3>5 DEF IInv, Good
  <2>. QED BY <1>5, <2>2, <2>3 DEF JoinTask
<1>6. CASE AllJoined
  <2>1. /\ main = "join" /\ next = N + 1 /\ \A i \in Crate : JoinedOk(i)
        /\ UNCHANGED <<opts, answer, disk, partial, recorded, errors, updateFailed, cancelled>>
    BY <1>6, <1>t, <1>c DEF AllJoined, PhaseInv
  <2>2. CASE Fetches \cup Sources = {} /\ MainEnds(Verdict(errors, FALSE)) /\ UNCHANGED next
    <3>1. exit \in {"none", "abort"} /\ disk = {} /\ partial = {} /\ recorded = {}
      BY <2>1, <1>t DEF PhaseInv
    <3>2. /\ TypeOK' /\ PhaseInv' /\ BuildsUnlocked' /\ NoOrphans' /\ main' = "ended"
          /\ \A i \in Crate : task'[i] = IF task[i] = "running" THEN "aborted" ELSE task[i]
          /\ exit' \in {Verdict(errors, FALSE), "abort"}
      BY <2>1, <2>2, <3>1, <1>t, EndLemma DEF Verdict, TypeOK
    <3>3. NothingOnFailedResolution'
      BY <2>1, <3>2, JoinedLemma
    <3>4. \A i \in Crate \ errors : task[i] = "current"
      BY <2>1, <2>2 DEF JoinedOk, Fetches, Sources
    <3>5. NoCrateForgotten' /\ TrackedOrReported'
      BY <2>1, <3>1, <3>2, <3>4 DEF NoCrateForgotten, TrackedOrReported, Verdict
    <3>. QED BY <3>2, <3>3, <3>5 DEF IInv, Good
  <2>3. CASE MainAt(IF opts.dry_run \/ opts.no_confirm THEN "install" ELSE "confirm", 1) /\ UNCHANGED manifests
    <3>1. /\ main' \in {"install", "confirm"} /\ next' = 1 /\ UNCHANGED <<exit, task, build, manifests>>
      BY <2>3 DEF MainAt
    <3>2. TypeOK'
      BY <2>1, <3>1, <1>t, <1>c DEF TypeOK, Phases, AwaitPoints
    <3>3. \A i \in Crate : ~(i < next')
      BY <3>1, <1>c
    <3>4. PhaseInv'
      BY <2>1, <3>1, <3>3, <1>t DEF PhaseInv, JoinedOk, NoBuilds
    <3>. QED BY <3>1, <3>2, <3>4 DEF IInv
  <2>. QED BY <1>6, <2>2, <2>3 DEF AllJoined
<1>7. CASE Confirmed
  <2>1. /\ main = "confirm" /\ \A i \in Crate : JoinedOk(i)
        /\ UNCHANGED <<opts, answer, disk, partial, recorded, errors, updateFailed, cancelled>>
    BY <1>7, <1>t DEF Confirmed, PhaseInv
  <2>2. CASE MainEnds("abort") /\ UNCHANGED next
    <3>1. exit \in {"none", "abort"} /\ disk = {} /\ partial = {} /\ recorded = {}
      BY <2>1, <1>t DEF PhaseInv
    <3>2. /\ TypeOK' /\ PhaseInv' /\ BuildsUnlocked' /\ NoOrphans' /\ main' = "ended"
          /\ \A i \in Crate : task'[i] = IF task[i] = "running" THEN "aborted" ELSE task[i]
          /\ exit' = "abort"
      BY <2>1, <2>2, <3>1, <1>t, EndLemma DEF TypeOK
    <3>3. NothingOnFailedResolution'
      BY <2>1, <3>2, JoinedLemma
    <3>5. NoCrateForgotten' /\ TrackedOrReported'
      BY <2>1, <3>1, <3>2 DEF NoCrateForgotten, TrackedOrReported
    <3>. QED BY <3>2, <3>3, <3>5 DEF IInv, Good
  <2>3. CASE MainAt("install", 1) /\ UNCHANGED manifests
    <3>1. /\ main' = "install" /\ next' = 1 /\ UNCHANGED <<exit, task, build, manifests>>
      BY <2>3 DEF MainAt
    <3>2. TypeOK'
      BY <2>1, <3>1, <1>t, <1>c DEF TypeOK, Phases
    <3>3. \A i \in Crate : ~(i < next')
      BY <3>1, <1>c
    <3>4. PhaseInv'
      BY <2>1, <3>1, <3>3, <1>t DEF PhaseInv, JoinedOk, NoBuilds
    <3>. QED BY <3>1, <3>2, <3>4 DEF IInv
  <2>. QED BY <1>7, <2>2, <2>3 DEF Confirmed
<1>8. CASE SkipInstall
  <2>1. /\ main = "install" /\ main' = "spawn" /\ next' = 1 /\ manifests' = FALSE
        /\ UNCHANGED <<exit, task, build, opts, answer, disk, partial, recorded, errors, updateFailed, cancelled>>
        /\ Fetches = {} \/ opts.dry_run
    BY <1>8 DEF SkipInstall, MainAt
  <2>2. TypeOK'
    <3>1. manifests' \in BOOLEAN
      BY <2>1
    <3>2. next' \in 1..(N + 1) /\ main' \in Phases
      BY <2>1, <1>c DEF Phases
    <3>. QED BY <2>1, <3>1, <3>2, <1>t DEF TypeOK
  <2>3. \A i \in Crate : InstalledOk(i)
    BY <2>1 DEF InstalledOk, Fetches
  <2>4. disk = {}
    BY <1>8, <2>1, <1>t DEF PhaseInv, SkipInstall
  <2>5. PhaseInv'
    BY <2>1, <2>3, <2>4, <1>t DEF PhaseInv, JoinedOk, InstalledOk, NoBuilds, Fetches
  <2>. QED BY <2>1, <2>2, <2>5 DEF IInv
<1>9. CASE InstallNext
  <2>1. /\ main = "install" /\ next \in 1..N /\ ~opts.dry_run /\ \A i \in Crate : JoinedOk(i)
        /\ disk \subseteq Fetches /\ NoBuilds /\ recorded = {} /\ updateFailed = FALSE
        /\ disk \cap partial = {} /\ partial \subseteq errors
        /\ opts.continue_on_failure \/ partial = {}
        /\ \A i \in disk \cup partial : i < next
        /\ UNCHANGED <<opts, answer, recorded, updateFailed, cancelled>>
    BY <1>9, <1>t, <1>c DEF InstallNext, TypeOK, PhaseInv
  <2>2. CASE /\ MainEnds("error") /\ ~opts.continue_on_failure /\ UNCHANGED <<next, disk, errors>>
             /\ partial' \in {partial, partial \cup {next}}
    <3>1. exit \in {"none", "abort"} /\ partial' \subseteq Crate
      BY <2>1, <2>2, <1>t, <1>c DEF PhaseInv, TypeOK
    <3>2. /\ TypeOK' /\ PhaseInv' /\ BuildsUnlocked' /\ NoOrphans' /\ main' = "ended"
          /\ \A i \in Crate : /\ task'[i] = IF task[i] = "running" THEN "aborted" ELSE task[i]
                              /\ build'[i] = IF build[i] \in {"spawned", "cargo"} THEN "aborted" ELSE build[i]
          /\ exit' \in {"error", "abort"}
      BY <2>1, <2>2, <3>1, <1>t, EndLemma DEF TypeOK
    <3>3. NothingOnFailedResolution'
      BY <2>1, <3>2, JoinedLemma
    <3>4. build' = [i \in Crate |-> "none"]
      BY <2>1, <3>2 DEF NoBuilds, TypeOK
    <3>5. NoCrateForgotten' /\ TrackedOrReported'
      BY <2>1, <2>2, <3>2, <3>4 DEF NoCrateForgotten, TrackedOrReported
    <3>. QED BY <3>2, <3>3, <3>5 DEF IInv, Good
  <2>3. CASE MainAt("install", next + 1)
    <3>0. /\ main' = "install" /\ next' = next + 1 /\ UNCHANGED <<exit, task, build, manifests>>
          /\ \/ next \notin Fetches /\ UNCHANGED <<disk, partial, errors>>
             \/ next \in Fetches /\ disk' = disk \cup {next} /\ UNCHANGED <<partial, errors>>
             \/ /\ next \in Fetches /\ errors' = errors \cup {next} /\ UNCHANGED disk
                /\ partial' \in {partial, partial \cup {next}} /\ opts.continue_on_failure
      BY <1>9, <2>3 DEF InstallNext, MainAt, MainEnds, Collect
    <3>1. /\ disk \subseteq disk' /\ errors \subseteq errors' /\ errors' \subseteq Crate
          /\ disk' \subseteq Fetches /\ disk' \subseteq Crate /\ partial' \subseteq Crate
      BY <2>1, <3>0, <1>t, <1>c DEF TypeOK, Fetches
    <3>apart. /\ disk' \cap partial' = {} /\ partial' \subseteq errors'
              /\ opts.continue_on_failure \/ partial' = {}
      <4>1. next \notin disk \cup partial
        BY <2>1, <1>c
      <4>. QED BY <2>1, <3>0, <4>1
    <3>passed. \A i \in disk' \cup partial' : i < next'
      <4>1. \A i \in disk \cup partial : i < next + 1
        BY <2>1, <1>t, <1>c DEF TypeOK
      <4>2. disk' \cup partial' \subseteq disk \cup partial \cup {next}
        BY <3>0
      <4>. QED BY <2>1, <3>0, <4>1, <4>2, <1>c
    <3>2. TypeOK'
      BY <2>1, <3>0, <3>1, <1>t, <1>c DEF TypeOK
    <3>3. ASSUME NEW j \in Crate, j < next' PROVE InstalledOk(j)'
      <4>1. CASE j < next
        <5>1. InstalledOk(j)
          BY <4>1, <2>1, <1>t DEF PhaseInv
        <5>. QED BY <5>1, <2>1, <3>0, <3>1 DEF InstalledOk
      <4>2. CASE j = next
        BY <4>2, <2>1, <3>0, Zenon DEF InstalledOk, Fetches
      <4>. QED BY <3>3, <4>1, <4>2, <2>1, <3>0, <1>c
    <3>4. \A j \in Crate : JoinedOk(j)'
      BY <2>1, <3>0, <3>1 DEF JoinedOk
    <3>5. Fetches' = Fetches /\ NoBuilds' /\ exit' \in {"none", "abort"}
      BY <2>1, <3>0, <1>t DEF Fetches, NoBuilds, PhaseInv
    <3>6. manifests' <=> opts'.track_installs
      BY <2>1, <3>0, <1>t DEF PhaseInv
    <3>7. PhaseInv'
      BY <2>1, <3>0, <3>1, <3>3, <3>4, <3>5, <3>6, <3>apart, <3>passed DEF PhaseInv
    <3>. QED BY <3>0, <3>2, <3>7 DEF IInv
  <2>. QED BY <1>9, <2>2, <2>3 DEF InstallNext
<1>10. CASE UpdateManifest
  <2>1. /\ main = "install" /\ next = N + 1 /\ \A i \in Crate : JoinedOk(i) /\ InstalledOk(i)
        /\ disk \subseteq Fetches /\ NoBuilds /\ recorded = {} /\ updateFailed = FALSE
        /\ disk \cap partial = {} /\ partial \subseteq errors
        /\ opts.continue_on_failure \/ partial = {}
        /\ UNCHANGED <<opts, answer, disk, partial, errors, cancelled>>
    BY <1>10, <1>t, <1>c DEF UpdateManifest, TypeOK, PhaseInv
  <2>2. CASE MainEnds("error") /\ ~opts.continue_on_failure /\ UNCHANGED <<next, recorded, updateFailed>>
    <3>1. exit \in {"none", "abort"}
      BY <2>1, <1>t DEF PhaseInv
    <3>2. /\ TypeOK' /\ PhaseInv' /\ BuildsUnlocked' /\ NoOrphans' /\ main' = "ended"
          /\ \A i \in Crate : /\ task'[i] = IF task[i] = "running" THEN "aborted" ELSE task[i]
                              /\ build'[i] = IF build[i] \in {"spawned", "cargo"} THEN "aborted" ELSE build[i]
          /\ exit' \in {"error", "abort"}
      BY <2>1, <2>2, <3>1, <1>t, EndLemma DEF TypeOK
    <3>3. NothingOnFailedResolution'
      BY <2>1, <3>2, JoinedLemma
    <3>4. build' = [i \in Crate |-> "none"]
      BY <2>1, <3>2 DEF NoBuilds, TypeOK
    <3>5. NoCrateForgotten' /\ TrackedOrReported'
      BY <2>1, <2>2, <3>2, <3>4 DEF NoCrateForgotten, TrackedOrReported
    <3>. QED BY <3>2, <3>3, <3>5 DEF IInv, Good
  <2>3. CASE MainAt("spawn", 1)
    <3>0. /\ main' = "spawn" /\ next' = 1 /\ UNCHANGED <<exit, task, build>> /\ manifests' = FALSE
          /\ \/ recorded' = (IF manifests THEN disk ELSE {}) /\ UNCHANGED updateFailed
             \/ updateFailed' = TRUE /\ opts.continue_on_failure /\ UNCHANGED recorded
      BY <1>10, <2>3 DEF UpdateManifest, MainAt, MainEnds
    <3>1. recorded' \subseteq Crate /\ updateFailed' \in BOOLEAN /\ manifests' \in BOOLEAN
      BY <3>0, <1>t DEF TypeOK
    <3>2. TypeOK'
      BY <2>1, <3>0, <3>1, <1>t, <1>c DEF TypeOK, Phases
    <3>3. /\ opts.track_installs => recorded' = disk \/ updateFailed'
          /\ recorded' \subseteq disk /\ (updateFailed' => opts.continue_on_failure)
      BY <2>1, <3>0, <1>t DEF PhaseInv
    <3>4. \A j \in Crate : JoinedOk(j)' /\ InstalledOk(j)'
      BY <2>1, <3>0 DEF JoinedOk, InstalledOk
    <3>5. Fetches' = Fetches /\ NoBuilds' /\ exit' \in {"none", "abort"}
      BY <2>1, <3>0, <1>t DEF Fetches, NoBuilds, PhaseInv
    <3>6. PhaseInv'
      BY <2>1, <3>0, <3>3, <3>4, <3>5 DEF PhaseInv
    <3>. QED BY <3>0, <3>2, <3>6 DEF IInv
  <2>. QED BY <1>10, <2>2, <2>3 DEF UpdateManifest
<1>11. CASE SpawnBuilds
  <2>1. /\ main = "spawn" /\ main' = "join_builds" /\ next = 1
        /\ build' = [i \in Crate |-> IF i \in Sources THEN "spawned" ELSE "none"]
        /\ UNCHANGED <<opts, task, next, answer, manifests, disk, partial, recorded, errors,
                       updateFailed, cancelled, exit>>
    BY <1>11, <1>t DEF SpawnBuilds, PhaseInv
  <2>2. build' \in [Crate -> BuildState] /\ main' \in Phases
    BY <2>1 DEF BuildState, Phases, AwaitPoints
  <2>3. TypeOK'
    BY <2>1, <2>2, <1>t DEF TypeOK
  <2>4. \A i \in Crate : (build'[i] = "none" <=> task[i] # "source") /\ ~(i < next)
    BY <2>1, <1>c DEF Sources
  <2>5. PhaseInv'
    BY <2>1, <2>4, <1>t DEF PhaseInv, JoinedOk, InstalledOk, Fetches
  <2>. QED BY <2>1, <2>3, <2>5 DEF IInv
<1>12. CASE JoinBuild
  <2>1. /\ main = "join_builds" /\ next \in 1..N /\ \A i \in Crate : JoinedOk(i) /\ InstalledOk(i)
        /\ manifests = FALSE /\ disk \subseteq Fetches
        /\ opts.track_installs => recorded = disk \/ updateFailed
        /\ disk \cap partial = {} /\ partial \subseteq errors
        /\ opts.continue_on_failure \/ partial = {}
        /\ recorded \subseteq disk /\ (updateFailed => opts.continue_on_failure)
        /\ UNCHANGED <<opts, answer, disk, partial, recorded, updateFailed, cancelled>>
    BY <1>12, <1>t, <1>c DEF JoinBuild, TypeOK, PhaseInv
  <2>2. CASE MainEnds("error") /\ ~opts.continue_on_failure /\ UNCHANGED <<next, errors>>
    <3>1. exit \in {"none", "abort"}
      BY <2>1, <1>t DEF PhaseInv
    <3>2. /\ TypeOK' /\ PhaseInv' /\ BuildsUnlocked' /\ NoOrphans' /\ main' = "ended"
          /\ \A i \in Crate : task'[i] = IF task[i] = "running" THEN "aborted" ELSE task[i]
          /\ exit' \in {"error", "abort"}
      BY <2>1, <2>2, <3>1, <1>t, EndLemma DEF TypeOK
    <3>3. NothingOnFailedResolution'
      BY <2>1, <3>2, JoinedLemma
    <3>4. Accounted
      BY <2>1, <1>t, AccountedLemma
    <3>5. NoCrateForgotten' /\ TrackedOrReported'
      BY <2>1, <2>2, <3>2, <3>4, TrackedEnd DEF NoCrateForgotten
    <3>. QED BY <3>2, <3>3, <3>5 DEF IInv, Good
  <2>3. CASE MainAt("join_builds", next + 1)
    <3>0. /\ main' = "join_builds" /\ next' = next + 1 /\ UNCHANGED <<exit, task, build, manifests>>
          /\ build[next] \in {"none", "built", "failed"}
          /\ \/ build[next] # "failed" /\ UNCHANGED errors
             \/ errors' = errors \cup {next}
      BY <1>12, <2>3 DEF JoinBuild, MainAt, MainEnds, Collect
    <3>1. errors \subseteq errors' /\ errors' \subseteq Crate
      BY <2>1, <3>0, <1>t, <1>c DEF TypeOK
    <3>2. TypeOK'
      BY <2>1, <3>0, <3>1, <1>t, <1>c DEF TypeOK
    <3>3. ASSUME NEW j \in Crate, j < next' PROVE BuiltOk(j)'
      <4>1. CASE j < next
        <5>1. BuiltOk(j)
          BY <4>1, <2>1, <1>t DEF PhaseInv
        <5>. QED BY <5>1, <3>0, <3>1 DEF BuiltOk
      <4>2. CASE j = next
        BY <4>2, <3>0, Zenon DEF BuiltOk
      <4>. QED BY <3>3, <4>1, <4>2, <2>1, <3>0, <1>c
    <3>4. \A j \in Crate : JoinedOk(j)' /\ InstalledOk(j)'
      BY <2>1, <3>0, <3>1 DEF JoinedOk, InstalledOk
    <3>5. /\ Fetches' = Fetches /\ exit' \in {"none", "abort"}
          /\ \A i \in Crate : build'[i] = "none" <=> task'[i] # "source"
      BY <2>1, <3>0, <1>t DEF Fetches, PhaseInv
    <3>6. PhaseInv'
      BY <2>1, <3>0, <3>3, <3>4, <3>5 DEF PhaseInv
    <3>. QED BY <3>0, <3>2, <3>6 DEF IInv
  <2>. QED BY <1>12, <2>2, <2>3 DEF JoinBuild
<1>13. CASE Finish
  <2>1. /\ main = "join_builds" /\ next = N + 1
        /\ \A i \in Crate : JoinedOk(i) /\ InstalledOk(i) /\ BuiltOk(i)
        /\ \A i \in Crate : build[i] = "none" <=> task[i] # "source"
        /\ opts.track_installs => recorded = disk \/ updateFailed
        /\ MainEnds(Verdict(errors, updateFailed)) /\ exit \in {"none", "abort"}
        /\ UNCHANGED <<opts, next, answer, disk, partial, recorded, errors, updateFailed, cancelled>>
    BY <1>13, <1>t, <1>c DEF Finish, PhaseInv
  <2>acc. Accounted
    BY <2>1, <1>t, AccountedLemma
  <2>2. /\ TypeOK' /\ PhaseInv' /\ BuildsUnlocked' /\ NoOrphans' /\ main' = "ended"
        /\ \A i \in Crate : /\ task'[i] = IF task[i] = "running" THEN "aborted" ELSE task[i]
                            /\ build'[i] = IF build[i] \in {"spawned", "cargo"} THEN "aborted" ELSE build[i]
        /\ exit' \in {Verdict(errors, updateFailed), "abort"}
    BY <2>1, <1>t, EndLemma DEF Verdict, TypeOK
  <2>3. NothingOnFailedResolution'
    BY <2>1, <2>2, JoinedLemma
  <2>4. exit' = "ok" => errors = {} /\ ~updateFailed
    BY <2>2 DEF Verdict
  <2>5. TrackedOrReported'
    BY <2>1, <2>2, <2>4, <2>acc, TrackedEnd
  <2>6. ASSUME NEW i \in Crate, i \notin errors
        PROVE  \/ task'[i] = "current"
               \/ task'[i] = "fetch" /\ (opts.dry_run \/ i \in disk)
               \/ task'[i] = "source" /\ build'[i] = "built"
    BY <2>1, <2>2, <2>6 DEF JoinedOk, InstalledOk, BuiltOk
  <2>7. ASSUME NEW i \in Crate, i \in disk, exit' = "ok", opts.track_installs PROVE i \in recorded
    BY <2>1, <2>4, <2>7
  <2>8. NoCrateForgotten'
    BY <2>1, <2>4, <2>6, <2>7 DEF NoCrateForgotten, Fetches, Sources
  <2>. QED BY <2>2, <2>3, <2>5, <2>8 DEF IInv, Good
<1>14. CASE MainDropped
  <2>1. /\ main \in AwaitPoints /\ MainEnds("abort") /\ exit \in {"none", "abort"}
        /\ UNCHANGED <<opts, next, answer, disk, partial, recorded, errors, updateFailed, cancelled>>
    BY <1>14, <1>t DEF MainDropped, PhaseInv, AwaitPoints
  <2>2. /\ TypeOK' /\ PhaseInv' /\ BuildsUnlocked' /\ NoOrphans' /\ main' = "ended"
        /\ \A i \in Crate : /\ task'[i] = IF task[i] = "running" THEN "aborted" ELSE task[i]
                            /\ build'[i] = IF build[i] \in {"spawned", "cargo"} THEN "aborted" ELSE build[i]
        /\ exit' = "abort"
    BY <2>1, <1>t, EndLemma DEF TypeOK
  <2>3. NothingOnFailedResolution'
    <3>1. CASE main = "join" \/ main = "confirm"
      <4>1. disk = {} /\ partial = {} /\ recorded = {} /\ NoBuilds
        BY <3>1, <1>t DEF PhaseInv
      <4>. QED BY <4>1, <2>1, <2>2 DEF NothingOnFailedResolution, NoBuilds, Cargo
    <3>2. CASE main = "join_builds"
      BY <3>2, <2>1, <2>2, <1>t, JoinedLemma DEF PhaseInv
    <3>. QED BY <3>1, <3>2, <2>1 DEF AwaitPoints
  <2>4. Accounted
    BY <2>1, <1>t, AccountedLemma DEF AwaitPoints
  <2>5. NoCrateForgotten' /\ TrackedOrReported'
    BY <2>1, <2>2, <2>4, TrackedEnd DEF NoCrateForgotten
  <2>. QED BY <2>2, <2>3, <2>5 DEF IInv, Good
<1>15. CASE UNCHANGED vars
  <2>1. TypeOK'
    BY <1>15, <1>t DEF vars, TypeOK
  <2>2. PhaseInv'
    BY <1>15, <1>t DEF vars, PhaseInv, JoinedOk, InstalledOk, BuiltOk, NoBuilds, Fetches
  <2>3. main' = "ended" => Good'
    BY <1>15 DEF vars, IInv, Good, NothingOnFailedResolution, BuildsUnlocked, NoCrateForgotten,
       TrackedOrReported, NoOrphans, Cargo, Fetches, Sources
  <2>. QED BY <2>1, <2>2, <2>3 DEF IInv
<1>. QED
  BY <1>1, <1>2, <1>3, <1>4, <1>5, <1>6, <1>7, <1>8, <1>9, <1>10, <1>11, <1>12, <1>13, <1>14, <1>15
  DEF Next, MainStep, TaskStep, Terminated

LEMMA Invariance == Spec => [](TypeOK /\ Good)
<1>1. IInv => TypeOK /\ Good
  BY GoodWhileRunning DEF IInv
<1>. QED BY InitIInv, NextIInv, <1>1, PTL DEF Spec

-----------------------------------------------------------------------------
(* Of any number of crates, each is done or has its error collected when a
   session has succeeded, or has gone on after failures to its end. *)
THEOREM NoneForgotten == Spec => []NoCrateForgotten
<1>1. Good => NoCrateForgotten
  BY DEF Good
<1>. QED BY Invariance, <1>1, PTL

(* A fail-fast session installs, records and builds nothing once the resolution
   of a crate has failed. *)
THEOREM FailFast == Spec => []NothingOnFailedResolution
<1>1. Good => NothingOnFailedResolution
  BY DEF Good
<1>. QED BY Invariance, <1>1, PTL

(* cargo install never runs into the lock of the session that has started it. *)
THEOREM LocksReleased == Spec => []BuildsUnlocked
<1>1. Good => BuildsUnlocked
  BY DEF Good
<1>. QED BY Invariance, <1>1, PTL

(* Only crates that are all in place are recorded, and files without a record
   belong to a crate whose own error is collected, or to a session whose manifest
   update has failed or that a fail-fast error has stopped: never to one a signal
   has stopped between the two, and never to one that reports success. *)
THEOREM Tracked == Spec => []TrackedOrReported
<1>1. Good => TrackedOrReported
  BY DEF Good
<1>. QED BY Invariance, <1>1, PTL

(* No task and no cargo process outlives the session. *)
THEOREM NothingLeftRunning == Spec => []NoOrphans
<1>1. Good => NoOrphans
  BY DEF Good
<1>. QED BY Invariance, <1>1, PTL

(* Every variable of the session keeps its type. *)
THEOREM TypeCorrect == Spec => []TypeOK
BY Invariance, PTL
=============================================================================
