# A TLA+ verification of cargo-binstall

`cargo binstall` installs Rust programs from prebuilt packages: it resolves each crate of its command line to
a package (or to a build from source), asks for confirmation, puts the binaries into cargo's `bin` directory
and records what it has done in the files cargo itself uses. This directory holds TLA+ models of the parts of
the program where order, concurrency and failure decide whether the result is right, the configurations that
model-check them with TLC, and proofs that TLAPS checks. Paths below are relative to the repository.

    tlc -workers 2 -config ManifestStore.cfg MCManifestStore     model-check one run
    tlapm ManifestStoreProofs.tla                                check the proofs

## 1. The system

| Component | Source | State it keeps | Operations | What makes it right |
|---|---|---|---|---|
| Installation records | `crates/binstalk-manifests`, `crates/fs-lock` | `.crates.toml` (cargo's), `binstall/crates-v1.json` (own), an OS file lock on each | `open_exclusive`, `update`, drop | what a session decides on stays true until it has written; one request is one edit of the list; the JSON file never runs ahead of the TOML file |
| Install session | `crates/bin/src/entry.rs`, `signal.rs`, `ui.rs`, `bin_util.rs`, `binstalk/src/ops/resolve/resolution.rs` | tasks, manifests in hand, errors, cargo processes | resolve, confirm, install, update, build, signal | nothing before consent; success means everything was done; nothing is left untracked or running |
| Probe resolver | `crates/binstalk-fetchers/src/futures_resolver.rs` | a channel of one, an abort watch | `push`, `resolve` | the first package found is returned |
| Throttling HTTP client | `crates/binstalk-downloader/src/remote*` | requests left in the period, deadlines per host | `call_inner`, `send_request`, HEAD/GET fallback | never called while limited; rate bounded; deadlines kept; requests end |
| Streaming extraction | `crates/binstalk-downloader/src/{utils,download}*` | a bounded channel, the digest, a blocking thread | `extract_with_blocking_task`, `and_extract` | a truncated body is never a success, the whole body is digested, nobody hangs |
| GitHub API client | `crates/binstalk-git-repo-api`, `binstalk-fetchers/src/common.rs` | one cell per release, a rate-limit deadline, a token flag | `has_release_artifact`, `get_repo_info`, `download_artifact` | one listing per release; failures and aborted tasks hold nobody up |
| Resolution of a crate | `crates/binstalk/src/ops/resolve.rs` | list of fetchers, temporary directories | `resolve_inner`, `download_extract_and_verify` | the first usable package in order; signatures respected |
| Fetchers | `crates/binstalk-fetchers/src/{gh_crate_meta,quickinstall,signing}.rs` | the resolved URL, the verifier, a status | `find`, `fetch_and_extract`, `report_to_upstream` | policy on signatures |
| Atomic installation | `crates/atomic-file-install`, `crates/binstalk-bins` | files and links in the install path | `atomic_install`, `atomic_symlink_file`, the noclobber forms | a destination is always a whole file, old or new |
| Settings | `crates/bin/src/{settings,initialise}.rs` | a TOML file, an OS file lock on it | load, create, ask, save | what the user has set and answered stays; no report without consent |
| Registry configuration and credentials | `crates/binstalk-manifests/src/cargo_{config,credentials}.rs`, `crates/bin/src/registry_auth.rs`, `entry.rs` | configuration files, the merged configuration | `load_from_path`, `get_registry`, `resolve_registry_auth` | each setting comes from the file that counts most; loading ends |
| Registries | `crates/binstalk-registry` | a cell with the clone or the configuration of the registry | `fetch_crate_matched` | the greatest version that can be had; one task's failure or abort is not another's |
| Lazy GitHub client | `crates/binstalk/src/helpers/lazy_gh_api_client.rs`, `crates/bin/src/{gh_token,git_credentials}.rs` | a cell, the handle of the search for a token | `new`, `get`, `gh_token::get` | every resolution uses the token that was found |
| Target detection | `crates/detect-targets` | a cell that is set once, commands that run | `detect_targets`, `get_desired_targets`, `get` | the targets this machine can run, in the documented order, whatever ends first |
| DNS, arguments, logging, data types | several | none that is shared and changes | | not modelled, see section 7 |

How they interact. `initialise` loads cargo's configuration and the settings, asks for consent to telemetry if nobody has answered yet,
saves the answer, and opens the records (taking two locks). `entry::install_crates` finds the registry and the token for it
in the configuration, spawns one resolution task per crate, joins them in the order of the command line, asks the user in a blocking thread, installs, updates the
records, drops the locks and only then starts `cargo install` for the crates without a package, because cargo
takes the lock of `.crates.toml` itself. A resolution task waits for the targets and the GitHub client all tasks share, and goes through its fetchers one after the other; a
fetcher sends many probes at once and takes the first package found. All tasks share one HTTP client, one
GitHub client and one registry. A download runs through a verifier into a channel whose other end is a blocking thread.

What is hard here: two sessions, and cargo, on the same files; a death between two writes; a signal at any await;
errors that must survive several phases with `--continue-on-failure`; results that arrive in any order; locks held
across awaits; initializers that fail or are dropped while others wait; a channel whose reader or writer may go
first. The `hazards` of `PROJECT.json` list these at their lines with the properties that would catch them.

## 2. Modules

| Module | Models | Checked by | Proved |
|---|---|---|---|
| `InstalledSet` | what `.crates.toml` promises: a set of packages edited one request at a time (abstract) | as a property of `manifests` | implemented by `ManifestStore` |
| `ManifestStore` | sessions and cargo on the two record files, step by step, with deaths | `manifests`, `startup` | `ManifestStoreProofs` |
| `InstallSession` | one session: tasks, confirmation, installation, builds, signals | `session` | `InstallSessionProofs` |
| `FuturesResolver` | the race of the probes of one fetcher | `find`, `resolver_find` | `FindPackageProofs` |
| `DelayRequest` | throttling, delays asked for by hosts, retries | `delay` | `DownloadProofs` |
| `ExtractStream` | body, verifier, channel, blocking thread | `extract` | `DownloadProofs` |
| `ExtractArchive` | what the thread makes of a binary, a tar and a zip, on the disk and in its record of them; extends `ExtractStream` | `extract` | `DownloadProofs` |
| `GhApiClient` | cells, rate limits and token of the GitHub client and what its two users do | `find` | `FindPackageProofs` |
| `FindPackage` | `GhCrateMeta::find` from its first question to its answer: `GhApiClient` and `FuturesResolver` | `find` | `FindPackageProofs` |
| `DetectTargets` | the questions put to the system and the targets made of the answers | `prepare` | `ResolutionProofs` |
| `LazyGhApiClient` | the client all resolutions share, and the search for its token | `prepare` | `ResolutionProofs` |
| `Preparation` | what resolutions wait for before they build their fetchers: `DetectTargets` and `LazyGhApiClient` | `prepare` | `ResolutionProofs` |
| `ResolveCrate` | the resolution of one crate: fetchers in order, signatures, temporary paths, binaries, reports | `resolve`, `resolve_bins` | `ResolutionProofs` |
| `DirectoryEntries` | the names and entries of the directory of executables | | |
| `InstallDirectory` | what installers promise about that directory (abstract) | as a property of `install` | implemented by `AtomicInstall` |
| `AtomicInstall` | the functions that place files and links, with their fallbacks, failures and kills | `install` | `AtomicInstallProofs` |
| `Settings` | the settings file with concurrent sessions, hand edits and deaths | `startup` | `ManifestStoreProofs` |
| `Startup` | sessions from the settings to the end of their work on the records: `Settings` and `ManifestStore` | `startup` | `ManifestStoreProofs` |
| `RegistryConfig` | loading of cargo's configuration, the registry, its credential provider and token | `registry` | `RegistryProofs` |
| `CrateRegistry` | lookups of several tasks in one sparse or git registry | `registry` | `RegistryProofs` |
| `RegistrySession` | one session: first `RegistryConfig`, then `CrateRegistry` with what it has found | `registry` | `RegistryProofs` |
| `MCManifestStore`, `MCAtomicInstall` | the symmetry of two instances | | |
| `MCRegistrySession`, `MCExtractArchive`, `MCPreparation` | the samples of configuration files, of paths in an archive and of loaders | | |
| `PrefixInduction` | nothing: induction over numbers and functions defined by recursion, for the proofs about folds | | itself |

The modules meet at their interfaces: `InstallSession` takes the outcome of a resolution as an input, which
`ResolveCrate` takes apart, and the placing of the files of a crate (all, some or none of them) and the record update as one step each, which `AtomicInstall` and
`ManifestStore` take apart with other processes around them; `ResolveCrate` takes the outcome of `find` and of a download as
inputs, `FindPackage` and `ExtractArchive` show where they come from; `ExtractStream` takes "the body breaks" as an
input, `DelayRequest` is where requests are turned away. These share no variables and are checked one by one. Five modules compose
or extend others: `Startup` runs `Settings` in front of `ManifestStore` for each session, with the deaths of both; `RegistrySession` hands
the registry and the token `RegistryConfig` has found over to the tasks of `CrateRegistry`; in `FindPackage` the probes that
`FuturesResolver` races are tasks of `GhApiClient`; `Preparation` puts resolutions behind `DetectTargets` and
`LazyGhApiClient`, and `ExtractArchive` refines the thread of `ExtractStream`.

### ManifestStore

`pc[p]` follows session `p` through `open_exclusive` (lock JSON, load JSON, lock TOML, load TOML), the part of
`install_crates` that runs with the manifests in hand, and `update` (read back, write TOML, cut it, write JSON, cut
it and let go of its lock, let go of the TOML lock). `own[p]` is what the session has in memory. Each write is two
steps, because the code rewinds, writes and then calls `set_len`: a session that dies in between leaves the tail of
the old content behind the new one. That torn content is kept as `tail`; whoever reads the file next either fails to
parse it or reads the tail as further records, so both are possible. `ForeignEdit` is a cargo process of another
user of the root, `SourceInstall` the one the session itself waits for. `disk` has for each crate the versions of the files in place:
`install_inner` places files and links one by one, `InstallFile` is any but the last of them and `InstallFetch` the last, so a death or a failure
in between (`InstallFails`) leaves files of two versions, or of one that is not recorded. `begun` and `placed` are the crates a session has a file of,
or all files of, in place. `untracked` is a history variable: crates a session has placed a file of and will never record. `Plain` sessions (no `--force`, no version requirement) do not fetch what
is installed already; `FailFast` sessions stop at the first failed installation.

### InstallSession

`opts` is any combination of `dry_run`, `no_confirm`, `continue_on_failure` and `track_installs`. The main task has the
phases of `install_crates`; a signal may arrive at any time and takes effect where the code awaits
(`AwaitPoints`), never inside `block_in_place`. A signal during the installation therefore lets it complete, records
included, and the session is still reported as cancelled. An installation that fails may have placed some files of its crate (`partial`), also
where the session goes on. The confirmation thread cannot be interrupted; the session ends
without it. `NoOrphans`, that nothing it has started survives it, is part of `SessionEnds` and a theorem.

### FuturesResolver

Each probe ends with a package, with nothing or with an error; a package or an error is handed to a channel of one with
`try_send`, which drops it if the channel is full. `resolve` takes results until one is a package. `first`, the package found
first, is a history variable. The one that waits may itself be aborted, which closes the channel (`Abandoned`).

### DelayRequest

Time is kept as ticks still to go. `guard` is the lock of `Inner`, held from `ready` to `call`. One tick stands for the
unit in which delays are told apart; `Later` ages a deadline to `Past`. A period that is extended by a fifth grows by one
tick. A HEAD that is refused is asked again as a GET with all its retries (`FallBack`), also one that has used up its own, if
its last answer is such a refusal (a 403 that names a delay); one whose last try was answered otherwise, or timed out, is not. Worth knowing, and visible in the model: each request that waits for a host halves the rate once more and nothing
ever raises it again.

### ExtractStream

The body is a sequence of `N` chunks, the archive needs the first `need` of them, and the body breaks at pull `cut`
(0: never). Dropping the async side closes the channel, which the thread takes for the end of its input;
only the async side knows whether the body was whole.

### ExtractArchive

`tree` is what is on the disk, `rec` the `ExtractedFiles` of the code; they are kept apart because the program decides later which binaries
a package has by looking at the record alone. `format` says what the thread does with its chunks: a chunk of a tar may complete an entry (`TarEntry`),
directories are put off to the end (`delayed`, `UnpackDir`), a zip is unpacked when its body is whole (`ZipEntry`). An entry in the way of
another is replaced, or ends the extraction, as the calls of the libraries do it. `dotted` archives begin every path with `./`: files are
recorded under the normalised path, directories as they stand. A zip may hold links, and what comes after goes through them as the host does it: `to` says
where a link leads, `Follow` follows links, `create_dir_all` accepts a link to a directory (`Blocked`, `CreateDirAll`), and `File::create` opens or makes
what a link leads to (`ZipFile`). A link that points upwards is recorded and not made (`skipped`). `through` is a history variable: something has been put in place
through a link, so that it lies elsewhere than under the path it is recorded under. Then `RecordsMatch` asks no more than that everything recorded as a file is found under its path.

### GhApiClient

One cell per release and one for `Data::repo_info`; `holder` is the task inside the initializer. What happens between two
awaits takes no time (`InPoll`), but other threads may act in the middle: a task reads an old deadline, another stores
a new one, and the first then stores the old one again (`Store`). The pages of a GraphQL listing are one request. `since`
and `at0` are history variables.

### FindPackage

`Find` is the task of `find()`: it asks for the repository, then `Launch` starts a probe for each URL, and `Resolve` is the
`resolve()` it ends with. A step of a probe is a step of its task in the client (`ProbeStep`), and the step that ends the task hands its answer
to the channel. Each poll of a probe looks first whether the channel is closed, so a probe never moves on after that (`rx = "waiting"` in the
guard), it is dropped at its next await (`ProbeDropped`), and a listing it was making is dropped with it.
Tasks of QuickInstall ask for the same release beside it. The time limit of a `find` may abort it at any await.

### DetectTargets, LazyGhApiClient, Preparation

`probe` has a question for each process `detect_targets` runs: a loader of glibc, or `arch` for an architecture. All are started at once and joined in
order (`Settled`): on Linux up to the first that is of a glibc, on macOS to the end. `Loaders`, the paths tried on Linux, is a constant. `ListOf`
concatenates the lists of the three systems as the code chains its iterators, with the repetitions this produces. `host` is what `rustc` says, or the guess if it cannot be run.
In `LazyGhApiClient`, `holder` is the resolution inside the initializer of the cell, `handle` where the handle of the search is: kept,
with the one who awaits it, or gone with one who was dropped. In the last case, the next one makes a client without a token, which can only
happen in a session that is ending (`SharedToken`). `Preparation` adds the resolutions (`stage`), the signal and processes that hang
(`hangs`): nothing in this part of the program has a time limit.

### ResolveCrate

`handles` is the list `resolve_inner` builds (strategies outermost, then targets, once more for a binary with a name of its own),
`h` the fetcher at hand, `at` what is done with it. `find` may find, not find, fail or run out of time; the task of a `find` out of
time may still finish what it is doing (`TimedOut`). `found` is the format and the verifier the fetcher has settled on; the two
fetchers get their signature at different moments. `dirs` keeps what earlier fetchers have left at each temporary path. `status`
is what QuickInstall will report, `reported` what it has reported; `passed`, a history variable, has the verifier each of its tarballs has passed once extracted.

### AtomicInstall

`pc[p]` is where installer `p` is with its name number `pos[p]`: files first, then links. Each fallback of `atomic_install`
(rename, replace, copy to a temporary file and persist) is a step of its own, and each may fail or be the last. `package` is what
is left in the temporary directory, `moving` the case in which a link cannot be made and the file with a version
takes its place. `os` decides which calls exist and what they do when the destination is there.

### Settings and Startup

`at[p]` is where session `p` is on its way through `settings::load`, the question and `Settings::save`; `mem[p]` is what it has
loaded. Absence of the file is a value of `file`. The code looks whether the file is there before it opens or creates it (`CheckExists`),
so another session may have created it in between (`Create`). `owner` is the exclusive lock of `save`; reading is one step, as the
shared lock is held for all of it. `save` reads the file again under its lock, replaces `telemetry` and writes the rest as it is there
now (`Saved`). As in `ManifestStore`, writing and cutting are two steps, and a death in between leaves a `tail`, which makes the text no
TOML any more or only adds blank and comments. `rest` counts the edits of the user the file has in it and `agreed` is a history variable.
In `Startup` a session that is `ready` goes on with the steps of `ManifestStore`.

### RegistryConfig

`stack` and `visited` are those of `iterate_reverse_preorder`; a file that is met twice is refused as the code does, whether it is a
circle or not. `config` is what has been merged so far. `UseName` looks up `registry.default` by taking the whole table out of the
configuration, as the code does. `Replaced` is one step along `replace-with`, and `GetRegistry` takes as many as there are registries; if that does not
lead to an end, the code's recursion does not either, and the session is in phase `endless`. `Supported` goes from alias to alias and keeps those it has
seen (`Link`). `ProviderAsRead` compares the provider found with a
reading of all files at once (`Layers`, `LastFirst`, `FirstSet`), which knows nothing of stack, merging and aliases seen. When registry and token have been
found, `Drop` and `HandOver` forget the configuration, so that lookups do not multiply with it.

### CrateRegistry and RegistrySession

A task of a sparse registry goes from the cell of the registry's configuration to the index of its crate and the archive; one of a git registry
waits for its blocking thread (`thread`), which goes into the cell with the clone. `holder` is the task inside the initializer. Dropping a
task drops the initializer it is in; a thread runs on until its clone is cancelled (`cancel_on_drop`). `index` is in the order of publication
and changes while lookups run; a clone is a copy of it. `offered` (the best versions there were while a lookup could have looked) and `faulted`
(tasks that have met an error themselves) are history variables.

## 3. Runs

| Run | Instance | Shows |
|---|---|---|
| `manifests` | 2 sessions (one plain, one fail-fast), 2 crates, 2 versions, 1 death, 1 foreign edit | `SnapshotFresh`, `TornByDeathOnly`, `DiskMatchesToml`, `JsonListed`, `JsonNeverAhead`, and that the store implements `InstalledSet` |
| `startup` | 2 sessions (one plain with its settings in the usual place, one fail-fast with `--settings`), 1 crate, 1 version, 1 death, 1 edit of the settings | `SettingsKept`, `ReportsConsented`, and `SessionsEnd`: nobody waits for one of the three locks, or for cargo, for ever |
| `session` | 3 crates | `NothingOnFailedResolution`; `BuildsUnlocked`; `NoCrateForgotten`: success means every crate was done, and a session that goes on after failures has an error for each crate that was not; `TrackedOrReported`; `SessionEnds`: it ends if its tasks and the user do, and after a signal, with all it has started, when nobody else moves |
| `resolver_find` | 2 probes, a counterexample | see section 6 |
| `delay` | 2 requests, 2 hosts, 2 requests per period, 2 tries | no panic, sliding bound, deadlines kept, requests end |
| `extract` | 4 chunks, channel of 2, 3 entries, 3 paths (a directory and two files, one in it), 4 links followed | no truncated success (`NothingTruncated`), the digest is that of the body and of all of it on success (`DigestFaithful`), the record is what is on the disk, and what is recorded is found also through links (`RecordsMatch`), thread and task end (`ExtractionEnds`) |
| `find` | 2 probes of a `find`, 1 quickinstall task, 1 release | `find` returns the package found first, and none only if there is none or a probe has failed (`FindAnswers`); one listing (`OneListing`), present artifacts found (`PresentIsFound`), deadline not extended (`NotExtended`); a package that was found ends `find` and its probes though every server is silent from then on, and all tasks end where servers answer and limits end (`TasksEnd`) |
| `prepare` | 2 resolutions, 3 systems, 3 paths of the loader, 1 process that hangs | `PreferredTargets`: the list is what the machine can run, in the documented order; `SharedToken`; `PreparationEnds` |
| `resolve` | 2 targets, packages of 1 or 2 binaries, 1 of them optional, 1 disabled pair | `InOrder`, `Trusted`, `BinsAsAsked`, `ReportsMatch` |
| `resolve_bins` | the same, a counterexample | see section 6 |
| `install` | 2 installers, 2 binaries, 2 versions, both systems | `LinkedVersionWhole`, and that installation implements `InstallDirectory` (`EntriesReplacedWhole`) |
| `registry` | 3 configuration files, 2 registries, 2 aliases, 2 tasks, 2 versions, 1 edit of the index, 1 abort | `ProviderAsRead`; `ManifestOfBest`; `FailsForItself`; `LookupsEnd` |

Why the bounds are enough. The record files are protected by two locks, so interference is between one
session inside and one actor outside: two sessions and a foreign cargo are all the parties there are to a pairwise conflict, and two
crates are needed to tell "this crate" from "the others" in the edits. One death produces each torn state; a second one could
only tear a file that is torn already. Three crates give a session one in each class (package, source, up to date) or two
failures and a success. Two probes are one in the channel and one that is late, fails or hangs; two and a task of QuickInstall are the one inside the initializer of a
listing, one waiting for it and one that asks later; who wins is proved for any number. The channel of two
can be full, partly full and empty while two chunks are still to come; three entries are a file or a link, one in its way or through it and one that comes after that; with three entries there are at most three links, so four steps tell a chain of them from a circle. Two
resolutions are one inside the initializer of the client and one waiting; three paths of the loader are one before, one at and one after the first of a
glibc; one process that hangs may be any of them (the theorems have any number of resolutions and loaders). Two requests suffice for the
lock between `ready` and `call` (others are alike), two tries for "tried again, then given up". Two targets give
each strategy a preferred and another target, and the two strategies all the orders there are; an optional and a required binary
are the two cases of a missing one. In `startup` the file of the settings may be absent, with defaults or answered at first, and there may be one hand edit and one
death anywhere, so each session can meet each state the other or the user leaves; the records are kept at one crate and one version
because `manifests` varies these and the locks do not depend on them. Three configuration files can include each other in chains, twice, and in
circles, and four samples of what a file sets are enough for two files to disagree on the default, the global providers and an alias, for an alias and a
registry to refer to what another file sets, and for a circle of each; `SettingsAssumption` and
`IncludesAssumption` say what samples may be. Two tasks are one inside the initializer and one waiting for it; one abort hits either of
them; two versions and an edit give an index whose order, yanks and best version change during a lookup. Two installers with two binaries show every mixture of old and new files; a third could only repeat one.

Symmetry is used over crates (`MCManifestStore`) and over installers (`MCAtomicInstall`), and only where no liveness is checked.
Type invariants are stated for the proofs and established by them (section 5); no run spends a property on one. Runs check for deadlock; where a
system may stop, `Terminated` says when.

## 4. Fairness

A session of `ManifestStore` runs on by itself (weak fairness of its steps); no foreign cargo need run and nobody need die.
Liveness needs the number of foreign edits to be bounded: `flock` promises no order among those who wait.
`InstallSession` assumes only that the runtime runs the main task; `SessionEnds` adds as a premise that tasks and the user
end (`OthersFair`: requests have time limits, cargo ends) for its first part and has none for the second, about a signal. In `ExtractArchive` thread and task are fair, the
server is not; the second part of `ExtractionEnds` has "the server goes on sending" as a premise. In `DelayRequest` time passes and a server
answers in the end (the client sets time limits). In `FindPackage` tasks run on and time passes; a server need not answer
(`AskingServer` is exempt), and where `TasksEnd` needs it, it has `ServersAnswer` as a premise. tokio hands the permit of a cell out in the order it was
asked for, which is strong fairness of `Acquire`. In `Preparation` tasks run on and processes end, those that hang excepted. In `Startup` each session runs on by itself; nobody need die or edit the settings. In
`RegistrySession` the loading of the configuration, the tasks and their threads run on; requests have time limits, but `git` waits for a silent
server as long as it takes, so neither `Cloned` nor `CloneFails` is fair, and `LookupsEnd` excepts tasks that wait for such a clone.

## 5. What is proved

Each `…Proofs` module proves its theorems for every value of the constants of the module it extends, from the named assumptions
there and nothing else. These say that sentinels are not members of the sets they stand outside of and that bounds are numbers of
the right range; TLC evaluates them in the runs.

| Module | Theorem | Property |
|---|---|---|
| `ManifestStoreProofs` | `TypeCorrect`, `Inductive` | `TypeOK`, the inductive invariant |
| | `Freshness`, `Agreement`, `NeverAhead` | `SnapshotFresh`, `JsonListed`, `JsonNeverAhead` (a property of steps) |
| | `Refinement` | `EditsAreAtomic`: the store implements `InstalledSet` |
| | `TornOnlyByDeath`, `DiskAgrees` | `TornByDeathOnly`, `DiskMatchesToml` |
| | `ConsentFirst`, `SettingsStay` (of `Startup`) | `ReportsConsented`, `SettingsKept` (a property of steps) |
| `InstallSessionProofs` | `TypeCorrect`, `NoneForgotten`, `FailFast`, `LocksReleased`, `Tracked`, `NothingLeftRunning` | `TypeOK`, `NoCrateForgotten`, `NothingOnFailedResolution`, `BuildsUnlocked`, `TrackedOrReported`, `NoOrphans` |
| `AtomicInstallProofs` | `Refinement`, `Linked` | `EntriesReplacedWhole`: installation implements `InstallDirectory`; `LinkedVersionWhole` |
| `DownloadProofs` | `TypeCorrect`, `NeverTruncated`, `DigestRight` (of `ExtractStream`) | `TypeOK`, `NothingTruncated`, `DigestFaithful` |
| | `ArchiveStreams`, `ArchivesWhole` (of `ExtractArchive`) | it implements `ExtractStream`, so the same holds of it |
| | `RecordTrue` (of `ExtractArchive`) | `RecordsExact`, the first half of `RecordsMatch` |
| | `ClientTypeCorrect`, `AlwaysReady`, `RateBounded`, `DeadlinesStay` (of `DelayRequest`) | `ClientTypeOK`, `NeverUnready`, `SlidingBound`, `DeadlinesKept` (a property of steps) |
| `FindPackageProofs` | `OneForAll`, `NeverOverlooked`, `DeadlineBounded` (of `GhApiClient`) | `OneListing`, `PresentIsFound`, `NotExtended` |
| | `FirstWins` (of `FuturesResolver`) | `FirstFoundWins` |
| | `Composition`, `AnswersRightly` | the composition implements both of its parts; `FindAnswers` |
| `ResolutionProofs` | `SignaturesRespected`, `BinsRespected`, `ReportsRespected` (of `ResolveCrate`) | `Trusted`, `BinsAsAsked`, `ReportsMatch` |
| | `ResolutionTypes`, `TriedInOrder` (of `ResolveCrate`) | `TypeOK`, `InOrder` |
| | `LazyClient` (of `LazyGhApiClient`), `TokenShared` (of `Preparation`) | `LazyTypeOK` and `OneToken`; `SharedToken` |
| | `TargetsPreferred` (of `Preparation`, about `DetectTargets`) | `PreferredTargets` |
| `RegistryProofs` | `FindIsBest` | the loop over an index finds the greatest version that fits |
| | `BestIsTaken`, `FailuresAreOwn` (of `CrateRegistry`) | `ManifestOfBest`, `FailsForItself` |
| | `SessionLooksUp` | `RegistrySession` implements `CrateRegistry`, so the same holds of it |
| | `ProviderIsRead` (of `RegistrySession`, about `RegistryConfig`) | `ProviderAsRead` |

Few of these properties are inductive as they stand. What each needs, and why it holds:

- `ManifestStore`: `IInv == TypeOK /\ LockOwners /\ \A p : SessionInv(p)`. That a file does not change under a session
  follows from the session owning its lock, so `LockOwners` ties each lock to the places in the code where it is held, and
  `SessionInv` says, per place, how what the session has read relates to the file now (`seen` to the TOML file after loading,
  `fresh` to it while it is rewritten, `mem` to the JSON file). The proof splits on the acting session: `ActorKept` shows its own
  part, action by action; `OthersKept` shows that a session that owns a lock sees no change of the file, because nobody else can
  act on it; `ForeignKept` does the same for cargo. The end of a session (`Die` included) releases both locks and resets its
  memory, so its part holds trivially.
- Torn files: `TornInv` counts the files with a tail that nobody is about to cut off, and compares with `deaths`. A step
  that is no death tears none (`TornStep`), a death one at most, since no session writes both files at once (`TornDeath`).
- `DiskMatchesToml`: `DiskInv` says for each crate that all its files in place are of the one listed version unless a session has begun to place it
  (`CrateInv`). Sessions without the lock leave all of that alone (`DiskUntouched`), one that ends counts as having left what it had begun
  `untracked` (`DiskLeft`).
- `Startup`: `SettingsInv` says that whoever has a consent in the file or in memory has it from somebody who gave it, and that an answer about to be saved is one.
  The steps of the records do not touch it.
- `InstallSession`: the properties speak of the end, so `PhaseInv` says for each phase of the main task what the phases before it
  guarantee: which tasks have been joined without an error that ends the session (`JoinedOk`), what has been placed
  (`InstalledOk`), recorded and built (`BuiltOk`). Each way to end the session is a lemma that turns the phase it leaves into the
  properties.
- `AtomicInstall`: a step of the directory needs the installer's name to be what `InstallDirectory` says (`StepsLemma`, over the
  concatenation of files and links), and `Working` ties `pc` to what the installer holds. `Linked` uses the refinement: a lemma
  about steps of `InstallDirectory` shows that on Unix files that have been placed stay (`FilesStay`).
- `ExtractStream`: `Flow` counts the chunks on their way: those in the files, in the channel and in hand are all that
  have been pulled, as long as both sides are at work; `Seen` says what the verifier has seen, `Ends` when the sending end is open.
- `GhApiClient`: the initializer of a cell has one task and only it fills the cell (`Guarded`); a deadline about to be
  stored was read or set in the same instant (`Deadlines`); a listing of a public repository holds what was there at the start
  (`Listed`).
- `FuturesResolver`: while `resolve` waits and no probe fails, the channel holds the package found first (`FirstIsKept`).
- `FindPackage`: every step maps to a step or a stutter of each part, so the invariants of both hold. `AnswersRightly` adds
  what relates them: where a probe is in the client decides what it has handed to the channel.
- `ExtractArchive`: each step of its thread is one of `ExtractStream` or leaves it alone.
- `LazyGhApiClient`: whoever has the handle is inside the initializer, or it has ended with the token it found; `Preparation`
  adds that a handle is gone only in a session that is ending.
- `DelayRequest`: between `ready` and `call` a request holds the lock and there is a request left (`Locked`), since halving the
  rate leaves at least one. For `SlidingBound`, `Budget` counts twice: what was sent since the period began is no more than what has been used up of
  the limit, and what was sent in the last `Per` ticks is no more than that and one period's worth. A tick takes the oldest place from both
  sums, a period that starts anew turns the first count into the second. `Limits` adds that halving and extending only make it stricter.
- `ResolveCrate`: the verifier between `find` and the fetch is one the policy permits then, after it one it permits for good
  (`Permitted`), and QuickInstall's status says an archive was installed only if its tree is there. For `InOrder`, `HandlesLemma` numbers the
  fetchers by strategy and target before the disabled ones are left out, and `AmongOrder` says that leaving out keeps the order, so the place of a
  fetcher in the list ranks it; `Ordered` says that the loop only moves forward in that list.
- `ExtractArchive`, record: `Matches` ties the record to the tree in both directions. Each name a path has in a directory above it is in the
  record of that directory, and each name recorded leads to something on the disk; that is weaker for directories than for files, because a tar records
  its directories at the end (`delayed`). A record that has a link that was not made is exempt (`skipped`), and so is one with something put in place through
  a link (`through`); `LinksStay` says that links followed are the links in the tree, and `StraightLemma` that a path without a link on it is followed to itself.
- `CrateRegistry`: `Taken` says a version was on offer while its task could have looked, and in a git registry that it is the one of the clone, of
  which there is one (`OneCloner`); `Reasons` has a reason of its own for each failure, for a thread also that its task was aborted. That `find` takes the
  best is a fold over the index: `FindPrefixes` states for each prefix what the loop has in hand after it.
- `RegistryConfig`: while includes are loaded, what has been read (`done`) followed by what the stack leads to is what the includes of `Root` lead to
  (`Gathered`). The reading goes as deep as there are files; for what is on the stack it only has to go as deep as there are files not met (`Depths`),
  because a file that is met again ends the loading. So a stack with such a file on it needs no reading at all (`Doomed`): nothing is ever
  provided from it. `Reads` says that the configuration merged so far has, setting by setting, the first value in the files
  read, and `ReadMore` that merging one file more keeps that. Aliases: the walk that keeps what it has seen ends where the walk without does, since without a
  repetition it is over after as many steps as there are aliases and with one it never ends (`SupportedLemma`).
- `DetectTargets`: a probe is aborted only where a loader has said yes (`DetectInv`). The rest is about lists: `ListConcat` says of a concatenation of two
  lists without common targets which targets it has and which come before which, and `LinuxRight`, `MacRight` and `WindowsRight` apply it along the
  concatenations of each system.

Folds and recursive functions. TLAPS' induction theorems take the predicate as an operator, which its backends cannot
instantiate. `PrefixInduction` states induction with a set instead (the numbers for which something holds; the least number outside
is found by well-founded minimality), and from it that functions defined by recursion on a number exist. With that, the lemmas named
`…Prefixes` show what a fold has computed after each prefix of a sequence, and the theorems above rest on them for sequences of any length.

Only model-checked: all liveness (`SessionsEnd`, `SessionEnds`, `TasksEnd`, `RequestsEnd`, `ExtractionEnds`, `LookupsEnd`,
`PreparationEnds`), because TLAPS proves neither liveness under fairness nor `ENABLED`; the second half of `RecordsMatch`, that what is recorded is found
through chains of links; and the two counterexamples of section 6, which are
behaviours TLC finds. Every other property of a passing run is a theorem, for every value of the constants.

## 6. Findings

- `resolver_find`. A probe that fails puts its error into the channel of one. If another probe finds the package before the error
  is taken out, `try_send` drops the package (`futures_resolver.rs:57`); `resolve` skips the error and returns `None`, and the
  fetcher reports that no package is available. The doc of `Fetcher::find` promises `true` if a package is available.
- `resolve_bins`. With `--bin` on a Windows target, `resolve_bins` (`resolution.rs:107`) looks up `b.exe` among the names of the
  command line, where it is `b`: the crate is recorded without its binaries. The comment above says the filter is there for optional
  binaries that are missing, which `download_extract_and_verify` has left out already.

Seen while reading, and modelled as the code has it:

- A stored rate-limit deadline may be overwritten by an earlier one (`gh_api_client.rs:288`); `get_repo_info` does not store one at all.
- On a rate limit the client warns that it "will fallback to HEAD/GET on the url" (`common.rs:43`); the crate-metadata fetcher sleeps and
  asks the API again instead (`gh_crate_meta.rs:119`).
- A fail-fast session leaves binaries it does not record, and so does a crate that fails half-way in any session (`untracked`).
- What a zip has below a link is recorded under the link and lies where the link leads; `File::create` on a link that leads nowhere makes a file that no record
  names (`through`).
- The two GhCrateMeta of a renamed binary use the same temporary path, though the doc of `fetcher_name` asks for unique ones; a directory
  left by the first makes a package of the second that is a bare file fail (`Taken`).
- Where Windows refuses a symlink, `atomic_symlink_file` (`atomic-file-install/src/lib.rs:158`) installs `b-v1.exe` at `b.exe` with
  `atomic_install`, which renames it (`moving`); the comment above says the fallback is a copy, as the noclobber variant makes one. The name with
  the version is gone afterwards.
- Without `--registry`, `install_crates` takes the `registry` table out of the configuration to read its default (`entry.rs:142`); its
  `global-credential-providers` are then gone when `resolve_registry_auth` asks for them, so they count only with `--registry`. `cargo_config.rs:5` wants
  it "to be compatible with `cargo-install`'s behavior"; cargo counts them in both cases. `ProviderAsRead` states what the code does and says so.
- An include marked optional still fails if its file is missing: `open` makes its path canonical first (`cargo_config.rs:140`).
- A file that two others include is reported as a dead loop (`cargo_config.rs:221`), although there is none.
- `get_registry` does not notice registries that replace each other in a circle (`cargo_config.rs:328`; phase `endless`).
- On a Linux whose libc detection does not know, the postfix of the libc is put behind `musl` (`detect/linux.rs`): `x86_64-unknown-linux-ohos`
  gets `…-linux-muslohos` as its second target, which `TargetTriple::from_str` refuses, and with it every crate (`TargetsKnown`).
- On i686 Windows some targets appear twice, the second time as the fallback of an emulated architecture.
- `gh_token::get` asks `git credential fill` only if `gh` has succeeded with no output (`gh_token.rs:11`): without `gh` git is never asked.
- Detection and the search for the token have no time limit; a command that hangs holds every resolution, until a signal.
- `ExtractedFiles` may name a link that was not made (a link of a zip that points upwards; `skipped`), and has directories of a tar whose paths begin with
  `./` under both forms, as `add_dir` does not normalise them.
- QuickInstall reports a tarball as installed although the binaries were missing from it and it was not chosen; `ReportsMatch` therefore speaks of the
  tarball (fetched, extracted, verified), not of the crate.

Seen while reading, and outside the models:

- `copy_to_tempfile` sets the permissions through the handle of the file it has removed, not on the copy; this matters where a
  reflink does not bring them along.
- A `credentials.toml` that cannot be read also loses a token in the environment (`registry_auth.rs:249`); in the model the token may be
  missing for either reason.
- `strategies` in `binstall.toml` have no effect: the arguments are filled with their defaults before the settings are merged.

## 7. Abstractions and what is not modelled

- File contents are sets of packages and functions from crates to versions, not text; a torn file is its new content plus a
  tail. Version sources are not told apart. Permissions are not modelled.
- URLs, templates, archives, signatures and JSON are values; headers and certificates do not appear.
- Of cargo's configuration only what decides the registry and its credentials is kept; the other settings are merged by the same rules. Relative
  paths, normalisation of registry names and the text of commands and tokens are values or left out. The API of crates.io is compiled for a
  feature and for tests only and is left out; so is the parsing of manifests in archives.
- Two versions of a crate are taken to have the same names of binaries, so that installing one replaces all files of the other; the code leaves what is not
  replaced where it is.
- A panic inside the task that detects the targets is not modelled; whoever waits for the list would wait for ever.
- Path-based helpers of the records that no session calls (`append`, `write_to_path`, `load`) are left out.
- Of target detection the output of each command is yes or no, one architecture of Linux stands for all and the run has three paths of the loader for the 12 to 14
  there are (the theorem has any number); `detect-wasi` is a library of its own that nothing here calls.
- Of an archive, contents and decompression are left out; how much of the body is needed is a choice. Symbolic links of the host's file system
  do not occur, nor links of an archive that lead out of the destination (absolute ones; those with `..` are not made by the code). A path is a sequence of names.
- Not modelled, because they are pure data or adapters to a library: the DNS resolver and TLS set-up, argument parsing, logging, the data types of metadata and
  their templates, the workspace loader, path normalisation and the job server. None of them keeps state that others see
  change, so an action would restate a function; where their results matter (is this a target triple? which binaries does the package name?) they are inputs of the models.

## 8. Plan

Done in this order: the records and the session that uses them, since everything else serves these; what a session shares between its tasks
(HTTP client, GitHub client, extraction, probes); resolution and installation of one crate; settings and registries with
their compositions; what resolutions share before they start (targets, client), `find` as a whole, and what is unpacked from a stream.
Then the proofs, until every safety property and every property of steps that a run checks was a theorem; the last were those about folds and recursive functions
(rate, record of an archive, order of fetchers, index, configuration, targets).
What is left:

1. The cached list of supported targets of QuickInstall, the removal of duplicate crate names against a reference definition, the pages of a
   GraphQL listing.
2. A composition of `InstallSession` with `ManifestStore`, so that what a session reports and what is on disk are related for two sessions with signals.
