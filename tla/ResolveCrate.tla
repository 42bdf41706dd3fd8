---------------------------- MODULE ResolveCrate ----------------------------
(* Resolution of one crate (crates/binstalk/src/ops/resolve.rs): fetchers are
   tried one after the other, in the order of the strategies and the targets,
   until one of them provides the binaries; otherwise the crate is left to
   cargo install.  GhCrateMeta and QuickInstall differ in how they look for a
   package and in when they fetch its signature. *)
EXTENDS Naturals, Sequences, FiniteSets

CONSTANTS
  T,        \* number of desired targets; a smaller number is preferred
  Windows,  \* the targets whose executables have an extension
  Packages, \* what binaries a package may have: a set of sets
  Optional, \* the binaries that require a feature
  MaxDisabled \* bound: pairs of target and strategy disabled by the metadata

ASSUME TAssumption == T \in Nat
ASSUME WindowsAssumption == Windows \subseteq 1..T
ASSUME PackagesAssumption == {} \notin Packages
ASSUME MaxDisabledAssumption == MaxDisabled \in Nat

VARIABLES
  opts,      \* options and manifest of the crate
  at,        \* what resolve_inner is doing: start, find, fetch, verify, over
  handles,   \* the fetchers, in the order they are tried
  h,         \* index of the fetcher at hand
  found,     \* what find() and fetch have stored in it: format and verifier
  archive,   \* the binaries extracted by it
  dirs,      \* what is at each temporary path: absent, tree or file
  passed,    \* history: the verifier that QuickInstall's tarball for a target has passed
  unsupported, \* targets QuickInstall is known not to support
  status,    \* the status of the QuickInstall of each target
  reported,  \* the status reported for it
  result,    \* of resolve
  bin_files  \* the binaries of the resolution

vars == <<opts, at, handles, h, found, archive, dirs, passed, unsupported, status, reported, result, bin_files>>

-----------------------------------------------------------------------------
(* Options *)

Target == 1..T
Meta == "crate-meta-data"
Quick == "quick-install"
Compile == "compile"
Strategy == {Meta, Quick, Compile}
Policy == {"ignore", "if-present", "require"}
Bin == UNION Packages
Status == {"start", "not-found", "found", "attempting-install", "invalid-signature",
           "installed-from-tarball"}

(* The strategies of the command line, without Compile, which comes last.
   Another order than the default one is given by --strategies, which makes
   the metadata be ignored; --disable-strategies only leaves some out.
   bins = {} stands for a command line without --bin. *)
Resolvers == {<<>>, <<Meta>>, <<Quick>>, <<Meta, Quick>>, <<Quick, Meta>>}

(* disabled[0] is what the package disables for every target, the others what
   the overrides of a target add to it. *)
Disabling ==
  {d \in [0..T -> SUBSET Strategy] :
     Cardinality({p \in (0..T) \X Strategy : p[2] \in d[p[1]]}) <= MaxDisabled}

Options ==
  {o \in [resolvers : Resolvers, cargo_install_fallback : BOOLEAN, targets : {0, T},
          disabled : Disabling, signature_policy : Policy, signing : BOOLEAN,
          binaries : Packages, bins : SUBSET Bin, renamed : BOOLEAN] :
     /\ o.renamed => Cardinality(o.binaries) = 1
     /\ o.resolvers = <<Quick, Meta>> => \A t \in 0..T : o.disabled[t] = {}
     /\ o.cargo_install_fallback \/ o.resolvers # <<>>}

Fetcher == [strategy : {Meta, Quick}, target : Target, renamed : BOOLEAN]
BinPaths == Target \X {Meta, Quick}
Nothing == [fmt |-> "none", verifier |-> "none"]
Found == [fmt : {"none", "archive", "bin"}, verifier : {"none", "noop", "minisign"}]

Init ==
  /\ opts \in Options
  /\ at = "start" /\ handles = <<>> /\ h = 1
  /\ found = Nothing /\ archive = {} /\ bin_files = {} /\ result = "none"
  /\ dirs = [p \in BinPaths |-> "absent"]
  /\ passed = [t \in Target |-> "none"]
  /\ unsupported = {}
  /\ status = [t \in Target |-> "start"]
  /\ reported = [t \in Target |-> "none"]

-----------------------------------------------------------------------------
(* The fetchers *)

AFetcher(s, t, r) == [strategy |-> s, target |-> t, renamed |-> r]

(* PkgMeta::merge_overrides *)
Disabled(t) == opts.disabled[0] \cup opts.disabled[t]

Enabled == {f \in Fetcher : f.strategy \notin Disabled(f.target)}

(* Mutant: the targets outermost. *)
ProductByTarget(renamed) ==
  LET m == Len(opts.resolvers) IN
  [k \in 1..(m * opts.targets) |->
     AFetcher(opts.resolvers[((k - 1) % m) + 1], ((k - 1) \div m) + 1, renamed)]

(* resolvers x desired_targets, the strategies outermost. *)
Product(renamed) ==
  LET n == opts.targets IN
  [k \in 1..(Len(opts.resolvers) * n) |->
     AFetcher(opts.resolvers[((k - 1) \div n) + 1], ((k - 1) % n) + 1, renamed)]

(* Those of a sequence that are in a set, in their order. *)
Among(s, S) ==
  LET kept[n \in 0..Len(s)] ==
        IF n = 0 THEN <<>>
        ELSE IF s[n] \in S THEN Append(kept[n - 1], s[n]) ELSE kept[n - 1]
  IN  kept[Len(s)]

(* handles_fn for the package, and once more for GhCrateMeta when its only
   binary has a name of its own. *)
Handles ==
  Among(Product(FALSE), Enabled)
    \o IF opts.renamed
       THEN Among(Product(TRUE), {f \in Enabled : f.strategy = Meta})
       ELSE <<>>

(* bin-{name}-{target}-{fetcher_name} *)
BinPath(f) == <<f.target, f.strategy>>

Current == handles[h]

NextFetcher ==
  /\ at' = "find" /\ h' = h + 1 /\ found' = Nothing /\ archive' = {}

-----------------------------------------------------------------------------
(* resolve_inner up to the loop *)

(* The manifest of the crate cannot be had, a target is not a triple, or there
   is no GitHub client: an error.  The version may be installed already. *)
PrepareEnds ==
  /\ at = "start"
  /\ at' = "over" /\ result' \in {"error", "current"}
  /\ UNCHANGED <<opts, passed, handles, h, found, archive, dirs, unsupported, status, reported, bin_files>>

Prepare ==
  /\ at = "start"
  /\ at' = "find" /\ handles' = Handles
  /\ UNCHANGED <<opts, passed, h, found, archive, dirs, unsupported, status, reported, result, bin_files>>

-----------------------------------------------------------------------------
(* find(), with a time limit *)

Finding(s) == at = "find" /\ h <= Len(handles) /\ Current.strategy = s

FindMeta ==
  /\ Finding(Meta)
  /\ \/ /\ \E fmt \in {"archive", "bin"} : found' = [Nothing EXCEPT !.fmt = fmt]
        /\ at' = "fetch"
        /\ UNCHANGED <<h, archive>>
     \/ NextFetcher \* none found, or an error
  /\ UNCHANGED <<opts, passed, handles, dirs, unsupported, status, reported, result, bin_files>>

(* The list of supported targets cannot be had, or does not have this one. *)
NotSupported ==
  /\ Finding(Quick)
  /\ unsupported' \in {unsupported, unsupported \cup {Current.target}}
  /\ NextFetcher
  /\ UNCHANGED <<opts, passed, handles, dirs, status, reported, result, bin_files>>

(* Mutant: a signature that cannot be downloaded is never an error. *)
VerifiersLenient == IF opts.signature_policy = "ignore" THEN {"noop"} ELSE {"noop", "minisign"}

(* QuickInstall::download_signature: a signature that cannot be downloaded is
   an error only if signatures are required. *)
Verifiers ==
  CASE opts.signature_policy = "ignore"     -> {"noop"}
    [] opts.signature_policy = "if-present" -> {"noop", "minisign"}
    [] opts.signature_policy = "require"    -> {"minisign"}

FindQuick ==
  /\ Finding(Quick)
  /\ \/ /\ status' = [status EXCEPT ![Current.target] = "not-found"]
        /\ NextFetcher
     \/ NextFetcher /\ UNCHANGED status \* an error, also of the signature
     \/ /\ \E v \in Verifiers : found' = [fmt |-> "archive", verifier |-> v]
        /\ status' = [status EXCEPT ![Current.target] = "found"]
        /\ at' = "fetch"
        /\ UNCHANGED <<h, archive>>
  /\ UNCHANGED <<opts, passed, handles, dirs, unsupported, reported, result, bin_files>>

(* The time limit: the task of find() is aborted, which it may notice only
   after what it is just doing. *)
TimedOut ==
  /\ at = "find" /\ h <= Len(handles)
  /\ NextFetcher
  /\ \/ UNCHANGED <<unsupported, status>>
     \/ /\ Current.strategy = Quick
        /\ unsupported' = unsupported \cup {Current.target}
        /\ UNCHANGED status
     \/ /\ Current.strategy = Quick
        /\ \E s \in {"not-found", "found"} : status' = [status EXCEPT ![Current.target] = s]
        /\ UNCHANGED unsupported
  /\ UNCHANGED <<opts, passed, handles, dirs, reported, result, bin_files>>

-----------------------------------------------------------------------------
(* download_extract_and_verify *)

(* GhCrateMeta fetches the signature together with the package; QuickInstall
   has decided on it in find().  "none": the package must not be fetched. *)
Verifier ==
  IF Current.strategy = Quick THEN found.verifier
  ELSE CASE opts.signature_policy = "ignore"                      -> "noop"
         [] opts.signature_policy # "ignore" /\ opts.signing      -> "minisign"
         [] opts.signature_policy = "if-present" /\ ~opts.signing -> "noop"
         [] opts.signature_policy = "require" /\ ~opts.signing    -> "none"

Left == IF found.fmt = "bin" THEN "file" ELSE "tree"

(* A file cannot be created where a directory is, nor the other way round. *)
Taken == dirs[BinPath(Current)] \notin {"absent", Left}

Report(s) ==
  status' = IF Current.strategy = Quick THEN [status EXCEPT ![Current.target] = s] ELSE status

(* The signature, the download or the extraction fails; part of the package
   may be left behind. *)
FetchFails ==
  /\ at = "fetch"
  /\ Report("attempting-install")
  /\ \/ UNCHANGED dirs
     \/ ~Taken /\ dirs' = [dirs EXCEPT ![BinPath(Current)] = Left]
  /\ NextFetcher
  /\ UNCHANGED <<opts, passed, handles, unsupported, reported, result, bin_files>>

(* Mutant: the status is set before the signature is verified. *)
SignatureFailsLate ==
  /\ at = "fetch" /\ Verifier = "minisign" /\ ~Taken
  /\ dirs' = [dirs EXCEPT ![BinPath(Current)] = Left]
  /\ Report("installed-from-tarball")
  /\ NextFetcher
  /\ UNCHANGED <<opts, passed, handles, unsupported, reported, result, bin_files>>

(* All of the package is there when its signature turns out to be wrong. *)
SignatureFails ==
  /\ at = "fetch" /\ Verifier = "minisign" /\ ~Taken
  /\ dirs' = [dirs EXCEPT ![BinPath(Current)] = Left]
  /\ Report("invalid-signature")
  /\ NextFetcher
  /\ UNCHANGED <<opts, passed, handles, unsupported, reported, result, bin_files>>

Fetched ==
  /\ at = "fetch" /\ Verifier # "none" /\ ~Taken
  /\ dirs' = [dirs EXCEPT ![BinPath(Current)] = Left]
  /\ Report("installed-from-tarball")
  /\ found' = [found EXCEPT !.verifier = Verifier]
  /\ passed' = IF Current.strategy = Quick
                THEN [passed EXCEPT ![Current.target] = Verifier] ELSE passed
  /\ archive' \in IF found.fmt = "bin" THEN {opts.binaries} ELSE SUBSET opts.binaries
  /\ at' = "verify"
  /\ UNCHANGED <<opts, handles, h, unsupported, reported, result, bin_files>>

Wanted == IF opts.bins = {} THEN opts.binaries ELSE opts.binaries \cap opts.bins

(* Mutant: a binary may be missing, optional or not. *)
UnusableAsFile == found.fmt = "bin" /\ Cardinality(opts.binaries) > 1

(* collect_bin_files: two binaries have one source, which is so of a file that is
   not an archive; or a binary is missing that is not optional. *)
Unusable ==
  \/ found.fmt = "bin" /\ Cardinality(opts.binaries) > 1
  \/ ~(Wanted \ archive \subseteq Optional)

(* Also when the bin-dir template of the metadata cannot be used; QuickInstall
   has one of its own. *)
Refuse ==
  /\ at = "verify"
  /\ Unusable \/ Wanted \cap archive = {} \/ (Current.strategy = Meta /\ found.fmt = "archive")
  /\ NextFetcher
  /\ UNCHANGED <<opts, passed, handles, dirs, unsupported, status, reported, result, bin_files>>

(* The fetcher provides what is wanted; it reports so, unless telemetry is off
   or the request fails. *)
Choose ==
  /\ at = "verify"
  /\ ~Unusable /\ Wanted \cap archive # {}
  /\ bin_files' = Wanted \cap archive
  /\ result' = "fetch" /\ at' = "over"
  /\ \/ UNCHANGED reported
     \/ /\ Current.strategy = Quick
        /\ reported' = [reported EXCEPT ![Current.target] = status[Current.target]]
  /\ UNCHANGED <<opts, passed, handles, h, found, archive, dirs, unsupported, status>>

-----------------------------------------------------------------------------
(* After the loop *)

QuickTargets == {handles[k].target : k \in {i \in 1..Len(handles) : handles[i].strategy = Quick}}

(* Every fetcher reports, whatever came of it, a package that was refused for its
   binaries included; then it is an error or for cargo. *)
GiveUp ==
  /\ at = "find" /\ h > Len(handles)
  /\ \E R \in SUBSET (QuickTargets \ unsupported) :
       reported' = [t \in Target |-> IF t \in R THEN status[t] ELSE "none"]
  /\ LET first == IF opts.targets = 0 THEN 0 ELSE 1 IN
     result' = IF opts.cargo_install_fallback /\ Compile \notin Disabled(first)
               THEN "source" ELSE "error"
  /\ at' = "over"
  /\ UNCHANGED <<opts, passed, handles, h, found, archive, dirs, unsupported, status, bin_files>>

(* ResolutionFetch::resolve_bins: the names recorded for the crate, with their
   extension, as far as they are among those asked for. *)
BaseName(b) == [name |-> b, exe |-> Current.target \in Windows]

Recorded ==
  LET asked == {[name |-> b, exe |-> FALSE] : b \in opts.bins}
      names == {BaseName(b) : b \in bin_files}
  IN  IF opts.bins = {} THEN names ELSE names \cap asked

Terminated == at = "over" /\ UNCHANGED vars

Next == \/ PrepareEnds \/ Prepare \/ FindMeta \/ NotSupported \/ FindQuick \/ TimedOut
        \/ FetchFails \/ SignatureFails \/ Fetched \/ Refuse \/ Choose \/ GiveUp
        \/ Terminated

Spec == Init /\ [][Next]_vars

-----------------------------------------------------------------------------
(* Properties *)

TypeOK ==
  /\ opts \in Options
  /\ at \in {"start", "find", "fetch", "verify", "over"}
  /\ handles \in Seq(Fetcher) /\ h \in 1..(Len(handles) + 1)
  /\ at \in {"fetch", "verify"} => h <= Len(handles)
  /\ found \in Found /\ archive \subseteq Bin /\ bin_files \subseteq Bin
  /\ dirs \in [BinPaths -> {"absent", "tree", "file"}]
  /\ passed \in [Target -> {"none", "noop", "minisign"}]
  /\ unsupported \subseteq Target
  /\ status \in [Target -> Status] /\ reported \in [Target -> Status \cup {"none"}]
  /\ result \in {"none", "error", "current", "source", "fetch"}

(* Strategies are tried in the order given, each for every target in the order
   of preference, before the next; cargo comes last.  So whatever is chosen,
   everything that is preferred to it and not disabled has been tried. *)
Rank(s) == CHOOSE k \in 1..Len(opts.resolvers) : opts.resolvers[k] = s

Preferred(s, t, f) ==
  \/ f.renamed
  \/ Rank(s) < Rank(f.strategy)
  \/ s = f.strategy /\ t < f.target

InOrder ==
  result \in {"fetch", "source"} =>
    \A k \in 1..Len(opts.resolvers), t \in 1..opts.targets :
      LET s == opts.resolvers[k] IN
      s \notin Disabled(t) /\ (result = "fetch" => Preferred(s, t, Current)) =>
        \E i \in 1..(h - 1) : handles[i] = AFetcher(s, t, FALSE)

(* What is installed has a valid signature where signatures are required.  Where
   they are used if present, the package of a crate with signing configured has one
   too; a package of QuickInstall may then go without. *)
Trusted ==
  result = "fetch" =>
    \/ found.verifier = "minisign"
    \/ opts.signature_policy = "ignore"
    \/ opts.signature_policy = "if-present" /\ (Current.strategy = Meta => ~opts.signing)

(* A package is chosen only for the binaries it really provides, among them
   every one that is wanted and not optional, and nothing that is not wanted. *)
BinsAsAsked ==
  result = "fetch" =>
    /\ bin_files # {} /\ bin_files \subseteq archive
    /\ opts.bins # {} => bin_files \subseteq opts.bins
    /\ \A b \in opts.binaries \ bin_files : b \in Optional \/ (opts.bins # {} /\ b \notin opts.bins)

(* When a package is chosen nobody but its fetcher reports, and as installed.  A
   tarball that could not be fetched, or whose signature is wrong, is never reported
   as installed: what is has been fetched and extracted, and has a valid signature
   where signatures are required.  It may have been refused for its binaries then:
   "installed-from-tarball" is the status of a tarball, not of the crate. *)
ReportsMatch ==
  \A t \in Target : reported[t] # "none" =>
    /\ result = "fetch" => /\ Current.strategy = Quick /\ Current.target = t
                           /\ reported[t] = "installed-from-tarball"
    /\ reported[t] = "installed-from-tarball" =>
         /\ passed[t] # "none"
         /\ opts.signature_policy = "require" => passed[t] = "minisign"

(* What is recorded as installed is what is installed; the filter by --bin is
   there for binaries that are missing because they are optional
   (crates/binstalk/src/ops/resolve/resolution.rs:100). *)
RecordedAreInstalled ==
  result = "fetch" => Recorded = {BaseName(b) : b \in bin_files}
=============================================================================
