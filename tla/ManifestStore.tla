--------------------------- MODULE ManifestStore ---------------------------
(***************************************************************************)
(* The installation records of one cargo root, shared by cargo-binstall    *)
(* sessions and by cargo itself:                                           *)
(*   .crates.toml            cargo's own list of installed packages,       *)
(*   binstall/crates-v1.json cargo-binstall's richer records.              *)
(* A session locks and loads the JSON file, then the TOML file             *)
(* (Manifests::open_exclusive), keeps both locks while it resolves and     *)
(* installs, rewrites both files in place (Manifests::update) and only     *)
(* then lets cargo build what must come from source.  cargo locks the TOML *)
(* file only.  A file is rewritten by "rewind, write, set_len": a session  *)
(* that dies between the write and the set_len leaves the tail of the old  *)
(* content behind the new one.                                             *)
(***************************************************************************)
EXTENDS Naturals, FiniteSets

CONSTANTS Binstalls,  \* cargo-binstall sessions that track their installs
          Plain,      \* those run without --force and without a version requirement
          FailFast,   \* those run without --continue-on-failure
          Crates,     \* crate names
          Versions,   \* crate versions
          NoVersion,  \* "not installed", "no record"
          NoOwner,    \* owner of an unlocked file
          MaxDeaths,  \* bound: sessions that die or fail on I/O
          MaxEdits    \* bound: edits by cargo processes nobody here started

ASSUME SessionsAssumption == Plain \subseteq Binstalls /\ FailFast \subseteq Binstalls
ASSUME NoVersionAssumption == NoVersion \notin Versions
ASSUME NoOwnerAssumption == NoOwner \notin Binstalls
ASSUME BoundsAssumption == MaxDeaths \in Nat /\ MaxEdits \in Nat

VARIABLES jsonLock, \* session that owns the lock of crates-v1.json
          tomlLock, \* session that owns the lock of .crates.toml
          toml,     \* .crates.toml: the entries and the tail left behind them
          json,     \* crates-v1.json: version recorded per crate, and tail
          disk,     \* versions of the files each crate has in the install path
          pc,       \* where each session is
          own,      \* what each session has in memory, see Memory
          untracked, \* history: crates with files placed by a session that never recorded them
          deaths, edits

vars == <<jsonLock, tomlLock, toml, json, disk, pc, own, untracked, deaths, edits>>

locks == <<jsonLock, tomlLock>>
files == <<toml, json>>
env == <<deaths, edits>>

Package == Crates \X Versions
VersionOrNone == Versions \cup {NoVersion}
Records == [Crates -> VersionOrNone]
NoRecords == [c \in Crates |-> NoVersion]

TomlFile == [entries: SUBSET Package, tail: SUBSET Package]
JsonFile == [recs: Records, tail: Records]

Memory == [mem: Records,           \* Manifests.binstall
           seen: Records,          \* Manifests.installed_crates
           fresh: SUBSET Package,  \* what append_to_file has read back
           plan: Records,          \* versions to install and record
           begun: SUBSET Crates,   \* crates with at least one new file in place
          placed: SUBSET Crates,  \* crates with all of their files in place
           sources: SUBSET Crates] \* crates left to cargo install

Blank == [mem |-> NoRecords, seen |-> NoRecords, fresh |-> {}, plan |-> NoRecords,
          begun |-> {}, placed |-> {}, sources |-> {}]

\* Versions listed for a crate, and the crates a batch of records names.
VersionsOf(E, c) == {v \in Versions : <<c, v>> \in E}
Named(r) == {c \in Crates : r[c] # NoVersion}
AsEntries(r) == {e \in Package : e[2] = r[e[1]]}

(* CratesToml::remove_all and add_crate: every entry of a named crate goes,
   one new entry per crate is added. *)
Replaced(E, r) == {e \in E : e[1] \notin Named(r)} \cup AsEntries(r)

(* Records::replace for every crate of a batch. *)
Overlay(r, s) == [c \in Crates |-> IF s[c] # NoVersion THEN s[c] ELSE r[c]]

(* Mutant: crates cargo has uninstalled stay in the records. *)
RetainedAll(r, s) == r

(* Records::retain in open_exclusive. *)
Retained(r, s) == [c \in Crates |-> IF s[c] = NoVersion THEN NoVersion ELSE r[c]]

(* What collect_into_crates_versions may return: one version per listed crate
   (the last one in the file, when cargo lists a name twice). *)
Snapshots(E) == {s \in Records : \A c \in Crates :
                   IF VersionsOf(E, c) = {} THEN s[c] = NoVersion
                                            ELSE s[c] \in VersionsOf(E, c)}

Opening == {"start", "json_locked", "json_loaded", "toml_locked"}
Updating == {"write_toml", "trunc_toml", "write_json", "trunc_json"}
Final == {"done", "failed"}
Phase == Opening \cup {"opened", "installing"} \cup Updating
           \cup {"drop_toml", "sources"} \cup Final

Init ==
  /\ jsonLock = NoOwner /\ tomlLock = NoOwner
  /\ \E r \in Records :
       /\ toml = [entries |-> AsEntries(r), tail |-> {}]
       /\ disk = [c \in Crates |-> {r[c]} \ {NoVersion}]
       /\ json \in {[recs |-> NoRecords, tail |-> NoRecords],
                    [recs |-> r, tail |-> NoRecords]}
  /\ pc = [p \in Binstalls |-> "start"]
  /\ own = [p \in Binstalls |-> Blank]
  /\ untracked = {}
  /\ deaths = 0 /\ edits = 0

At(p, from, to) == pc[p] = from /\ pc' = [pc EXCEPT ![p] = to]

(* Dropping Manifests, at any early return, unlocks whatever p holds. *)
DropLocks(p) ==
  /\ jsonLock' = IF jsonLock = p THEN NoOwner ELSE jsonLock
  /\ tomlLock' = IF tomlLock = p THEN NoOwner ELSE tomlLock

(* The session is over, or has only the crates of srcs left to build. *)
Leave(p, srcs) ==
  /\ DropLocks(p)
  /\ own' = [own EXCEPT ![p] = [Blank EXCEPT !.sources = srcs]]

-----------------------------------------------------------------------------
(* Manifests::open_exclusive *)

LockJson(p) ==
  /\ At(p, "start", "json_locked")
  /\ jsonLock = NoOwner
  /\ jsonLock' = p
  /\ UNCHANGED <<tomlLock, files, disk, own, untracked, env>>

(* Records::load_impl: a tail is a parse error, or, where it happens to start
   at a record, it is read and the later record of a name wins. *)
LoadJson(p) ==
  /\ \/ /\ At(p, "json_locked", "json_loaded")
        /\ own' = [own EXCEPT ![p].mem = Overlay(json.recs, json.tail)]
        /\ UNCHANGED locks
     \/ /\ json.tail # NoRecords
        /\ At(p, "json_locked", "failed")
        /\ Leave(p, {})
  /\ UNCHANGED <<files, disk, untracked, env>>

LockToml(p) ==
  /\ At(p, "json_loaded", "toml_locked")
  /\ tomlLock = NoOwner
  /\ tomlLock' = p
  /\ UNCHANGED <<jsonLock, files, disk, own, untracked, env>>

(* Mutant: a session that cannot read .crates.toml tries again for ever. *)
LoadTomlRetrying(p) ==
  /\ \/ /\ At(p, "toml_locked", "opened")
        /\ \E s \in Snapshots(toml.entries \cup toml.tail) :
             own' = [own EXCEPT ![p].seen = s, ![p].mem = Retained(own[p].mem, s)]
        /\ UNCHANGED locks
     \/ /\ toml.tail # {}
        /\ At(p, "toml_locked", "start")
        /\ Leave(p, {})
  /\ UNCHANGED <<files, disk, untracked, env>>

(* Mutant: the lock of .crates.toml goes with the reader. *)
LoadTomlUnlocking(p) ==
  /\ At(p, "toml_locked", "opened")
  /\ \E s \in Snapshots(toml.entries \cup toml.tail) :
       own' = [own EXCEPT ![p].seen = s, ![p].mem = Retained(own[p].mem, s)]
  /\ tomlLock' = NoOwner
  /\ UNCHANGED <<jsonLock, files, disk, untracked, env>>

(* CratesToml::load_from_reader, collect_into_crates_versions and the
   retain on the JSON records: .crates.toml alone is honoured. *)
LoadToml(p) ==
  /\ \/ /\ At(p, "toml_locked", "opened")
        /\ \E s \in Snapshots(toml.entries \cup toml.tail) :
             own' = [own EXCEPT ![p].seen = s, ![p].mem = Retained(own[p].mem, s)]
        /\ UNCHANGED locks
     \/ /\ toml.tail # {}
        /\ At(p, "toml_locked", "failed")
        /\ Leave(p, {})
  /\ UNCHANGED <<files, disk, untracked, env>>

-----------------------------------------------------------------------------
(* install_crates, while both locks are held *)

(* What resolution may settle on for one session: a plain session does not
   fetch a crate at the version already installed.  An empty batch of fetches
   drops the manifests at once. *)
Resolved(p) ==
  /\ \E b \in Records, s \in SUBSET Crates :
       /\ s \cap Named(b) = {}
       /\ p \in Plain => \A c \in Named(b) : b[c] # own[p].seen[c]
       /\ IF b = NoRecords
          THEN /\ At(p, "opened", IF s = {} THEN "done" ELSE "sources")
               /\ Leave(p, s)
          ELSE /\ At(p, "opened", "installing")
               /\ own' = [own EXCEPT ![p].plan = b, ![p].sources = s]
               /\ UNCHANGED locks
  /\ UNCHANGED <<files, disk, untracked, env>>

(* A resolution error, a declined confirmation or a signal before anything is
   installed. *)
GiveUp(p) ==
  /\ At(p, "opened", "failed")
  /\ Leave(p, {})
  /\ UNCHANGED <<files, disk, untracked, env>>

(* install_inner puts the binaries of a crate in place one by one and then its
   links, one crate after the other.  c is the one whose turn it is. *)
Placing(p, c) ==
  /\ c \in Named(own[p].plan) \ own[p].placed
  /\ own[p].begun \subseteq own[p].placed \cup {c}

(* A file of c is in place, and another one is still to come. *)
InstallFile(p, c) ==
  /\ pc[p] = "installing"
  /\ Placing(p, c) /\ c \notin own[p].begun
  /\ disk' = [disk EXCEPT ![c] = @ \cup {own[p].plan[c]}]
  /\ own' = [own EXCEPT ![p].begun = @ \cup {c}]
  /\ UNCHANGED <<locks, files, pc, untracked, env>>

(* The last file of c is in place. *)
InstallFetch(p, c) ==
  /\ pc[p] = "installing"
  /\ Placing(p, c)
  /\ disk' = [disk EXCEPT ![c] = {own[p].plan[c]}]
  /\ own' = [own EXCEPT ![p].begun = @ \cup {c}, ![p].placed = @ \cup {c}]
  /\ UNCHANGED <<locks, files, pc, untracked, env>>

(* Mutant: a crate that failed half-way is recorded with the others. *)
InstallFailsRecorded(p, c) ==
  /\ pc[p] = "installing"
  /\ Placing(p, c) /\ c \in own[p].begun
  /\ own' = [own EXCEPT ![p].placed = @ \cup {c}]
  /\ UNCHANGED <<locks, files, disk, pc, untracked, env>>

(* A file of c cannot be placed; those before it stay where they are.
   Fail-fast sessions stop there, without recording the crates they have
   placed; the others go on without this crate. *)
InstallFails(p, c) ==
  /\ Placing(p, c)
  /\ IF p \in FailFast
     THEN /\ At(p, "installing", "failed")
          /\ Leave(p, {})
          /\ untracked' = untracked \cup own[p].begun
     ELSE /\ pc[p] = "installing"
          /\ own' = [own EXCEPT ![p].plan[c] = NoVersion, ![p].begun = @ \ {c}]
          /\ untracked' = untracked \cup (own[p].begun \cap {c})
          /\ UNCHANGED <<pc, locks>>
  /\ UNCHANGED <<files, disk, env>>

-----------------------------------------------------------------------------
(* Manifests::update *)

(* Mutant: the JSON file is rewritten before .crates.toml. *)
ReloadJsonFirst(p) ==
  /\ Named(own[p].plan) = own[p].placed
  /\ At(p, "installing", "write_json")
  /\ UNCHANGED <<locks, files, disk, own, untracked, env>>

(* rewind, and the read at the head of append_to_file. *)
Reload(p) ==
  /\ Named(own[p].plan) = own[p].placed
  /\ \/ /\ At(p, "installing", "write_toml")
        /\ own' = [own EXCEPT ![p].fresh = toml.entries \cup toml.tail]
        /\ UNCHANGED <<locks, untracked>>
     \/ /\ toml.tail # {}
        /\ At(p, "installing", "failed")
        /\ Leave(p, {})
        /\ untracked' = untracked \cup own[p].begun
  /\ UNCHANGED <<files, disk, env>>

(* The new content is written over the old one, which may be longer. *)
WriteToml(p) ==
  /\ At(p, "write_toml", "trunc_toml")
  /\ \E tail \in {{}, toml.entries} :
       toml' = [entries |-> Replaced(own[p].fresh, own[p].plan), tail |-> tail]
  /\ untracked' = untracked \ Named(own[p].plan)
  /\ UNCHANGED <<locks, json, disk, own, env>>

TruncToml(p) ==
  /\ At(p, "trunc_toml", "write_json")
  /\ toml' = [toml EXCEPT !.tail = {}]
  /\ UNCHANGED <<locks, json, disk, own, untracked, env>>

(* Records::replace for every installed crate, then Records::overwrite. *)
WriteJson(p) ==
  /\ At(p, "write_json", "trunc_json")
  /\ \E tail \in {NoRecords, json.recs} :
       json' = [recs |-> Overlay(own[p].mem, own[p].plan), tail |-> tail]
  /\ UNCHANGED <<locks, toml, disk, own, untracked, env>>

(* Mutant: the JSON file is not cut off after the write. *)
TruncJsonForgotten(p) ==
  /\ At(p, "trunc_json", "drop_toml")
  /\ jsonLock' = NoOwner
  /\ UNCHANGED <<tomlLock, files, disk, own, untracked, env>>

(* overwrite consumes the records: the JSON lock goes with its last statement. *)
TruncJson(p) ==
  /\ At(p, "trunc_json", "drop_toml")
  /\ json' = [json EXCEPT !.tail = NoRecords]
  /\ jsonLock' = NoOwner
  /\ UNCHANGED <<tomlLock, toml, disk, own, untracked, env>>

DropToml(p) ==
  /\ At(p, "drop_toml", IF own[p].sources = {} THEN "done" ELSE "sources")
  /\ Leave(p, own[p].sources)
  /\ UNCHANGED <<files, disk, untracked, env>>

-----------------------------------------------------------------------------
(* cargo, which holds the lock of .crates.toml for the whole edit *)

CargoInstall(c, v) ==
  /\ tomlLock = NoOwner
  /\ \E old \in SUBSET {c} : \* an entry of another source may stay
       toml' = [entries |-> {e \in toml.entries \cup toml.tail : e[1] \notin old}
                              \cup {<<c, v>>},
                tail |-> {}]
  /\ disk' = [disk EXCEPT ![c] = {v}]
  /\ untracked' = untracked \ {c}

CargoUninstall(c) ==
  /\ tomlLock = NoOwner
  /\ VersionsOf(toml.entries \cup toml.tail, c) # {} \* or cargo refuses
  /\ toml' = [entries |-> {e \in toml.entries \cup toml.tail : e[1] # c}, tail |-> {}]
  /\ disk' = [disk EXCEPT ![c] = {}]
  /\ untracked' = untracked \ {c}

(* ResolutionSource::install: the session waits for its cargo install. *)
SourceInstall(p, c) ==
  /\ c \in own[p].sources
  /\ At(p, "sources", IF own[p].sources = {c} THEN "done" ELSE "sources")
  /\ own' = [own EXCEPT ![p].sources = @ \ {c}]
  /\ tomlLock = NoOwner
  /\ \/ \E v \in Versions : CargoInstall(c, v)
     \/ UNCHANGED <<toml, disk, untracked>> \* the build fails
  /\ UNCHANGED <<locks, json, env>>

ForeignEdit ==
  /\ edits < MaxEdits
  /\ edits' = edits + 1
  /\ \E c \in Crates : CargoUninstall(c) \/ \E v \in Versions : CargoInstall(c, v)
  /\ UNCHANGED <<locks, json, pc, own, deaths>>

(* The session is killed or fails on I/O: the operating system, or the drop of
   Manifests, releases its locks. *)
Die(p) ==
  /\ deaths < MaxDeaths
  /\ deaths' = deaths + 1
  /\ pc[p] \notin Final
  /\ pc' = [pc EXCEPT ![p] = "failed"]
  /\ Leave(p, {})
  /\ untracked' = IF pc[p] \in {"installing", "write_toml"}
                  THEN untracked \cup own[p].begun ELSE untracked
  /\ UNCHANGED <<files, disk, edits>>

Open(p) == LockJson(p) \/ LoadJson(p) \/ LockToml(p) \/ LoadToml(p)

Install(p) == \/ Resolved(p) \/ GiveUp(p)
              \/ \E c \in Crates : InstallFile(p, c) \/ InstallFetch(p, c) \/ InstallFails(p, c)

Update(p) == \/ Reload(p) \/ WriteToml(p) \/ TruncToml(p)
             \/ WriteJson(p) \/ TruncJson(p) \/ DropToml(p)

Session(p) == Open(p) \/ Install(p) \/ Update(p) \/ \E c \in Crates : SourceInstall(p, c)

Terminated == /\ \A p \in Binstalls : pc[p] \in Final
              /\ UNCHANGED vars

Next == (\E p \in Binstalls : Session(p) \/ Die(p)) \/ ForeignEdit \/ Terminated

Spec == Init /\ [][Next]_vars
-----------------------------------------------------------------------------
(* Properties *)

TypeOK ==
  /\ jsonLock \in Binstalls \cup {NoOwner} /\ tomlLock \in Binstalls \cup {NoOwner}
  /\ toml \in TomlFile /\ json \in JsonFile
  /\ disk \in [Crates -> SUBSET Versions]
  /\ pc \in [Binstalls -> Phase]
  /\ own \in [Binstalls -> Memory]
  /\ untracked \subseteq Crates
  /\ deaths \in 0..MaxDeaths /\ edits \in 0..MaxEdits

(* Between loading .crates.toml and rewriting it, what a session knows of the
   installed versions is what the file lists: nobody edits it meanwhile. *)
SnapshotFresh ==
  \A p \in Binstalls :
    pc[p] \in {"opened", "installing", "write_toml"} =>
      \A c \in Crates :
        LET listed == VersionsOf(toml.entries \cup toml.tail, c)
        IN  IF listed = {} THEN own[p].seen[c] = NoVersion ELSE own[p].seen[c] \in listed

(* A file nobody has locked ends where its content ends, but for the files
   sessions died on: one death leaves at most one file with a tail. *)
TornByDeathOnly ==
  (IF tomlLock = NoOwner /\ toml.tail # {} THEN 1 ELSE 0)
    + (IF jsonLock = NoOwner /\ json.tail # NoRecords THEN 1 ELSE 0) <= deaths

(* While nobody has .crates.toml locked, the files a crate has in the install
   path are all of one listed version, and a crate that is not listed has none,
   except for crates a session placed a file of and then failed to install, or
   stopped before it recorded them. *)
DiskMatchesToml ==
  tomlLock = NoOwner =>
    \A c \in Crates \ untracked :
      LET listed == VersionsOf(toml.entries \cup toml.tail, c)
      IN  IF listed = {} THEN disk[c] = {} ELSE \E v \in listed : disk[c] = {v}

(* When a session has rewritten both files, the JSON file has no record of a
   crate cargo has uninstalled, and the crates it installed have the same
   version in both. *)
JsonListed ==
  \A p \in Binstalls : pc[p] = "drop_toml" =>
    \A c \in Crates :
      /\ json.recs[c] # NoVersion => VersionsOf(toml.entries, c) # {}
      /\ c \in Named(own[p].plan) => VersionsOf(toml.entries, c) = {own[p].plan[c]}

(* The JSON file never runs ahead of .crates.toml: a version it gains is
   listed there already, so a death between the two writes loses detail only. *)
JsonNeverAhead ==
  [][\A c \in Crates :
       \/ json'.recs[c] \in {json.recs[c], json.tail[c], NoVersion}
       \/ <<c, json'.recs[c]>> \in toml.entries]_vars

(* .crates.toml is a set of packages edited one request at a time. *)
Installed == INSTANCE InstalledSet WITH installed <- toml.entries, leftover <- toml.tail
EditsAreAtomic == Installed!Spec
=============================================================================
