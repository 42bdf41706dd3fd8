------------------------ MODULE ManifestStoreProofs ------------------------
(* Proofs about ManifestStore, and about Startup, which puts the settings before
   it, for any number of sessions, crates and versions. *)
EXTENDS Startup, TLAPS

USE DEF At, locks, files, env

LEMMA RecordsLemma ==
  /\ NoRecords \in Records
  /\ \A r \in Records, s \in Records : Overlay(r, s) \in Records /\ Retained(r, s) \in Records
BY NoVersionAssumption DEF NoRecords, Records, Overlay, Retained, VersionOrNone

LEMMA EntriesLemma ==
  \A r \in Records, E \in SUBSET Package :
    AsEntries(r) \in SUBSET Package /\ Replaced(E, r) \in SUBSET Package
BY DEF AsEntries, Replaced

LEMMA BlankLemma ==
  /\ Blank \in Memory
  /\ \A s \in SUBSET Crates : [Blank EXCEPT !.sources = s] \in Memory
BY RecordsLemma DEF Blank, Memory

LEMMA TypeInit == Init => TypeOK
<1> SUFFICES ASSUME Init PROVE TypeOK OBVIOUS
<1>1. PICK r \in Records : /\ toml = [entries |-> AsEntries(r), tail |-> {}]
                           /\ disk = [c \in Crates |-> {r[c]} \ {NoVersion}]
                           /\ json \in {[recs |-> NoRecords, tail |-> NoRecords],
                                        [recs |-> r, tail |-> NoRecords]}
  BY DEF Init
<1>2. toml \in TomlFile /\ json \in JsonFile
  BY <1>1, RecordsLemma, EntriesLemma DEF TomlFile, JsonFile
<1>disk. disk \in [Crates -> SUBSET Versions]
  BY <1>1 DEF Records, VersionOrNone
<1>3. own \in [Binstalls -> Memory]
  BY BlankLemma DEF Init
<1>4. pc \in [Binstalls -> Phase]
  BY DEF Init, Phase, Opening
<1>. QED
  BY <1>1, <1>2, <1>3, <1>4, <1>disk, BoundsAssumption DEF Init, TypeOK

LEMMA DropTypes ==
  ASSUME TypeOK, NEW p \in Binstalls, NEW srcs \in SUBSET Crates, Leave(p, srcs)
  PROVE  /\ jsonLock' \in Binstalls \cup {NoOwner} /\ tomlLock' \in Binstalls \cup {NoOwner}
         /\ own' \in [Binstalls -> Memory]
BY BlankLemma DEF TypeOK, Leave, DropLocks

LEMMA PcTypes ==
  ASSUME TypeOK, NEW p \in Binstalls, NEW from, NEW to \in Phase, At(p, from, to)
  PROVE  pc' \in [Binstalls -> Phase]
BY DEF TypeOK

LEMMA TypeNext == TypeOK /\ [Next]_vars => TypeOK'
<1> SUFFICES ASSUME TypeOK, [Next]_vars PROVE TypeOK' OBVIOUS
<1>phases. /\ {"start", "json_locked", "json_loaded", "toml_locked", "opened", "installing",
              "drop_toml", "sources", "done", "failed", "write_toml", "trunc_toml",
              "write_json", "trunc_json"} = Phase
  BY DEF Phase, Opening, Updating, Final
<1>1. ASSUME NEW p \in Binstalls, LockJson(p) PROVE TypeOK'
  BY <1>1, <1>phases, PcTypes DEF LockJson, TypeOK
<1>2. ASSUME NEW p \in Binstalls, LoadJson(p) PROVE TypeOK'
  <2>1. Overlay(json.recs, json.tail) \in Records
    BY RecordsLemma DEF TypeOK, JsonFile
  <2>2. CASE At(p, "json_locked", "json_loaded")
             /\ own' = [own EXCEPT ![p].mem = Overlay(json.recs, json.tail)]
             /\ UNCHANGED locks
    <3>1. own \in [Binstalls -> Memory] /\ own[p] \in Memory
      BY DEF TypeOK
    <3>2. [own[p] EXCEPT !.mem = Overlay(json.recs, json.tail)] \in Memory
      BY <2>1, <3>1 DEF Memory
    <3>3. own' \in [Binstalls -> Memory]
      BY <2>2, <3>1, <3>2
    <3>. QED BY <1>2, <2>2, <3>3, <1>phases, PcTypes DEF LoadJson, TypeOK
  <2>3. CASE At(p, "json_locked", "failed") /\ Leave(p, {})
    BY <1>2, <2>3, <1>phases, PcTypes, DropTypes DEF LoadJson, TypeOK
  <2>. QED BY <1>2, <2>2, <2>3 DEF LoadJson
<1>3. ASSUME NEW p \in Binstalls, LockToml(p) PROVE TypeOK'
  BY <1>3, <1>phases, PcTypes DEF LockToml, TypeOK
<1>4. ASSUME NEW p \in Binstalls, LoadToml(p) PROVE TypeOK'
  <2>1. ASSUME At(p, "toml_locked", "opened"),
               NEW s \in Snapshots(toml.entries \cup toml.tail),
               own' = [own EXCEPT ![p].seen = s, ![p].mem = Retained(own[p].mem, s)],
               UNCHANGED locks
        PROVE  TypeOK'
    <3>1. s \in Records /\ Retained(own[p].mem, s) \in Records
      BY RecordsLemma DEF Snapshots, TypeOK, Memory
    <3>2. own \in [Binstalls -> Memory] /\ own[p] \in Memory
      BY DEF TypeOK
    <3>3. [own[p] EXCEPT !.seen = s, !.mem = Retained(own[p].mem, s)] \in Memory
      BY <3>1, <3>2 DEF Memory
    <3>4. own' \in [Binstalls -> Memory]
      BY <2>1, <3>2, <3>3
    <3>. QED BY <1>4, <2>1, <3>4, <1>phases, PcTypes DEF LoadToml, TypeOK
  <2>2. CASE At(p, "toml_locked", "failed") /\ Leave(p, {})
    BY <1>4, <2>2, <1>phases, PcTypes, DropTypes DEF LoadToml, TypeOK
  <2>. QED BY <1>4, <2>1, <2>2 DEF LoadToml
<1>5. ASSUME NEW p \in Binstalls, Resolved(p) PROVE TypeOK'
  <2> PICK b \in Records, s \in SUBSET Crates :
         IF b = NoRecords
         THEN /\ At(p, "opened", IF s = {} THEN "done" ELSE "sources")
              /\ Leave(p, s)
         ELSE /\ At(p, "opened", "installing")
              /\ own' = [own EXCEPT ![p].plan = b, ![p].sources = s]
              /\ UNCHANGED locks
    BY <1>5 DEF Resolved
  <2>1. CASE b = NoRecords
    BY <1>5, <2>1, <1>phases, DropTypes DEF Resolved, TypeOK
  <2>2. CASE b # NoRecords
    <3>1. own' = [own EXCEPT ![p].plan = b, ![p].sources = s]
      BY <2>2
    <3>2. own \in [Binstalls -> Memory]
      BY DEF TypeOK
    <3>3. [own[p] EXCEPT !.plan = b, !.sources = s] \in Memory
      <4>1. own[p] \in Memory
        BY <3>2
      <4>. QED BY <4>1 DEF Memory
    <3>4. own' \in [Binstalls -> Memory]
      BY <3>1, <3>2, <3>3
    <3>. QED BY <1>5, <2>2, <3>4, <1>phases, PcTypes DEF Resolved, TypeOK
  <2>. QED BY <2>1, <2>2
<1>6. ASSUME NEW p \in Binstalls, GiveUp(p) PROVE TypeOK'
  BY <1>6, <1>phases, PcTypes, DropTypes DEF GiveUp, TypeOK
<1>planned. ASSUME NEW p \in Binstalls, NEW c \in Named(own[p].plan)
            PROVE  own[p] \in Memory /\ c \in Crates /\ own[p].plan[c] \in Versions
  <2>1. own[p] \in Memory
    BY DEF TypeOK
  <2>. QED BY <2>1 DEF Memory, Records, VersionOrNone, Named
<1>file. ASSUME NEW p \in Binstalls, NEW c \in Crates, InstallFile(p, c) PROVE TypeOK'
  <2>1. c \in Named(own[p].plan)
    BY <1>file DEF InstallFile, Placing
  <2>2. [own[p] EXCEPT !.begun = @ \cup {c}] \in Memory
    BY <2>1, <1>planned DEF Memory
  <2>3. own' \in [Binstalls -> Memory]
    BY <1>file, <2>2 DEF InstallFile, TypeOK
  <2>4. disk' \in [Crates -> SUBSET Versions]
    BY <1>file, <2>1, <1>planned DEF InstallFile, TypeOK
  <2>. QED BY <1>file, <2>3, <2>4 DEF InstallFile, TypeOK
<1>7. ASSUME NEW p \in Binstalls, NEW c \in Crates, InstallFetch(p, c) PROVE TypeOK'
  <2>1. c \in Named(own[p].plan)
    BY <1>7 DEF InstallFetch, Placing
  <2>2. [own[p] EXCEPT !.begun = @ \cup {c}, !.placed = @ \cup {c}] \in Memory
    BY <2>1, <1>planned DEF Memory
  <2>3. own' \in [Binstalls -> Memory]
    BY <1>7, <2>2 DEF InstallFetch, TypeOK
  <2>4. disk' \in [Crates -> SUBSET Versions]
    BY <1>7, <2>1, <1>planned DEF InstallFetch, TypeOK
  <2>. QED BY <1>7, <2>3, <2>4 DEF InstallFetch, TypeOK
<1>8. ASSUME NEW p \in Binstalls, NEW c \in Crates, InstallFails(p, c) PROVE TypeOK'
  <2>1. untracked' \in SUBSET Crates
    BY <1>8 DEF InstallFails, TypeOK, Memory
  <2>2. CASE p \in FailFast
    BY <1>8, <2>1, <2>2, <1>phases, PcTypes, DropTypes DEF InstallFails, TypeOK
  <2>3. CASE p \notin FailFast
    <3>1. own[p] \in Memory
      BY DEF TypeOK
    <3>2. [own[p].plan EXCEPT ![c] = NoVersion] \in Records
      BY <3>1 DEF Memory, Records, VersionOrNone
    <3> DEFINE o == [own[p] EXCEPT !.plan = [own[p].plan EXCEPT ![c] = NoVersion],
                                   !.begun = @ \ {c}]
    <3>3. o \in Memory
      BY <3>1, <3>2 DEF Memory
    <3>4. own' = [own EXCEPT ![p] = o]
      BY <1>8, <2>3 DEF InstallFails, TypeOK
    <3>5. own' \in [Binstalls -> Memory]
      BY <3>3, <3>4 DEF TypeOK
    <3>. QED BY <1>8, <2>1, <2>3, <3>5 DEF InstallFails, TypeOK
  <2>. QED BY <2>2, <2>3
<1>9. ASSUME NEW p \in Binstalls, Reload(p) PROVE TypeOK'
  <2>1. CASE At(p, "installing", "write_toml")
             /\ own' = [own EXCEPT ![p].fresh = toml.entries \cup toml.tail]
             /\ UNCHANGED <<locks, untracked>>
    <3>1. own' \in [Binstalls -> Memory]
      BY <2>1 DEF TypeOK, Memory, TomlFile
    <3>. QED BY <1>9, <2>1, <3>1, <1>phases, PcTypes DEF Reload, TypeOK
  <2>2. CASE At(p, "installing", "failed") /\ Leave(p, {})
             /\ untracked' = untracked \cup own[p].begun
    <3>1. untracked' \in SUBSET Crates
      BY <2>2 DEF TypeOK, Memory
    <3>. QED BY <1>9, <2>2, <3>1, <1>phases, PcTypes, DropTypes DEF Reload, TypeOK
  <2>. QED BY <1>9, <2>1, <2>2 DEF Reload
<1>10. ASSUME NEW p \in Binstalls, WriteToml(p) PROVE TypeOK'
  <2>1. Replaced(own[p].fresh, own[p].plan) \in SUBSET Package
    BY EntriesLemma DEF TypeOK, Memory
  <2>2. toml' \in TomlFile
    BY <1>10, <2>1 DEF WriteToml, TypeOK, TomlFile
  <2>. QED BY <1>10, <2>2, <1>phases, PcTypes DEF WriteToml, TypeOK
<1>11. ASSUME NEW p \in Binstalls, TruncToml(p) PROVE TypeOK'
  BY <1>11, <1>phases, PcTypes DEF TruncToml, TypeOK, TomlFile
<1>12. ASSUME NEW p \in Binstalls, WriteJson(p) PROVE TypeOK'
  <2>1. Overlay(own[p].mem, own[p].plan) \in Records
    BY RecordsLemma DEF TypeOK, Memory
  <2>2. json' \in JsonFile
    BY <1>12, <2>1, RecordsLemma DEF WriteJson, TypeOK, JsonFile
  <2>. QED BY <1>12, <2>2, <1>phases, PcTypes DEF WriteJson, TypeOK
<1>13. ASSUME NEW p \in Binstalls, TruncJson(p) PROVE TypeOK'
  BY <1>13, <1>phases, PcTypes, RecordsLemma DEF TruncJson, TypeOK, JsonFile
<1>14. ASSUME NEW p \in Binstalls, DropToml(p) PROVE TypeOK'
  <2>1. own[p].sources \in SUBSET Crates
    BY DEF TypeOK, Memory
  <2>. QED BY <1>14, <2>1, <1>phases, DropTypes DEF DropToml, TypeOK
<1>15. ASSUME NEW c \in Crates,
              CargoUninstall(c) \/ \E v \in Versions : CargoInstall(c, v)
       PROVE  toml' \in TomlFile /\ disk' \in [Crates -> SUBSET Versions] /\ untracked' \in SUBSET Crates
  BY <1>15 DEF CargoUninstall, CargoInstall, TypeOK, TomlFile, Package
<1>16. ASSUME NEW p \in Binstalls, NEW c \in Crates, SourceInstall(p, c) PROVE TypeOK'
  <2>1. own' \in [Binstalls -> Memory]
    BY <1>16 DEF SourceInstall, TypeOK, Memory
  <2>2. toml' \in TomlFile /\ disk' \in [Crates -> SUBSET Versions] /\ untracked' \in SUBSET Crates
    BY <1>15, <1>16 DEF SourceInstall, TypeOK
  <2>. QED BY <1>16, <2>1, <2>2, <1>phases DEF SourceInstall, TypeOK
<1>17. ASSUME ForeignEdit PROVE TypeOK'
  <2>1. toml' \in TomlFile /\ disk' \in [Crates -> SUBSET Versions] /\ untracked' \in SUBSET Crates
    BY <1>15, <1>17 DEF ForeignEdit
  <2>2. edits' \in 0..MaxEdits
    BY <1>17, BoundsAssumption DEF ForeignEdit, TypeOK
  <2>. QED BY <1>17, <2>1, <2>2 DEF ForeignEdit, TypeOK
<1>18. ASSUME NEW p \in Binstalls, Die(p) PROVE TypeOK'
  <2>1. untracked' \in SUBSET Crates
    BY <1>18 DEF Die, TypeOK, Memory
  <2>2. deaths' \in 0..MaxDeaths
    BY <1>18, BoundsAssumption DEF Die, TypeOK
  <2>3. pc' \in [Binstalls -> Phase]
    BY <1>18, <1>phases DEF Die, TypeOK
  <2>. QED BY <1>18, <2>1, <2>2, <2>3, DropTypes DEF Die, TypeOK
<1>19. CASE UNCHANGED vars
  BY <1>19 DEF vars, TypeOK
<1>. QED
  BY <1>1, <1>2, <1>3, <1>4, <1>5, <1>6, <1>7, <1>8, <1>9, <1>10, <1>11, <1>12, <1>13,
     <1>14, <1>16, <1>17, <1>18, <1>19, <1>file
  DEF Next, Session, Open, Install, Update, Terminated

(* Type correctness: what the session code keeps in memory and in the two
   files stays of the kinds Manifests declares, for any number of sessions. *)
THEOREM TypeCorrect == Spec => []TypeOK
<1>. QED BY TypeInit, TypeNext, PTL DEF Spec

-----------------------------------------------------------------------------
(* The inductive invariant.  A session owns the two locks exactly in the
   phases of its section; while it owns the lock of .crates.toml nobody else
   changes that file, and nobody else changes crates-v1.json, which only an
   owner of both locks writes.  So what the session has read stays true: *)

OpenPhases == {"opened", "installing", "write_toml"}
RewrittenPhases == {"trunc_toml", "write_json", "trunc_json", "drop_toml"}
TomlPhases == {"toml_locked"} \cup OpenPhases \cup RewrittenPhases
LoadedPhases == {"json_loaded", "toml_locked", "trunc_toml", "write_json"} \cup OpenPhases
JsonPhases == {"json_locked", "trunc_json"} \cup LoadedPhases

USE DEF OpenPhases, RewrittenPhases, TomlPhases, LoadedPhases, JsonPhases

LockOwners == \A p \in Binstalls : /\ pc[p] \in TomlPhases <=> tomlLock = p
                                   /\ pc[p] \in JsonPhases <=> jsonLock = p

ReadBack(p) == pc[p] = "write_toml" => own[p].fresh = toml.entries \cup toml.tail

SeenListed(p) == pc[p] \in OpenPhases =>
  \A c \in Crates :
    LET listed == VersionsOf(toml.entries \cup toml.tail, c)
    IN  IF listed = {} THEN own[p].seen[c] = NoVersion ELSE own[p].seen[c] \in listed

MemFromJson(p) == pc[p] \in LoadedPhases =>
  \A c \in Crates : own[p].mem[c] \in {json.recs[c], json.tail[c], NoVersion}

MemSeen(p) == pc[p] \in OpenPhases =>
  \A c \in Crates : own[p].mem[c] # NoVersion => own[p].seen[c] # NoVersion

MemListed(p) == pc[p] \in RewrittenPhases =>
  \A c \in Crates : own[p].mem[c] # NoVersion => VersionsOf(toml.entries, c) # {}

PlanListed(p) == pc[p] \in RewrittenPhases =>
  \A c \in Named(own[p].plan) : VersionsOf(toml.entries, c) = {own[p].plan[c]}

JsonWritten(p) == pc[p] \in {"trunc_json", "drop_toml"} =>
  json.recs = Overlay(own[p].mem, own[p].plan)

SessionInv(p) == /\ ReadBack(p) /\ SeenListed(p) /\ MemFromJson(p) /\ MemSeen(p)
                 /\ MemListed(p) /\ PlanListed(p) /\ JsonWritten(p)

IInv == TypeOK /\ LockOwners /\ \A p \in Binstalls : SessionInv(p)

LEMMA LockNext == TypeOK /\ LockOwners /\ [Next]_vars => LockOwners'
<1> SUFFICES ASSUME TypeOK, LockOwners, [Next]_vars PROVE LockOwners' OBVIOUS
<1> USE NoOwnerAssumption DEF LockOwners
<1>leave. ASSUME NEW p \in Binstalls, NEW srcs, NEW to \in Final \cup {"sources"},
                 pc' = [pc EXCEPT ![p] = to], Leave(p, srcs)
          PROVE  LockOwners'
  BY <1>leave DEF Leave, DropLocks, Final, TypeOK
<1>1. ASSUME NEW p \in Binstalls, LockJson(p) PROVE LockOwners'
  BY <1>1 DEF LockJson, TypeOK
<1>2. ASSUME NEW p \in Binstalls, LoadJson(p) PROVE LockOwners'
  <2>1. CASE At(p, "json_locked", "json_loaded") /\ UNCHANGED locks
    BY <2>1 DEF TypeOK
  <2>. QED BY <1>2, <1>leave, <2>1 DEF LoadJson, Final
<1>3. ASSUME NEW p \in Binstalls, LockToml(p) PROVE LockOwners'
  BY <1>3 DEF LockToml, TypeOK
<1>4. ASSUME NEW p \in Binstalls, LoadToml(p) PROVE LockOwners'
  <2>1. CASE At(p, "toml_locked", "opened") /\ UNCHANGED locks
    BY <2>1 DEF TypeOK
  <2>. QED BY <1>4, <1>leave, <2>1 DEF LoadToml, Final
<1>5. ASSUME NEW p \in Binstalls, Resolved(p) PROVE LockOwners'
  <2>1. CASE At(p, "opened", "installing") /\ UNCHANGED locks
    BY <2>1 DEF TypeOK
  <2>2. ASSUME NEW s \in SUBSET Crates, Leave(p, s),
               At(p, "opened", IF s = {} THEN "done" ELSE "sources")
        PROVE  LockOwners'
    BY <1>leave, <2>2 DEF Final
  <2>. QED BY <1>5, <2>1, <2>2 DEF Resolved
<1>6. ASSUME NEW p \in Binstalls, GiveUp(p) PROVE LockOwners'
  BY <1>6, <1>leave DEF GiveUp, Final
<1>7. ASSUME NEW p \in Binstalls, NEW c \in Crates, InstallFile(p, c) \/ InstallFetch(p, c)
      PROVE  LockOwners'
  BY <1>7 DEF InstallFile, InstallFetch
<1>8. ASSUME NEW p \in Binstalls, NEW c \in Crates, InstallFails(p, c) PROVE LockOwners'
  <2>1. CASE p \in FailFast
    BY <1>8, <2>1, <1>leave DEF InstallFails, Final
  <2>2. CASE p \notin FailFast
    BY <1>8, <2>2 DEF InstallFails
  <2>. QED BY <2>1, <2>2
<1>9. ASSUME NEW p \in Binstalls, Reload(p) PROVE LockOwners'
  <2>1. CASE At(p, "installing", "write_toml") /\ UNCHANGED <<locks, untracked>>
    BY <2>1 DEF TypeOK
  <2>. QED BY <1>9, <1>leave, <2>1 DEF Reload, Final
<1>10. ASSUME NEW p \in Binstalls, WriteToml(p) PROVE LockOwners'
  BY <1>10 DEF WriteToml, TypeOK
<1>11. ASSUME NEW p \in Binstalls, TruncToml(p) PROVE LockOwners'
  BY <1>11 DEF TruncToml, TypeOK
<1>12. ASSUME NEW p \in Binstalls, WriteJson(p) PROVE LockOwners'
  BY <1>12 DEF WriteJson, TypeOK
<1>13. ASSUME NEW p \in Binstalls, TruncJson(p) PROVE LockOwners'
  BY <1>13 DEF TruncJson, TypeOK
<1>14. ASSUME NEW p \in Binstalls, DropToml(p) PROVE LockOwners'
  BY <1>14, <1>leave DEF DropToml, Final
<1>15. ASSUME NEW p \in Binstalls, NEW c \in Crates, SourceInstall(p, c) PROVE LockOwners'
  BY <1>15 DEF SourceInstall, TypeOK
<1>16. CASE ForeignEdit
  BY <1>16 DEF ForeignEdit
<1>17. ASSUME NEW p \in Binstalls, Die(p) PROVE LockOwners'
  BY <1>17, <1>leave DEF Die, Final
<1>18. CASE UNCHANGED vars
  BY <1>18 DEF vars
<1>. QED
  BY <1>1, <1>2, <1>3, <1>4, <1>5, <1>6, <1>7, <1>8, <1>9, <1>10, <1>11, <1>12, <1>13,
     <1>14, <1>15, <1>16, <1>17, <1>18
  DEF Next, Session, Open, Install, Update, Terminated

(* What a session knows is kept by every step that leaves the session alone
   and changes neither file behind its locks. *)
LEMMA Kept ==
  ASSUME NEW q \in Binstalls, SessionInv(q), pc'[q] = pc[q], own'[q] = own[q],
         pc[q] \in TomlPhases => toml' = toml,
         pc[q] \in LoadedPhases \cup {"trunc_json", "drop_toml"} => json' = json
  PROVE  SessionInv(q)'
<1>1. ReadBack(q)' BY DEF SessionInv, ReadBack
<1>2. SeenListed(q)' BY DEF SessionInv, SeenListed
<1>3. MemFromJson(q)' BY DEF SessionInv, MemFromJson
<1>4. MemSeen(q)' BY DEF SessionInv, MemSeen
<1>5. MemListed(q)' BY DEF SessionInv, MemListed
<1>6. PlanListed(q)' BY DEF SessionInv, PlanListed
<1>7. JsonWritten(q)' BY DEF SessionInv, JsonWritten
<1>. QED BY <1>1, <1>2, <1>3, <1>4, <1>5, <1>6, <1>7 DEF SessionInv

(* A session that has nothing open, or nothing read yet, knows nothing. *)
LEMMA NothingKnown ==
  ASSUME NEW q \in Binstalls,
         pc'[q] \in {"start", "json_locked", "sources"} \cup Final
  PROVE  SessionInv(q)'
BY DEF SessionInv, ReadBack, SeenListed, MemFromJson, MemSeen, MemListed, PlanListed,
       JsonWritten, Final

LEMMA OthersKept ==
  ASSUME TypeOK, LockOwners, NEW p \in Binstalls, Session(p) \/ Die(p),
         NEW q \in Binstalls \ {p}
  PROVE  /\ pc'[q] = pc[q] /\ own'[q] = own[q]
         /\ pc[q] \in TomlPhases => toml' = toml
         /\ pc[q] \in LoadedPhases \cup {"trunc_json", "drop_toml"} => json' = json
<1> USE NoOwnerAssumption
<1>1. pc'[q] = pc[q]
  BY DEF Session, Open, Install, Update, LockJson, LoadJson, LockToml, LoadToml, Resolved,
         GiveUp, InstallFile, InstallFetch, InstallFails, Reload, WriteToml, TruncToml, WriteJson,
         TruncJson, DropToml, SourceInstall, Die, TypeOK
<1>2. own'[q] = own[q]
  BY DEF Session, Open, Install, Update, LockJson, LoadJson, LockToml, LoadToml, Resolved,
         GiveUp, InstallFile, InstallFetch, InstallFails, Reload, WriteToml, TruncToml, WriteJson,
         TruncJson, DropToml, SourceInstall, Die, Leave, TypeOK
<1>3. ASSUME pc[q] \in TomlPhases PROVE toml' = toml
  <2>1. tomlLock = q BY <1>3 DEF LockOwners
  <2>2. pc[p] \notin TomlPhases BY <2>1 DEF LockOwners
  <2>. QED
    BY <2>1, <2>2
    DEF Session, Open, Install, Update, LockJson, LoadJson, LockToml, LoadToml, Resolved,
        GiveUp, InstallFile, InstallFetch, InstallFails, Reload, WriteToml, TruncToml, WriteJson,
        TruncJson, DropToml, SourceInstall, Die
<1>4. ASSUME pc[q] \in LoadedPhases \cup {"trunc_json", "drop_toml"} PROVE json' = json
  <2>1. jsonLock = q \/ tomlLock = q BY <1>4 DEF LockOwners
  <2>2. pc[p] \notin {"write_json", "trunc_json"} BY <2>1 DEF LockOwners
  <2>. QED
    BY <2>2
    DEF Session, Open, Install, Update, LockJson, LoadJson, LockToml, LoadToml, Resolved,
        GiveUp, InstallFile, InstallFetch, InstallFails, Reload, WriteToml, TruncToml, WriteJson,
        TruncJson, DropToml, SourceInstall, Die
<1>. QED BY <1>1, <1>2, <1>3, <1>4

LEMMA ActorKept ==
  ASSUME TypeOK, NEW p \in Binstalls, SessionInv(p), Session(p) \/ Die(p)
  PROVE  SessionInv(p)'
<1> USE NoVersionAssumption
<1>typed. own[p] \in Memory /\ pc \in [Binstalls -> Phase] /\ own \in [Binstalls -> Memory]
          /\ toml \in TomlFile /\ json \in JsonFile
  BY DEF TypeOK
<1>over. ASSUME pc' = [pc EXCEPT ![p] = "failed"] \/ pc' = [pc EXCEPT ![p] = "done"]
                  \/ pc' = [pc EXCEPT ![p] = "sources"]
         PROVE  SessionInv(p)'
  BY <1>over, <1>typed, NothingKnown DEF Final
<1>1. CASE LockJson(p)
  BY <1>1, <1>typed, NothingKnown DEF LockJson
<1>2. CASE LoadJson(p)
  <2>1. CASE At(p, "json_locked", "json_loaded")
             /\ own' = [own EXCEPT ![p].mem = Overlay(json.recs, json.tail)]
    <3>1. own'[p].mem = Overlay(json.recs, json.tail) /\ pc'[p] = "json_loaded"
      BY <2>1, <1>typed DEF Memory
    <3>2. MemFromJson(p)'
      BY <3>1, <1>2 DEF MemFromJson, Overlay, LoadJson
    <3>. QED
      BY <3>1, <3>2 DEF SessionInv, ReadBack, SeenListed, MemSeen, MemListed, PlanListed,
                        JsonWritten
  <2>. QED BY <1>2, <2>1, <1>over DEF LoadJson
<1>3. CASE LockToml(p)
  <2>1. pc[p] = "json_loaded" /\ pc'[p] = "toml_locked" /\ own' = own /\ json' = json
    BY <1>3, <1>typed DEF LockToml
  <2>. QED
    BY <2>1 DEF SessionInv, ReadBack, SeenListed, MemFromJson, MemSeen, MemListed,
                PlanListed, JsonWritten
<1>4. CASE LoadToml(p)
  <2>1. ASSUME At(p, "toml_locked", "opened"),
               NEW s \in Snapshots(toml.entries \cup toml.tail),
               own' = [own EXCEPT ![p].seen = s, ![p].mem = Retained(own[p].mem, s)]
        PROVE  SessionInv(p)'
    <3>1. /\ own'[p].seen = s /\ own'[p].mem = Retained(own[p].mem, s)
          /\ pc[p] = "toml_locked" /\ pc'[p] = "opened" /\ toml' = toml /\ json' = json
      BY <2>1, <1>4, <1>typed DEF Memory, LoadToml
    <3>2. MemFromJson(p)'
      BY <3>1 DEF SessionInv, MemFromJson, Retained
    <3>3. MemSeen(p)'
      BY <3>1 DEF MemSeen, Retained
    <3>4. SeenListed(p)'
      BY <3>1 DEF SeenListed, Snapshots
    <3>. QED
      BY <3>1, <3>2, <3>3, <3>4 DEF SessionInv, ReadBack, MemListed, PlanListed, JsonWritten
  <2>. QED BY <1>4, <2>1, <1>over DEF LoadToml
<1>5. CASE Resolved(p)
  <2>1. ASSUME NEW b \in Records, NEW s \in SUBSET Crates, At(p, "opened", "installing"),
               own' = [own EXCEPT ![p].plan = b, ![p].sources = s]
        PROVE  SessionInv(p)'
    <3>1. /\ own'[p].seen = own[p].seen /\ own'[p].mem = own[p].mem
          /\ pc[p] = "opened" /\ pc'[p] = "installing" /\ toml' = toml /\ json' = json
      BY <2>1, <1>5, <1>typed DEF Memory, Resolved
    <3>2. SeenListed(p)'
      BY <3>1 DEF SessionInv, SeenListed
    <3>. QED
      BY <3>1, <3>2 DEF SessionInv, ReadBack, MemFromJson, MemSeen, MemListed, PlanListed,
                        JsonWritten
  <2>2. ASSUME NEW s \in SUBSET Crates, At(p, "opened", IF s = {} THEN "done" ELSE "sources")
        PROVE  SessionInv(p)'
    BY <2>2, <1>over
  <2>. QED BY <1>5, <2>1, <2>2 DEF Resolved
<1>6. CASE GiveUp(p)
  BY <1>6, <1>over DEF GiveUp
<1>keep. ASSUME pc[p] = "installing", pc'[p] = "installing", toml' = toml, json' = json,
                own'[p].seen = own[p].seen, own'[p].mem = own[p].mem
         PROVE  SessionInv(p)'
  <2>1. SeenListed(p)'
    BY <1>keep DEF SessionInv, SeenListed
  <2>. QED
    BY <1>keep, <2>1 DEF SessionInv, ReadBack, MemFromJson, MemSeen, MemListed, PlanListed,
                         JsonWritten
<1>7. ASSUME NEW c \in Crates, InstallFile(p, c) \/ InstallFetch(p, c) PROVE SessionInv(p)'
  <2>1. own'[p].seen = own[p].seen /\ own'[p].mem = own[p].mem
    BY <1>7, <1>typed DEF InstallFile, InstallFetch, Memory
  <2>. QED BY <1>7, <2>1, <1>keep DEF InstallFile, InstallFetch
<1>8. ASSUME NEW c \in Crates, InstallFails(p, c) PROVE SessionInv(p)'
  <2>1. CASE p \notin FailFast
    <3>1. own'[p].seen = own[p].seen /\ own'[p].mem = own[p].mem
      BY <1>8, <2>1, <1>typed DEF InstallFails, Memory
    <3>. QED BY <1>8, <2>1, <3>1, <1>keep DEF InstallFails
  <2>. QED BY <1>8, <2>1, <1>over DEF InstallFails
<1>9. CASE Reload(p)
  <2>1. CASE At(p, "installing", "write_toml")
             /\ own' = [own EXCEPT ![p].fresh = toml.entries \cup toml.tail]
    <3>1. /\ own'[p].seen = own[p].seen /\ own'[p].mem = own[p].mem
          /\ own'[p].fresh = toml.entries \cup toml.tail
          /\ pc[p] = "installing" /\ pc'[p] = "write_toml" /\ toml' = toml /\ json' = json
      BY <2>1, <1>9, <1>typed DEF Memory, Reload
    <3>2. SeenListed(p)'
      BY <3>1 DEF SessionInv, SeenListed
    <3>. QED
      BY <3>1, <3>2 DEF SessionInv, ReadBack, MemFromJson, MemSeen, MemListed, PlanListed,
                        JsonWritten
  <2>. QED BY <1>9, <2>1, <1>over DEF Reload
<1>10. CASE WriteToml(p)
  <2>1. /\ pc[p] = "write_toml" /\ pc'[p] = "trunc_toml" /\ own' = own /\ json' = json
        /\ toml'.entries = Replaced(own[p].fresh, own[p].plan)
        /\ own[p].fresh = toml.entries \cup toml.tail
    BY <1>10, <1>typed DEF WriteToml, SessionInv, ReadBack
  <2>2. ASSUME NEW c \in Crates \ Named(own[p].plan)
        PROVE  VersionsOf(toml'.entries, c) = VersionsOf(toml.entries \cup toml.tail, c)
    BY <2>1, <1>typed DEF VersionsOf, Replaced, AsEntries, Named, Package, TomlFile, Memory
  <2>3. ASSUME NEW c \in Named(own[p].plan)
        PROVE  VersionsOf(toml'.entries, c) = {own[p].plan[c]}
    <3>1. own[p].plan[c] \in Versions /\ c \in Crates
      BY <1>typed DEF Named, Memory, Records, VersionOrNone
    <3>. QED BY <2>1, <3>1, <1>typed DEF VersionsOf, Replaced, AsEntries, Package, TomlFile
  <2>4. PlanListed(p)'
    BY <2>1, <2>3 DEF PlanListed
  <2>5. MemListed(p)'
    BY <2>1, <2>2, <2>3, <1>typed DEF MemListed, SessionInv, MemSeen, SeenListed
  <2>. QED
    BY <2>1, <2>4, <2>5 DEF SessionInv, ReadBack, SeenListed, MemFromJson, MemSeen,
                            JsonWritten
<1>11. CASE TruncToml(p)
  <2>1. /\ pc[p] = "trunc_toml" /\ pc'[p] = "write_json" /\ own' = own /\ json' = json
        /\ toml'.entries = toml.entries
    BY <1>11, <1>typed DEF TruncToml, TomlFile
  <2>. QED
    BY <2>1 DEF SessionInv, ReadBack, SeenListed, MemFromJson, MemSeen, MemListed,
                PlanListed, JsonWritten
<1>12. CASE WriteJson(p)
  <2>1. /\ pc[p] = "write_json" /\ pc'[p] = "trunc_json" /\ own' = own /\ toml' = toml
        /\ json'.recs = Overlay(own[p].mem, own[p].plan)
    BY <1>12, <1>typed DEF WriteJson
  <2>. QED
    BY <2>1 DEF SessionInv, ReadBack, SeenListed, MemFromJson, MemSeen, MemListed,
                PlanListed, JsonWritten
<1>13. CASE TruncJson(p)
  <2>1. /\ pc[p] = "trunc_json" /\ pc'[p] = "drop_toml" /\ own' = own /\ toml' = toml
        /\ json'.recs = json.recs
    BY <1>13, <1>typed DEF TruncJson, JsonFile
  <2>. QED
    BY <2>1 DEF SessionInv, ReadBack, SeenListed, MemFromJson, MemSeen, MemListed,
                PlanListed, JsonWritten
<1>14. CASE DropToml(p)
  BY <1>14, <1>over DEF DropToml
<1>15. ASSUME NEW c \in Crates, SourceInstall(p, c) PROVE SessionInv(p)'
  BY <1>15, <1>over DEF SourceInstall
<1>16. CASE Die(p)
  BY <1>16, <1>over DEF Die
<1>. QED
  BY <1>1, <1>2, <1>3, <1>4, <1>5, <1>6, <1>7, <1>8, <1>9, <1>10, <1>11, <1>12, <1>13,
     <1>14, <1>15, <1>16
  DEF Session, Open, Install, Update

LEMMA ForeignKept ==
  ASSUME TypeOK, LockOwners, ForeignEdit, NEW q \in Binstalls, SessionInv(q)
  PROVE  SessionInv(q)'
<1>1. pc'[q] = pc[q] /\ own'[q] = own[q] /\ json' = json /\ tomlLock = NoOwner
  BY DEF ForeignEdit, CargoInstall, CargoUninstall
<1>2. pc[q] \notin TomlPhases
  BY <1>1, NoOwnerAssumption DEF LockOwners
<1>. QED BY <1>1, <1>2, Kept

LEMMA InvInit == Init => IInv
<1> SUFFICES ASSUME Init PROVE IInv OBVIOUS
<1>1. TypeOK BY TypeInit
<1>2. \A p \in Binstalls : pc[p] = "start" /\ jsonLock = NoOwner /\ tomlLock = NoOwner
  BY DEF Init
<1>3. LockOwners
  BY <1>2, NoOwnerAssumption DEF LockOwners
<1>4. ASSUME NEW p \in Binstalls PROVE SessionInv(p)
  BY <1>2 DEF SessionInv, ReadBack, SeenListed, MemFromJson, MemSeen, MemListed, PlanListed,
              JsonWritten
<1>. QED BY <1>1, <1>3, <1>4 DEF IInv

LEMMA InvNext == IInv /\ [Next]_vars => IInv'
<1> SUFFICES ASSUME IInv, [Next]_vars PROVE IInv' OBVIOUS
<1>1. TypeOK' /\ LockOwners'
  BY TypeNext, LockNext DEF IInv
<1>2. ASSUME NEW q \in Binstalls PROVE SessionInv(q)'
  <2>1. ASSUME NEW p \in Binstalls, Session(p) \/ Die(p) PROVE SessionInv(q)'
    <3>1. CASE p = q BY <2>1, <3>1, ActorKept DEF IInv
    <3>2. CASE p # q BY <2>1, <3>2, OthersKept, Kept DEF IInv
    <3>. QED BY <3>1, <3>2
  <2>2. CASE ForeignEdit BY <2>2, ForeignKept DEF IInv
  <2>3. CASE UNCHANGED vars BY <2>3, Kept DEF IInv, vars
  <2>. QED BY <2>1, <2>2, <2>3 DEF Next, Terminated
<1>. QED BY <1>1, <1>2 DEF IInv

(* The inductive invariant of the specification: types, who owns which lock
   at which place of open_exclusive and update, and that whatever a session
   has read stays true as long as it holds the lock of the file. *)
THEOREM Inductive == Spec => []IInv
<1>. QED BY InvInit, InvNext, PTL DEF Spec

-----------------------------------------------------------------------------
(* What follows from the invariant *)

(* While a session resolves and installs, the installed versions it read from
   .crates.toml are the ones the file lists: neither another session nor cargo
   comes in between. *)
THEOREM Freshness == Spec => []SnapshotFresh
<1>1. IInv => SnapshotFresh
  BY DEF IInv, SessionInv, SeenListed, SnapshotFresh
<1>. QED BY <1>1, Inductive, PTL

(* After Manifests::update the JSON file names no crate .crates.toml does not,
   and the two agree on what the session has installed. *)
THEOREM Agreement == Spec => []JsonListed
<1>1. IInv => JsonListed
  <2> SUFFICES ASSUME IInv, NEW p \in Binstalls, pc[p] = "drop_toml", NEW c \in Crates
               PROVE  /\ json.recs[c] # NoVersion => VersionsOf(toml.entries, c) # {}
                      /\ c \in Named(own[p].plan) =>
                           VersionsOf(toml.entries, c) = {own[p].plan[c]}
    BY DEF JsonListed
  <2>1. MemListed(p) /\ PlanListed(p) /\ JsonWritten(p)
    BY DEF IInv, SessionInv
  <2>. QED BY <2>1 DEF MemListed, PlanListed, JsonWritten, Overlay, Named
<1>. QED BY <1>1, Inductive, PTL

(* The JSON file is written after .crates.toml: it never gains a version that
   is not listed there. *)
THEOREM NeverAhead == Spec => JsonNeverAhead
<1> DEFINE Behind == \A c \in Crates : \/ json'.recs[c] \in {json.recs[c], json.tail[c], NoVersion}
                                       \/ <<c, json'.recs[c]>> \in toml.entries
<1>1. IInv /\ [Next]_vars => [Behind]_vars
  <2> SUFFICES ASSUME IInv, Next PROVE Behind
    OBVIOUS
  <2>typed. own \in [Binstalls -> Memory] /\ json \in JsonFile
    BY DEF IInv, TypeOK
  <2>1. ASSUME NEW p \in Binstalls, WriteJson(p) PROVE Behind
    <3>1. /\ pc[p] = "write_json" /\ json'.recs = Overlay(own[p].mem, own[p].plan)
          /\ MemFromJson(p) /\ PlanListed(p)
      BY <2>1 DEF WriteJson, IInv, SessionInv
    <3>2. ASSUME NEW c \in Crates, own[p].plan[c] # NoVersion
          PROVE  <<c, own[p].plan[c]>> \in toml.entries
      BY <3>1, <3>2 DEF PlanListed, VersionsOf, Named
    <3>. QED BY <3>1, <3>2 DEF MemFromJson, Overlay
  <2>2. ASSUME NEW p \in Binstalls, Session(p) \/ Die(p), ~WriteJson(p)
        PROVE  json'.recs = json.recs
    BY <2>2, <2>typed
    DEF Session, Open, Install, Update, LockJson, LoadJson, LockToml, LoadToml, Resolved,
        GiveUp, InstallFile, InstallFetch, InstallFails, Reload, WriteToml, TruncToml, TruncJson,
        DropToml, SourceInstall, Die, JsonFile
  <2>3. ForeignEdit \/ Terminated => json'.recs = json.recs
    BY DEF ForeignEdit, Terminated, vars
  <2>. QED BY <2>1, <2>2, <2>3 DEF Next
<1>. QED BY <1>1, Inductive, PTL DEF Spec, JsonNeverAhead

(* .crates.toml implements the set of installed packages: every step of a
   session or of cargo is one request of InstalledSet, or none. *)
THEOREM Refinement == Spec => EditsAreAtomic
<1>1. Init => Installed!Init
  <2> SUFFICES ASSUME Init PROVE Installed!Init OBVIOUS
  <2>1. PICK r \in Records : toml = [entries |-> AsEntries(r), tail |-> {}]
    BY DEF Init
  <2>. QED BY <2>1, EntriesLemma DEF Installed!Init, Installed!Package, Package
<1>2. IInv /\ [Next]_vars => [Installed!Next]_Installed!absvars
  <2> SUFFICES ASSUME IInv, [Next]_vars PROVE Installed!Next \/ UNCHANGED Installed!absvars
    OBVIOUS
  <2>typed. own \in [Binstalls -> Memory] /\ toml \in TomlFile
    BY DEF IInv, TypeOK
  <2>1. ASSUME NEW p \in Binstalls, WriteToml(p) PROVE Installed!Next
    <3> DEFINE batch == AsEntries(own[p].plan)
    <3>1. /\ toml'.entries = Replaced(toml.entries \cup toml.tail, own[p].plan)
          /\ toml'.tail \in {{}, toml.entries}
      <4>1. own[p].fresh = toml.entries \cup toml.tail
        BY <2>1 DEF WriteToml, IInv, SessionInv, ReadBack
      <4>2. PICK tail \in {{}, toml.entries} :
              toml' = [entries |-> Replaced(own[p].fresh, own[p].plan), tail |-> tail]
        BY <2>1 DEF WriteToml
      <4>. QED BY <4>1, <4>2
    <3>2. batch \in SUBSET Package
      BY EntriesLemma, <2>typed DEF Memory
    <3>3. {e[1] : e \in batch} = Named(own[p].plan)
      <4>1. ASSUME NEW e \in batch PROVE e[1] \in Named(own[p].plan)
        BY NoVersionAssumption DEF AsEntries, Named, Package
      <4>2. ASSUME NEW c \in Named(own[p].plan) PROVE \E e \in batch : e[1] = c
        <5>1. c \in Crates /\ own[p].plan[c] \in Versions
          BY <2>typed DEF Named, Memory, Records, VersionOrNone
        <5>2. <<c, own[p].plan[c]>> \in batch
          BY <5>1 DEF AsEntries, Package
        <5>. QED BY <5>2
      <4>. QED BY <4>1, <4>2
    <3>4. Installed!Record(batch)
      BY <3>1, <3>3 DEF Installed!Record, Installed!Edit, Installed!Without, Replaced
    <3>. QED BY <3>2, <3>4 DEF Installed!Next, Installed!Package, Package
  <2>2. ASSUME NEW p \in Binstalls, TruncToml(p) PROVE Installed!Next
    BY <2>2, <2>typed DEF TruncToml, TomlFile, Installed!Next, Installed!Settle
  <2>3. ASSUME NEW c \in Crates, CargoUninstall(c) PROVE Installed!Next
    BY <2>3 DEF CargoUninstall, Installed!Next, Installed!Remove, Installed!Edit,
                Installed!Without
  <2>4. ASSUME NEW c \in Crates, NEW v \in Versions, CargoInstall(c, v) PROVE Installed!Next
    <3>1. PICK old \in SUBSET {c} :
            toml' = [entries |-> {e \in toml.entries \cup toml.tail : e[1] \notin old}
                                   \cup {<<c, v>>},
                     tail |-> {}]
      BY <2>4 DEF CargoInstall
    <3>2. CASE old = {}
      <4>1. Installed!AddBeside(c, v)
        BY <3>1, <3>2 DEF Installed!AddBeside, Installed!Edit, Installed!Without
      <4>. QED BY <4>1 DEF Installed!Next
    <3>3. CASE old = {c}
      <4>1. Installed!Record({<<c, v>>})
        BY <3>1, <3>3 DEF Installed!Record, Installed!Edit, Installed!Without
      <4>2. {<<c, v>>} \in SUBSET Package
        BY DEF Package
      <4>. QED BY <4>1, <4>2 DEF Installed!Next, Installed!Package, Package
    <3>. QED BY <3>2, <3>3
  <2>5. ASSUME NEW p \in Binstalls, NEW c \in Crates, SourceInstall(p, c)
        PROVE  Installed!Next \/ UNCHANGED Installed!absvars
    BY <2>4, <2>5 DEF SourceInstall, Installed!absvars
  <2>6. ASSUME ForeignEdit PROVE Installed!Next
    BY <2>3, <2>4, <2>6 DEF ForeignEdit
  <2>7. ASSUME NEW p \in Binstalls, Session(p) \/ Die(p), ~WriteToml(p), ~TruncToml(p),
               \A c \in Crates : ~SourceInstall(p, c)
        PROVE  toml' = toml
    BY <2>7
    DEF Session, Open, Install, Update, LockJson, LoadJson, LockToml, LoadToml, Resolved,
        GiveUp, InstallFile, InstallFetch, InstallFails, Reload, WriteJson, TruncJson, DropToml, Die
  <2>8. UNCHANGED vars => toml' = toml
    BY DEF vars
  <2>9. toml' = toml => UNCHANGED Installed!absvars
    BY DEF Installed!absvars
  <2>. QED BY <2>1, <2>2, <2>5, <2>6, <2>7, <2>8, <2>9 DEF Next, Terminated
<1>. QED
  BY <1>1, <1>2, Inductive, PTL DEF Spec, EditsAreAtomic, Installed!Spec

-----------------------------------------------------------------------------
(* Torn files.  A tail on a file is the work of a death, unless the session that
   has just written the file is about to cut it off. *)

TomlTorn == toml.tail # {} /\ \A p \in Binstalls : pc[p] # "trunc_toml"
JsonTorn == json.tail # NoRecords /\ \A p \in Binstalls : pc[p] # "trunc_json"

One(b) == IF b THEN 1 ELSE 0

TornInv == One(TomlTorn) + One(JsonTorn) <= deaths

(* A step that is no death tears no file, and a death tears one at most. *)
LEMMA TornStep ==
  ASSUME TypeOK, NEW p \in Binstalls, Session(p)
  PROVE  deaths' = deaths /\ (TomlTorn' => TomlTorn) /\ (JsonTorn' => JsonTorn)
<1>typed. pc \in [Binstalls -> Phase] /\ toml \in TomlFile /\ json \in JsonFile
  BY DEF TypeOK
<1>1. CASE WriteToml(p)
  <2>1. pc'[p] = "trunc_toml" /\ pc[p] = "write_toml" /\ json' = json /\ deaths' = deaths
        /\ \A q \in Binstalls \ {p} : pc'[q] = pc[q]
    BY <1>1, <1>typed DEF WriteToml
  <2>. QED BY <2>1 DEF TomlTorn, JsonTorn
<1>2. CASE TruncToml(p)
  <2>1. /\ toml'.tail = {} /\ json' = json /\ deaths' = deaths
        /\ pc[p] = "trunc_toml" /\ \A q \in Binstalls \ {p} : pc'[q] = pc[q]
    BY <1>2, <1>typed DEF TruncToml, TomlFile
  <2>. QED BY <2>1 DEF TomlTorn, JsonTorn
<1>3. CASE WriteJson(p)
  <2>1. pc'[p] = "trunc_json" /\ pc[p] = "write_json" /\ toml' = toml /\ deaths' = deaths
        /\ \A q \in Binstalls \ {p} : pc'[q] = pc[q]
    BY <1>3, <1>typed DEF WriteJson
  <2>. QED BY <2>1 DEF TomlTorn, JsonTorn
<1>4. CASE TruncJson(p)
  <2>1. /\ json'.tail = NoRecords /\ toml' = toml /\ deaths' = deaths
        /\ pc[p] = "trunc_json" /\ \A q \in Binstalls \ {p} : pc'[q] = pc[q]
    BY <1>4, <1>typed DEF TruncJson, JsonFile
  <2>. QED BY <2>1 DEF TomlTorn, JsonTorn
<1>5. CASE \E c \in Crates : SourceInstall(p, c)
  <2>1. PICK c \in Crates : SourceInstall(p, c)
    BY <1>5
  <2>2. /\ pc[p] = "sources" /\ json' = json /\ deaths' = deaths
        /\ \A q \in Binstalls \ {p} : pc'[q] = pc[q]
    BY <2>1, <1>typed DEF SourceInstall
  <2>3. toml' = toml \/ toml'.tail = {}
    BY <2>1 DEF SourceInstall, CargoInstall
  <2>. QED BY <2>2, <2>3 DEF TomlTorn, JsonTorn
<1>6. CASE Open(p) \/ Install(p) \/ Reload(p) \/ DropToml(p)
  <2>1. toml' = toml /\ json' = json /\ deaths' = deaths
    BY <1>6 DEF Open, Install, LockJson, LoadJson, LockToml, LoadToml, Resolved, GiveUp,
                InstallFile, InstallFetch, InstallFails, Reload, DropToml
  <2>2. pc[p] \notin {"trunc_toml", "trunc_json"} /\ \A q \in Binstalls \ {p} : pc'[q] = pc[q]
    BY <1>6, <1>typed
    DEF Open, Install, LockJson, LoadJson, LockToml, LoadToml, Resolved, GiveUp,
        InstallFile, InstallFetch, InstallFails, Reload, DropToml
  <2>. QED BY <2>1, <2>2 DEF TomlTorn, JsonTorn
<1>. QED BY <1>1, <1>2, <1>3, <1>4, <1>5, <1>6 DEF Session, Update

LEMMA TornDeath ==
  ASSUME TypeOK, NEW p \in Binstalls, Die(p)
  PROVE  deaths' = deaths + 1 /\ ((TomlTorn' => TomlTorn) \/ (JsonTorn' => JsonTorn))
<1>1. /\ toml' = toml /\ json' = json /\ deaths' = deaths + 1
      /\ \A q \in Binstalls \ {p} : pc'[q] = pc[q]
  BY DEF Die, TypeOK
<1>2. pc[p] # "trunc_toml" \/ pc[p] # "trunc_json"
  OBVIOUS
<1>. QED BY <1>1, <1>2 DEF TomlTorn, JsonTorn

LEMMA TornNext == TypeOK /\ TornInv /\ [Next]_vars => TornInv'
<1> SUFFICES ASSUME TypeOK, TornInv, [Next]_vars PROVE TornInv' OBVIOUS
<1>typed. deaths \in Nat
  BY BoundsAssumption DEF TypeOK
<1>1. ASSUME NEW p \in Binstalls, Session(p) PROVE TornInv'
  BY <1>1, <1>typed, TornStep DEF TornInv, One
<1>2. ASSUME NEW p \in Binstalls, Die(p) PROVE TornInv'
  <2>1. deaths' = deaths + 1 /\ ((TomlTorn' => TomlTorn) \/ (JsonTorn' => JsonTorn))
    BY <1>2, TornDeath
  <2>. QED BY <2>1, <1>typed DEF TornInv, One
<1>3. CASE ForeignEdit
  <2>1. toml'.tail = {} /\ json' = json /\ pc' = pc /\ deaths' = deaths
    BY <1>3 DEF ForeignEdit, CargoInstall, CargoUninstall
  <2>2. ~TomlTorn' /\ (JsonTorn' => JsonTorn)
    BY <2>1 DEF TomlTorn, JsonTorn
  <2>. QED BY <2>1, <2>2, <1>typed DEF TornInv, One
<1>4. CASE UNCHANGED vars
  BY <1>4 DEF vars, TornInv, One, TomlTorn, JsonTorn
<1>. QED BY <1>1, <1>2, <1>3, <1>4 DEF Next, Terminated

(* However many sessions write the two files, one that is not locked has a tail only
   if a session has died on it, and each death leaves one at most. *)
THEOREM TornOnlyByDeath == Spec => []TornByDeathOnly
<1>1. Init => TornInv
  BY DEF Init, TornInv, One, TomlTorn, JsonTorn
<1>2. IInv /\ TornInv => TornByDeathOnly
  <2> SUFFICES ASSUME IInv, TornInv PROVE TornByDeathOnly OBVIOUS
  <2>1. /\ tomlLock = NoOwner => \A p \in Binstalls : pc[p] # "trunc_toml"
        /\ jsonLock = NoOwner => \A p \in Binstalls : pc[p] # "trunc_json"
    BY NoOwnerAssumption DEF IInv, LockOwners
  <2>2. deaths \in Nat
    BY BoundsAssumption DEF IInv, TypeOK
  <2>. QED BY <2>1, <2>2 DEF TornInv, TornByDeathOnly, One, TomlTorn, JsonTorn
<1>3. IInv => TypeOK
  BY DEF IInv
<1>. QED BY <1>1, <1>2, <1>3, TornNext, Inductive, PTL DEF Spec

-----------------------------------------------------------------------------
(* The disk.  A crate whose files are not those of one listed version has been
   begun by a session that is still on its way to record it, or by one that never
   will. *)

Matches(c, E) ==
  IF VersionsOf(E, c) = {} THEN disk[c] = {} ELSE \E v \in VersionsOf(E, c) : disk[c] = {v}

(* What is in place is what was planned, all of it when the file is written. *)
PlacedAsPlanned(p) ==
  /\ pc[p] \in Opening \cup {"opened"} => own[p].begun = {} /\ own[p].placed = {}
  /\ pc[p] \in {"installing", "write_toml"} =>
       /\ own[p].placed \subseteq own[p].begun /\ own[p].begun \subseteq Named(own[p].plan)
       /\ \A c \in own[p].placed : disk[c] = {own[p].plan[c]}
  /\ pc[p] = "write_toml" => own[p].placed = Named(own[p].plan)

(* A tail that will be cut off names no crate the new text does not. *)
TailListed(p) ==
  pc[p] = "trunc_toml" =>
    \A c \in Crates : VersionsOf(toml.entries, c) = {} => VersionsOf(toml.tail, c) = {}

Pending(c) ==
  \E p \in Binstalls : pc[p] \in {"installing", "write_toml"} /\ c \in own[p].begun

OnFile == IF \E p \in Binstalls : pc[p] = "trunc_toml"
          THEN toml.entries ELSE toml.entries \cup toml.tail

CrateInv(c) == c \in untracked \/ Pending(c) \/ Matches(c, OnFile)

DiskInv == /\ \A p \in Binstalls : PlacedAsPlanned(p) /\ TailListed(p)
           /\ \A c \in Crates : CrateInv(c)

LEMMA DiskInit == Init => DiskInv
<1> SUFFICES ASSUME Init PROVE DiskInv OBVIOUS
<1>1. PICK r \in Records : /\ toml = [entries |-> AsEntries(r), tail |-> {}]
                           /\ disk = [c \in Crates |-> {r[c]} \ {NoVersion}]
  BY DEF Init
<1>2. \A p \in Binstalls : pc[p] = "start" /\ own[p] = Blank
  BY DEF Init
<1>3. ASSUME NEW c \in Crates PROVE Matches(c, OnFile)
  <2>1. OnFile = AsEntries(r)
    BY <1>1, <1>2 DEF OnFile
  <2>2. r[c] \in Versions \cup {NoVersion}
    BY <1>1 DEF Records, VersionOrNone
  <2>3. VersionsOf(AsEntries(r), c) = {v \in Versions : v = r[c]}
    BY DEF VersionsOf, AsEntries, Package
  <2>. QED BY <1>1, <2>1, <2>2, <2>3, NoVersionAssumption DEF Matches
<1>. QED BY <1>2, <1>3 DEF DiskInv, CrateInv, PlacedAsPlanned, TailListed, Blank, Opening

(* A step of one session, outside the phases that matter, that leaves .crates.toml
   and the disk alone. *)
LEMMA DiskUntouched ==
  ASSUME DiskInv, toml' = toml, disk' = disk, untracked' = untracked,
         NEW p \in Binstalls,
         \A q \in Binstalls \ {p} : pc'[q] = pc[q] /\ own'[q] = own[q],
         pc[p] \notin {"installing", "write_toml", "trunc_toml"},
         pc'[p] \notin {"installing", "write_toml", "trunc_toml"},
         pc'[p] \in Opening \cup {"opened"} => own'[p].begun = {} /\ own'[p].placed = {}
  PROVE  DiskInv'
<1>1. ASSUME NEW q \in Binstalls PROVE PlacedAsPlanned(q)' /\ TailListed(q)'
  BY <1>1 DEF DiskInv, PlacedAsPlanned, TailListed
<1>2. ASSUME NEW c \in Crates PROVE CrateInv(c)'
  <2>1. Pending(c) => Pending(c)'
    BY DEF Pending
  <2>2. OnFile' = OnFile
    BY DEF OnFile
  <2>. QED BY <2>1, <2>2 DEF DiskInv, CrateInv, Matches
<1>. QED BY <1>1, <1>2 DEF DiskInv

(* A session that stops drops what it has placed into the history. *)
LEMMA DiskLeft ==
  ASSUME TypeOK, LockOwners, DiskInv, NEW p \in Binstalls, toml' = toml, disk' = disk,
         NEW to \in Final \cup {"sources"}, pc' = [pc EXCEPT ![p] = to],
         \A q \in Binstalls \ {p} : own'[q] = own[q],
         untracked \subseteq untracked',
         pc[p] \in {"installing", "write_toml"} => own[p].begun \subseteq untracked'
  PROVE  DiskInv'
<1>typed. /\ \A q \in Binstalls \ {p} : pc'[q] = pc[q]
          /\ pc'[p] = to
          /\ to \notin {"installing", "write_toml", "trunc_toml", "opened"} \cup Opening
  BY DEF TypeOK, Final, Opening
<1>1. ASSUME NEW q \in Binstalls PROVE PlacedAsPlanned(q)' /\ TailListed(q)'
  BY <1>typed DEF DiskInv, PlacedAsPlanned, TailListed
<1>2. ASSUME NEW c \in Crates PROVE CrateInv(c)'
  <2>1. CASE c \in untracked
    BY <2>1 DEF CrateInv
  <2>2. CASE Pending(c)
    BY <2>2, <1>typed DEF Pending, CrateInv
  <2>3. CASE Matches(c, OnFile)
    <3>1. CASE pc[p] = "trunc_toml"
      <4>1. OnFile = toml.entries /\ TailListed(p)
        BY <3>1 DEF OnFile, DiskInv
      <4>2. Matches(c, toml.entries \cup toml.tail)
        BY <2>3, <3>1, <4>1 DEF TailListed, Matches, VersionsOf
      <4>3. OnFile' = toml.entries \cup toml.tail
        <5>1. \A q \in Binstalls : pc'[q] # "trunc_toml"
          BY <3>1, <1>typed DEF LockOwners
        <5>. QED BY <5>1 DEF OnFile
      <4>. QED BY <4>2, <4>3 DEF CrateInv, Matches
    <3>2. CASE pc[p] # "trunc_toml"
      <4>1. OnFile' = OnFile
        BY <3>2, <1>typed DEF OnFile
      <4>. QED BY <2>3, <4>1 DEF CrateInv, Matches
    <3>. QED BY <3>1, <3>2
  <2>. QED BY <2>1, <2>2, <2>3 DEF DiskInv, CrateInv
<1>. QED BY <1>1, <1>2 DEF DiskInv

(* While nobody has .crates.toml locked, cargo keeps the disk with the list. *)
LEMMA CargoDisk ==
  ASSUME TypeOK, DiskInv, NEW c \in Crates,
         CargoUninstall(c) \/ \E v \in Versions : CargoInstall(c, v),
         \A q \in Binstalls : pc'[q] \notin TomlPhases /\ pc[q] \notin TomlPhases
  PROVE  \A d \in Crates : CrateInv(d)'
<1>1. OnFile = toml.entries \cup toml.tail /\ OnFile' = toml'.entries \cup toml'.tail
  BY DEF OnFile
<1>typed. toml \in TomlFile /\ disk \in [Crates -> SUBSET Versions]
  BY DEF TypeOK
<1>2. ASSUME NEW d \in Crates \ {c} PROVE CrateInv(d)'
  <2>1. disk'[d] = disk[d] /\ (d \in untracked => d \in untracked')
    BY <1>2, <1>typed DEF CargoUninstall, CargoInstall
  <2>2. VersionsOf(OnFile', d) = VersionsOf(OnFile, d)
    BY <1>1, <1>2 DEF CargoUninstall, CargoInstall, VersionsOf
  <2>3. ~Pending(d)
    BY DEF Pending
  <2>. QED BY <2>1, <2>2, <2>3 DEF DiskInv, CrateInv, Matches
<1>3. CrateInv(c)'
  <2>1. CASE CargoUninstall(c)
    <3>1. disk'[c] = {} /\ VersionsOf(OnFile', c) = {}
      BY <1>1, <1>typed, <2>1 DEF CargoUninstall, VersionsOf
    <3>. QED BY <3>1 DEF CrateInv, Matches
  <2>2. ASSUME NEW v \in Versions, CargoInstall(c, v) PROVE CrateInv(c)'
    <3>1. disk'[c] = {v} /\ v \in VersionsOf(OnFile', c)
      BY <1>1, <1>typed, <2>2 DEF CargoInstall, VersionsOf
    <3>. QED BY <3>1 DEF CrateInv, Matches
  <2>. QED BY <2>1, <2>2
<1>. QED BY <1>2, <1>3

(* No step of a session lets the disk and the list drift apart: while it has
   .crates.toml open nobody else is in the phases that matter. *)
LEMMA DiskStep ==
  ASSUME TypeOK, LockOwners, DiskInv, \A q \in Binstalls : SessionInv(q),
         NEW p \in Binstalls, Session(p) \/ Die(p)
  PROVE  DiskInv'
<1> USE NoVersionAssumption, NoOwnerAssumption
<1>typed. /\ own \in [Binstalls -> Memory] /\ pc \in [Binstalls -> Phase]
          /\ toml \in TomlFile /\ disk \in [Crates -> SUBSET Versions] /\ own[p] \in Memory
  BY DEF TypeOK
<1>others. /\ \A q \in Binstalls \ {p} : pc'[q] = pc[q] /\ own'[q] = own[q]
  BY OthersKept
<1>alone. ASSUME pc[p] \in TomlPhases, NEW q \in Binstalls \ {p} PROVE pc[q] \notin TomlPhases
  BY <1>alone DEF LockOwners
<1>1. CASE LockJson(p) \/ LockToml(p)
  <2>1. /\ pc[p] \in Opening /\ pc'[p] \in {"json_locked", "toml_locked"}
        /\ own' = own /\ toml' = toml /\ disk' = disk /\ untracked' = untracked
    BY <1>1, <1>typed DEF LockJson, LockToml, Opening
  <2>2. own[p].begun = {} /\ own[p].placed = {}
    BY <2>1 DEF DiskInv, PlacedAsPlanned
  <2>. QED BY <2>1, <2>2, <1>others, DiskUntouched DEF Opening
<1>left. ASSUME NEW to \in Final \cup {"sources"}, pc' = [pc EXCEPT ![p] = to],
                toml' = toml, disk' = disk, untracked \subseteq untracked',
                pc[p] \in {"installing", "write_toml"} => own[p].begun \subseteq untracked'
         PROVE  DiskInv'
  BY <1>left, <1>others, DiskLeft
<1>2. CASE LoadJson(p) \/ LoadToml(p)
  <2>1. toml' = toml /\ disk' = disk /\ untracked' = untracked
    BY <1>2 DEF LoadJson, LoadToml
  <2>2. CASE At(p, "json_locked", "failed") \/ At(p, "toml_locked", "failed")
    BY <2>1, <2>2, <1>left DEF Final
  <2>3. ASSUME At(p, "json_locked", "json_loaded") \/ At(p, "toml_locked", "opened"),
               own'[p].begun = own[p].begun /\ own'[p].placed = own[p].placed
        PROVE  DiskInv'
    <3>1. /\ pc[p] \in {"json_locked", "toml_locked"} /\ pc'[p] \in {"json_loaded", "opened"}
      BY <2>3, <1>typed
    <3>2. own[p].begun = {} /\ own[p].placed = {}
      BY <3>1 DEF DiskInv, PlacedAsPlanned, Opening
    <3>. QED BY <2>1, <2>3, <3>1, <3>2, <1>others, DiskUntouched
  <2>4. ASSUME own' = [own EXCEPT ![p].mem = Overlay(json.recs, json.tail)]
        PROVE  own'[p].begun = own[p].begun /\ own'[p].placed = own[p].placed
    BY <2>4, <1>typed DEF Memory
  <2>5. ASSUME NEW s, own' = [own EXCEPT ![p].seen = s, ![p].mem = Retained(own[p].mem, s)]
        PROVE  own'[p].begun = own[p].begun /\ own'[p].placed = own[p].placed
    BY <2>5, <1>typed DEF Memory
  <2>. QED BY <1>2, <2>2, <2>3, <2>4, <2>5 DEF LoadJson, LoadToml
<1>3. CASE Resolved(p)
  <2>1. toml' = toml /\ disk' = disk /\ untracked' = untracked
    BY <1>3 DEF Resolved
  <2>2. ASSUME NEW s, At(p, "opened", IF s = {} THEN "done" ELSE "sources") PROVE DiskInv'
    <3>1. pc[p] = "opened"
      BY <2>2
    <3>. QED BY <2>1, <2>2, <3>1, <1>left DEF Final
  <2>3. ASSUME NEW b, NEW s, At(p, "opened", "installing"),
               own' = [own EXCEPT ![p].plan = b, ![p].sources = s]
        PROVE  DiskInv'
    <3>1. /\ pc[p] = "opened" /\ pc'[p] = "installing" /\ own'[p].begun = own[p].begun /\ own'[p].placed = own[p].placed
      BY <2>3, <1>typed DEF Memory
    <3>2. own[p].begun = {} /\ own[p].placed = {}
      BY <3>1 DEF DiskInv, PlacedAsPlanned
    <3>3. ASSUME NEW q \in Binstalls PROVE PlacedAsPlanned(q)' /\ TailListed(q)'
      BY <2>1, <3>1, <3>2, <1>others DEF DiskInv, PlacedAsPlanned, TailListed, Opening
    <3>4. \A c \in Crates : Pending(c) => Pending(c)'
      BY <3>1, <1>others DEF Pending
    <3>5. OnFile' = OnFile
      BY <2>1, <3>1, <1>others DEF OnFile
    <3>. QED BY <2>1, <3>3, <3>4, <3>5 DEF DiskInv, CrateInv, Matches
  <2>. QED BY <1>3, <2>2, <2>3 DEF Resolved
<1>4. CASE GiveUp(p)
  <2>1. /\ pc[p] = "opened" /\ pc' = [pc EXCEPT ![p] = "failed"]
        /\ toml' = toml /\ disk' = disk /\ untracked' = untracked
    BY <1>4 DEF GiveUp
  <2>. QED BY <2>1, <1>left DEF Final
<1>placing. ASSUME NEW c \in Crates, Placing(p, c), pc' = pc, pc[p] = "installing",
                   toml' = toml, untracked' = untracked,
                   \A d \in Crates \ {c} : disk'[d] = disk[d],
                   own'[p].plan = own[p].plan, own'[p].begun = own[p].begun \cup {c},
                   \/ own'[p].placed = own[p].placed
                   \/ own'[p].placed = own[p].placed \cup {c} /\ disk'[c] = {own[p].plan[c]}
            PROVE  DiskInv'
  <2>1. c \in Named(own[p].plan) \ own[p].placed
    BY <1>placing DEF Placing
  <2>2. \A q \in Binstalls \ {p} : pc[q] \notin TomlPhases
    BY <1>placing, <1>alone
  <2>3. own[p].placed \subseteq Crates
    BY <1>typed DEF Memory
  <2>4. ASSUME NEW q \in Binstalls PROVE PlacedAsPlanned(q)' /\ TailListed(q)'
    <3>1. CASE q = p
      <4>1. /\ own[p].placed \subseteq own[p].begun /\ own[p].begun \subseteq Named(own[p].plan)
            /\ \A d \in own[p].placed : disk[d] = {own[p].plan[d]}
        BY <1>placing DEF DiskInv, PlacedAsPlanned
      <4>2. \A d \in own'[p].placed : disk'[d] = {own[p].plan[d]}
        BY <1>placing, <2>1, <2>3, <4>1
      <4>3. /\ own'[p].placed \subseteq own'[p].begun
            /\ own'[p].begun \subseteq Named(own[p].plan)
        BY <1>placing, <2>1, <4>1
      <4>. QED
        BY <1>placing, <3>1, <4>2, <4>3 DEF PlacedAsPlanned, TailListed, Opening
    <3>2. CASE q # p
      BY <1>placing, <2>2, <3>2, <1>others DEF DiskInv, PlacedAsPlanned, TailListed
    <3>. QED BY <3>1, <3>2
  <2>5. Pending(c)' /\ \A d \in Crates : Pending(d) => Pending(d)'
    BY <1>placing, <1>others DEF Pending
  <2>6. OnFile' = OnFile
    BY <1>placing DEF OnFile
  <2>. QED BY <1>placing, <2>4, <2>5, <2>6 DEF DiskInv, CrateInv, Matches
<1>5. ASSUME NEW c \in Crates, InstallFile(p, c) \/ InstallFetch(p, c) PROVE DiskInv'
  <2>1. CASE InstallFile(p, c)
    <3>1. /\ pc' = pc /\ pc[p] = "installing" /\ toml' = toml /\ untracked' = untracked
          /\ Placing(p, c) /\ \A d \in Crates \ {c} : disk'[d] = disk[d]
          /\ own'[p].placed = own[p].placed /\ own'[p].plan = own[p].plan
          /\ own'[p].begun = own[p].begun \cup {c}
      BY <2>1, <1>typed DEF InstallFile, Memory
    <3>. QED BY <3>1, <1>placing
  <2>2. CASE InstallFetch(p, c)
    <3>1. /\ pc' = pc /\ pc[p] = "installing" /\ toml' = toml /\ untracked' = untracked
          /\ Placing(p, c) /\ \A d \in Crates \ {c} : disk'[d] = disk[d]
          /\ disk'[c] = {own[p].plan[c]}
          /\ own'[p].placed = own[p].placed \cup {c} /\ own'[p].plan = own[p].plan
          /\ own'[p].begun = own[p].begun \cup {c}
      BY <2>2, <1>typed DEF InstallFetch, Memory
    <3>. QED BY <3>1, <1>placing
  <2>. QED BY <1>5, <2>1, <2>2
<1>6. ASSUME NEW c \in Crates, InstallFails(p, c) PROVE DiskInv'
  <2>1. toml' = toml /\ disk' = disk /\ c \in Named(own[p].plan) \ own[p].placed
    BY <1>6 DEF InstallFails, Placing
  <2>2. CASE p \in FailFast
    <3>1. pc' = [pc EXCEPT ![p] = "failed"] /\ untracked' = untracked \cup own[p].begun
      BY <1>6, <2>2 DEF InstallFails
    <3>. QED BY <2>1, <3>1, <1>left DEF Final
  <2>3. CASE p \notin FailFast
    <3>1. /\ pc' = pc /\ pc[p] = "installing"
          /\ untracked' = untracked \cup (own[p].begun \cap {c})
          /\ own'[p].placed = own[p].placed /\ own'[p].begun = own[p].begun \ {c}
          /\ own'[p].plan = [own[p].plan EXCEPT ![c] = NoVersion]
      BY <1>6, <2>3, <1>typed DEF InstallFails, Memory
    <3>2. \A d \in Crates \ {c} : own'[p].plan[d] = own[p].plan[d]
      BY <2>1, <3>1, <1>typed DEF Memory, Records
    <3>3. ASSUME NEW q \in Binstalls PROVE PlacedAsPlanned(q)' /\ TailListed(q)'
      <4>1. CASE q = p
        <5>1. /\ own[p].placed \subseteq own[p].begun /\ own[p].begun \subseteq Named(own[p].plan)
              /\ \A d \in own[p].placed : disk[d] = {own[p].plan[d]}
          BY <3>1 DEF DiskInv, PlacedAsPlanned
        <5>2. own[p].begun \ {c} \subseteq Named(own'[p].plan)
          BY <3>2, <5>1 DEF Named
        <5>3. \A d \in own[p].placed : d \in Crates \ {c}
          BY <2>1, <1>typed DEF Memory
        <5>. QED
          BY <2>1, <3>1, <3>2, <4>1, <5>1, <5>2, <5>3 DEF PlacedAsPlanned, TailListed, Opening
      <4>2. CASE q # p
        BY <2>1, <3>1, <4>2, <1>others DEF DiskInv, PlacedAsPlanned, TailListed
      <4>. QED BY <4>1, <4>2
    <3>4. ASSUME NEW d \in Crates, Pending(d) PROVE Pending(d)' \/ d \in untracked'
      <4>1. PICK q \in Binstalls :
              pc[q] \in {"installing", "write_toml"} /\ d \in own[q].begun
        BY <3>4 DEF Pending
      <4>2. d \in untracked' \/ d \in own'[q].begun
        BY <3>1, <4>1, <1>others
      <4>. QED BY <3>1, <4>1, <4>2 DEF Pending
    <3>5. OnFile' = OnFile
      BY <2>1, <3>1 DEF OnFile
    <3>. QED BY <2>1, <3>1, <3>3, <3>4, <3>5 DEF DiskInv, CrateInv, Matches
  <2>. QED BY <2>2, <2>3
<1>7. CASE Reload(p)
  <2>1. toml' = toml /\ disk' = disk /\ Named(own[p].plan) = own[p].placed
    BY <1>7 DEF Reload
  <2>2. CASE At(p, "installing", "failed") /\ untracked' = untracked \cup own[p].begun
    BY <2>1, <2>2, <1>left DEF Final
  <2>3. CASE /\ At(p, "installing", "write_toml") /\ UNCHANGED untracked
             /\ own' = [own EXCEPT ![p].fresh = toml.entries \cup toml.tail]
    <3>1. /\ pc[p] = "installing" /\ pc'[p] = "write_toml" /\ untracked' = untracked
          /\ own'[p].placed = own[p].placed /\ own'[p].begun = own[p].begun /\ own'[p].plan = own[p].plan
      BY <2>3, <1>typed DEF Memory
    <3>2. ASSUME NEW q \in Binstalls PROVE PlacedAsPlanned(q)' /\ TailListed(q)'
      <4>1. CASE q = p
        BY <2>1, <3>1, <4>1 DEF DiskInv, PlacedAsPlanned, TailListed, Opening
      <4>2. CASE q # p
        BY <2>1, <4>2, <1>others DEF DiskInv, PlacedAsPlanned, TailListed
      <4>. QED BY <4>1, <4>2
    <3>3. \A d \in Crates : Pending(d) => Pending(d)'
      BY <3>1, <1>others DEF Pending
    <3>4. OnFile' = OnFile
      BY <2>1, <3>1, <1>others DEF OnFile
    <3>. QED BY <2>1, <3>1, <3>2, <3>3, <3>4 DEF DiskInv, CrateInv, Matches
  <2>. QED BY <1>7, <2>2, <2>3 DEF Reload
<1>8. CASE WriteToml(p)
  <2>1. /\ pc[p] = "write_toml" /\ pc'[p] = "trunc_toml" /\ own' = own /\ disk' = disk
        /\ toml'.entries = Replaced(own[p].fresh, own[p].plan)
        /\ toml'.tail \in {{}, toml.entries}
        /\ untracked' = untracked \ Named(own[p].plan)
        /\ own[p].fresh = toml.entries \cup toml.tail
    BY <1>8, <1>typed DEF WriteToml, SessionInv, ReadBack
  <2>2. \A q \in Binstalls \ {p} : pc[q] \notin TomlPhases
    BY <2>1, <1>alone
  <2>3. ASSUME NEW c \in Crates \ Named(own[p].plan)
        PROVE  VersionsOf(toml'.entries, c) = VersionsOf(toml.entries \cup toml.tail, c)
    BY <2>1, <1>typed DEF VersionsOf, Replaced, AsEntries, Named, Package, TomlFile, Memory
  <2>4. ASSUME NEW c \in Named(own[p].plan)
        PROVE  VersionsOf(toml'.entries, c) = {own[p].plan[c]}
    <3>1. own[p].plan[c] \in Versions /\ c \in Crates
      BY <1>typed DEF Named, Memory, Records, VersionOrNone
    <3>. QED BY <2>1, <3>1, <1>typed DEF VersionsOf, Replaced, AsEntries, Package, TomlFile
  <2>5. TailListed(p)'
    BY <2>1, <2>3, <2>4 DEF TailListed, VersionsOf
  <2>6. ASSUME NEW q \in Binstalls PROVE PlacedAsPlanned(q)' /\ TailListed(q)'
    <3>1. CASE q = p
      BY <2>1, <2>5, <3>1 DEF PlacedAsPlanned, Opening
    <3>2. CASE q # p
      BY <2>1, <2>2, <3>2, <1>others DEF DiskInv, PlacedAsPlanned, TailListed
    <3>. QED BY <3>1, <3>2
  <2>7. OnFile' = toml'.entries /\ OnFile = toml.entries \cup toml.tail
    BY <2>1, <2>2 DEF OnFile
  <2>8. ASSUME NEW c \in Crates PROVE CrateInv(c)'
    <3>1. CASE c \in Named(own[p].plan)
      <4>1. disk[c] = {own[p].plan[c]}
        BY <2>1, <3>1 DEF DiskInv, PlacedAsPlanned
      <4>. QED BY <2>1, <2>4, <2>7, <3>1, <4>1 DEF CrateInv, Matches
    <3>2. CASE c \notin Named(own[p].plan)
      <4>1. ~Pending(c)
        BY <2>1, <2>2, <3>2 DEF Pending, DiskInv, PlacedAsPlanned
      <4>2. c \in untracked => c \in untracked'
        BY <2>1, <3>2
      <4>3. VersionsOf(OnFile, c)' = VersionsOf(OnFile, c)
        BY <2>3, <2>7, <3>2 DEF VersionsOf
      <4>. QED BY <2>1, <4>1, <4>2, <4>3 DEF DiskInv, CrateInv, Matches
    <3>. QED BY <3>1, <3>2
  <2>. QED BY <2>6, <2>8 DEF DiskInv
<1>9. CASE TruncToml(p)
  <2>1. /\ pc[p] = "trunc_toml" /\ pc'[p] = "write_json" /\ own' = own /\ disk' = disk
        /\ toml'.entries = toml.entries /\ toml'.tail = {} /\ untracked' = untracked
    BY <1>9, <1>typed DEF TruncToml, TomlFile
  <2>2. \A q \in Binstalls \ {p} : pc[q] \notin TomlPhases
    BY <2>1, <1>alone
  <2>3. ASSUME NEW q \in Binstalls PROVE PlacedAsPlanned(q)' /\ TailListed(q)'
    BY <2>1, <2>2, <1>others DEF DiskInv, PlacedAsPlanned, TailListed, Opening
  <2>4. OnFile = toml.entries /\ OnFile' = toml.entries
    BY <2>1, <2>2, <1>others DEF OnFile
  <2>5. \A c \in Crates : Pending(c) => Pending(c)'
    BY <2>1, <1>others DEF Pending
  <2>. QED BY <2>1, <2>3, <2>4, <2>5 DEF DiskInv, CrateInv, Matches
<1>10. CASE WriteJson(p) \/ TruncJson(p)
  <2>1. /\ pc[p] \in {"write_json", "trunc_json"} /\ pc'[p] \in {"trunc_json", "drop_toml"}
        /\ own' = own /\ disk' = disk /\ toml' = toml /\ untracked' = untracked
    BY <1>10, <1>typed DEF WriteJson, TruncJson
  <2>. QED BY <2>1, <1>others, DiskUntouched DEF Opening
<1>11. CASE DropToml(p)
  <2>1. /\ pc[p] = "drop_toml" /\ toml' = toml /\ disk' = disk /\ untracked' = untracked
        /\ \E to \in {"done", "sources"} : pc' = [pc EXCEPT ![p] = to]
    BY <1>11 DEF DropToml
  <2>. QED BY <2>1, <1>left DEF Final
<1>12. ASSUME NEW c \in Crates, SourceInstall(p, c) PROVE DiskInv'
  <2>1. /\ pc[p] = "sources" /\ tomlLock = NoOwner
        /\ \E to \in {"done", "sources"} : pc' = [pc EXCEPT ![p] = to]
    BY <1>12 DEF SourceInstall
  <2>2. CASE UNCHANGED <<toml, disk, untracked>>
    BY <2>1, <2>2, <1>left DEF Final
  <2>3. CASE \E v \in Versions : CargoInstall(c, v)
    <3>1. \A q \in Binstalls : pc'[q] \notin TomlPhases /\ pc[q] \notin TomlPhases
      BY <2>1, <1>typed, NoOwnerAssumption DEF LockOwners
    <3>2. ASSUME NEW q \in Binstalls PROVE PlacedAsPlanned(q)' /\ TailListed(q)'
      <4>1. pc'[q] \in Opening \cup {"opened"} => own'[q].begun = {} /\ own'[q].placed = {}
        BY <2>1, <1>typed, <1>others DEF DiskInv, PlacedAsPlanned, Opening
      <4>. QED BY <3>1, <4>1 DEF PlacedAsPlanned, TailListed
    <3>. QED BY <2>3, <3>1, <3>2, CargoDisk DEF DiskInv
  <2>. QED BY <1>12, <2>2, <2>3 DEF SourceInstall
<1>13. CASE Die(p)
  <2>1. /\ pc' = [pc EXCEPT ![p] = "failed"] /\ toml' = toml /\ disk' = disk
        /\ untracked' = IF pc[p] \in {"installing", "write_toml"}
                        THEN untracked \cup own[p].begun ELSE untracked
    BY <1>13 DEF Die
  <2>. QED BY <2>1, <1>left DEF Final
<1>. QED
  BY <1>1, <1>2, <1>3, <1>4, <1>5, <1>6, <1>7, <1>8, <1>9, <1>10, <1>11, <1>12, <1>13
  DEF Session, Open, Install, Update

LEMMA DiskNext == IInv /\ DiskInv /\ [Next]_vars => DiskInv'
<1> SUFFICES ASSUME IInv, DiskInv, [Next]_vars PROVE DiskInv' OBVIOUS
<1>1. TypeOK /\ LockOwners /\ \A q \in Binstalls : SessionInv(q)
  BY DEF IInv
<1>2. ASSUME NEW p \in Binstalls, Session(p) \/ Die(p) PROVE DiskInv'
  BY <1>1, <1>2, DiskStep
<1>3. CASE ForeignEdit
  <2>1. pc' = pc /\ own' = own /\ tomlLock = NoOwner
    BY <1>3 DEF ForeignEdit, CargoInstall, CargoUninstall
  <2>2. \A q \in Binstalls : pc[q] \notin TomlPhases
    BY <1>1, <2>1, NoOwnerAssumption DEF LockOwners
  <2>3. ASSUME NEW q \in Binstalls PROVE PlacedAsPlanned(q)' /\ TailListed(q)'
    BY <2>1, <2>2 DEF DiskInv, PlacedAsPlanned, TailListed
  <2>. QED BY <1>1, <1>3, <2>1, <2>2, <2>3, CargoDisk DEF ForeignEdit, DiskInv
<1>4. CASE UNCHANGED vars
  <2>1. ASSUME NEW q \in Binstalls PROVE PlacedAsPlanned(q)' /\ TailListed(q)'
    BY <1>4 DEF vars, DiskInv, PlacedAsPlanned, TailListed
  <2>2. ASSUME NEW c \in Crates PROVE CrateInv(c)'
    BY <1>4 DEF vars, DiskInv, CrateInv, Pending, OnFile, Matches
  <2>. QED BY <2>1, <2>2 DEF DiskInv
<1>. QED BY <1>2, <1>3, <1>4 DEF Next, Terminated

(* While nobody has .crates.toml locked, the files each crate has in place are those
   of one listed version, but for crates a session placed a file of and then failed
   to install, or stopped before it recorded them. *)
THEOREM DiskAgrees == Spec => []DiskMatchesToml
<1>1. IInv /\ DiskInv => DiskMatchesToml
  <2> SUFFICES ASSUME IInv, DiskInv, tomlLock = NoOwner, NEW c \in Crates \ untracked
               PROVE  Matches(c, toml.entries \cup toml.tail)
    BY DEF DiskMatchesToml, Matches
  <2>1. \A p \in Binstalls : pc[p] \notin TomlPhases
    BY NoOwnerAssumption DEF IInv, LockOwners
  <2>. QED BY <2>1 DEF DiskInv, CrateInv, Pending, OnFile
<1>. QED BY <1>1, DiskInit, DiskNext, Inductive, PTL DEF Spec

-----------------------------------------------------------------------------
(* Startup: the settings that sessions load, ask for and save before they open the
   records. *)

startupVars == <<records, settings, deaths>>

Consents(t) == t.consent_asked /\ t.enabled

SettingsRecord == [telemetry : S!Telemetry, rest : Nat]
SettingsFile == [settings : SettingsRecord, longer : BOOLEAN,
                 tail : {"none", "blank", "broken", "no file"}]

(* Whoever knows of a consent has it from somebody who gave it; an answer that is
   about to be saved has been given. *)
SettingsInv ==
  /\ mem \in [Binstalls -> SettingsRecord] /\ file \in SettingsFile
  /\ at \in [Binstalls -> {"load", "create", "open", "asking", "save", "cut", "ready", "failed"}]
  /\ agreed \in BOOLEAN
  /\ Consents(file.settings.telemetry) => agreed
  /\ \A p \in Binstalls : /\ Consents(mem[p].telemetry) => agreed
                          /\ at[p] \in {"save", "cut"} => mem[p].telemetry.consent_asked

LEMMA CountsUp ==
  ASSUME NEW n \in Nat
  PROVE  n + 1 \in Nat /\ n >= n /\ n + 1 >= n /\ n + 1 # n
OBVIOUS

LEMMA FileLemma ==
  ASSUME NEW s \in SettingsRecord, NEW t \in {"none", "blank", "broken", "no file"}
  PROVE  LET f == [S!Written(s) EXCEPT !.tail = t]
         IN  f \in SettingsFile /\ f.settings = s /\ f.tail = t
<1> DEFINE w == [settings |-> s, longer |-> FALSE, tail |-> "none"]
<1>1. S!Written(s) = w
  BY Zenon DEF S!Written
<1>2. LET f == [w EXCEPT !.tail = t]
      IN  f \in SettingsFile /\ f.settings = s /\ f.tail = t
  BY DEF SettingsFile
<1>. QED BY <1>1, <1>2, Zenon

LEMMA WrittenLemma ==
  ASSUME NEW s \in SettingsRecord
  PROVE  S!Written(s) \in SettingsFile /\ S!Written(s).settings = s
<1>1. S!Written(s) = [settings |-> s, longer |-> FALSE, tail |-> "none"]
  BY Zenon DEF S!Written
<1>. QED BY <1>1 DEF SettingsFile

LEMMA DefaultLemma ==
  /\ S!Default \in SettingsRecord /\ ~Consents(S!Default.telemetry)
  /\ S!Absent \in SettingsFile /\ S!Absent.settings = S!Default /\ S!Absent.tail = "no file"
<1>1. S!Default \in SettingsRecord /\ ~Consents(S!Default.telemetry)
  BY DEF S!Default, SettingsRecord, S!Telemetry, Consents
<1>. QED BY <1>1, FileLemma, Zenon DEF S!Absent

LEMMA SettingsInit == StartupInit => SettingsInv
<1> SUFFICES ASSUME S!Init PROVE SettingsInv
  BY DEF StartupInit
<1>1. CASE file \in {S!Absent, S!Written(S!Default)} /\ agreed = FALSE
  <2>1. file \in SettingsFile /\ file.settings = S!Default
    BY <1>1, DefaultLemma, WrittenLemma
  <2>. QED BY <1>1, <2>1, DefaultLemma DEF S!Init, SettingsInv
<1>2. CASE /\ file = S!Written([S!Default EXCEPT !.telemetry.consent_asked = TRUE])
           /\ agreed = TRUE
  <2>1. [S!Default EXCEPT !.telemetry.consent_asked = TRUE] \in SettingsRecord
    BY DEF S!Default, SettingsRecord, S!Telemetry
  <2>2. file \in SettingsFile
    BY <1>2, <2>1, WrittenLemma
  <2>. QED BY <1>2, <2>2, DefaultLemma DEF S!Init, SettingsInv
<1>. QED BY <1>1, <1>2 DEF S!Init

LEMMA SettingsStart ==
  ASSUME SettingsInv, NEW p \in Binstalls, S!Start(p)
  PROVE  SettingsInv'
<1> USE DEF S!Go
<1>1. CASE S!CheckExists(p) \/ S!SaveFails(p)
  BY <1>1 DEF S!CheckExists, S!SaveFails, SettingsInv
<1>loaded. ASSUME NEW s \in SettingsRecord, Consents(s.telemetry) => agreed,
                  S!Loaded(p, s), file' = file \/ file' = S!Written(S!Default)
           PROVE  SettingsInv'
  <2>1. file' \in SettingsFile /\ (Consents(file'.settings.telemetry) => agreed)
    BY <1>loaded, DefaultLemma, WrittenLemma DEF SettingsInv
  <2>. QED BY <1>loaded, <2>1 DEF S!Loaded, SettingsInv
<1>2. CASE S!Create(p)
  <2>1. CASE S!Loaded(p, S!Default) /\ file' = S!Written(S!Default)
    BY <2>1, <1>loaded, DefaultLemma
  <2>2. CASE at' = [at EXCEPT ![p] = "open"] /\ UNCHANGED <<file, mem, agreed>>
    BY <2>2 DEF SettingsInv
  <2>. QED BY <1>2, <2>1, <2>2 DEF S!Create
<1>3. CASE S!Read(p)
  BY <1>3, <1>loaded DEF S!Read, SettingsInv, SettingsFile
<1>4. CASE S!LoadFails(p)
  <2>1. CASE S!Loaded(p, S!Default) /\ file' = file
    BY <2>1, <1>loaded, DefaultLemma
  <2>2. CASE at' = [at EXCEPT ![p] = "failed"] /\ UNCHANGED <<file, mem, agreed>>
    BY <2>2 DEF SettingsInv
  <2>. QED BY <1>4, <2>1, <2>2 DEF S!LoadFails
<1>5. CASE S!Answer(p)
  <2>1. PICK yes \in BOOLEAN :
          /\ mem' = [mem EXCEPT ![p].telemetry = [consent_asked |-> TRUE, enabled |-> yes]]
          /\ agreed' = (agreed \/ yes)
    BY <1>5 DEF S!Answer
  <2>2. /\ mem'[p] \in SettingsRecord
        /\ mem'[p].telemetry = [consent_asked |-> TRUE, enabled |-> yes]
        /\ \A q \in Binstalls \ {p} : mem'[q] = mem[q]
        /\ mem' \in [Binstalls -> SettingsRecord]
    BY <2>1 DEF SettingsInv, SettingsRecord, S!Telemetry
  <2>3. file' = file /\ at' = [at EXCEPT ![p] = "save"]
    BY <1>5 DEF S!Answer
  <2>. QED BY <2>1, <2>2, <2>3 DEF SettingsInv, Consents
<1>6. CASE S!Save(p)
  <2>1. /\ mem' = mem /\ agreed' = agreed /\ at' = [at EXCEPT ![p] = "cut"] /\ at[p] = "save"
        /\ \E tail \in {"none", "blank", "broken"} :
             file' = [S!Written(S!Saved(p)) EXCEPT !.tail = tail]
    BY <1>6, Zenon DEF S!Save
  <2>2. /\ S!Saved(p) \in SettingsRecord
        /\ S!Saved(p).telemetry = mem[p].telemetry
    BY DEF S!Saved, SettingsInv, SettingsRecord, SettingsFile
  <2>3. file' \in SettingsFile /\ file'.settings = S!Saved(p)
    <3>1. PICK tail \in {"none", "blank", "broken"} :
            file' = [S!Written(S!Saved(p)) EXCEPT !.tail = tail]
      BY <2>1
    <3>2. tail \in {"none", "blank", "broken", "no file"}
      OBVIOUS
    <3>. QED BY <2>2, <3>1, <3>2, FileLemma, Zenon
  <2>. QED BY <2>1, <2>2, <2>3 DEF SettingsInv
<1>7. CASE S!Cut(p)
  <2>1. /\ mem' = mem /\ agreed' = agreed /\ at' = [at EXCEPT ![p] = "ready"]
        /\ file' \in SettingsFile /\ file'.settings = file.settings
    BY <1>7 DEF S!Cut, SettingsInv, SettingsFile
  <2>. QED BY <2>1 DEF SettingsInv
<1>. QED BY <1>1, <1>2, <1>3, <1>4, <1>5, <1>6, <1>7 DEF S!Start, S!Load

LEMMA SettingsNext == SettingsInv /\ [StartupNext]_startupVars => SettingsInv'
<1> SUFFICES ASSUME SettingsInv, [StartupNext]_startupVars PROVE SettingsInv' OBVIOUS
<1>1. ASSUME NEW p \in Binstalls, Starts(p) PROVE SettingsInv'
  BY <1>1, SettingsStart DEF Starts
<1>2. CASE UNCHANGED settings
  BY <1>2 DEF settings, SettingsInv
<1>3. ASSUME NEW p \in Binstalls, S!Killed(p) PROVE SettingsInv'
  BY <1>3 DEF S!Killed, S!Go, SettingsInv
<1>4. CASE S!UserEdits
  <2>1. PICK t \in S!Telemetry, longer \in BOOLEAN :
          /\ file' = [settings |-> [telemetry |-> t, rest |-> file.settings.rest + 1],
                      longer |-> longer, tail |-> "none"]
          /\ agreed' = (agreed \/ (t.consent_asked /\ t.enabled))
    BY <1>4 DEF S!UserEdits
  <2> DEFINE edited == [telemetry |-> t, rest |-> file.settings.rest + 1]
  <2>picked. t \in S!Telemetry /\ longer \in BOOLEAN
    BY <2>1
  <2>e. edited \in SettingsRecord /\ edited.telemetry = t
    <3>1. file.settings.rest \in Nat
      BY DEF SettingsInv, SettingsFile, SettingsRecord
    <3>2. file.settings.rest + 1 \in Nat
      BY <3>1, CountsUp, Zenon
    <3>. QED BY <2>picked, <3>2 DEF SettingsRecord
  <2>. HIDE DEF edited
  <2>2. file' \in SettingsFile /\ file'.settings.telemetry = t
    <3>1. file' = [settings |-> edited, longer |-> longer, tail |-> "none"]
      BY <2>1 DEF edited
    <3>. QED BY <2>e, <2>picked, <3>1 DEF SettingsFile
  <2>3. agreed' \in BOOLEAN /\ (agreed => agreed') /\ (Consents(t) => agreed')
    BY <2>1 DEF Consents, SettingsInv
  <2>4. at' = at /\ mem' = mem
    BY <1>4 DEF S!UserEdits
  <2>. QED BY <2>2, <2>3, <2>4 DEF SettingsInv
<1>5. ASSUME NEW p \in Binstalls, Works(p) \/ (Die(p) /\ UNCHANGED settings) PROVE SettingsInv'
  BY <1>2, <1>5 DEF Works
<1>6. CASE AllOver \/ UNCHANGED startupVars
  BY <1>2, <1>6 DEF AllOver, startupVars
<1>. QED BY <1>1, <1>3, <1>4, <1>5, <1>6 DEF StartupNext, Dies

LEMMA SettingsInvariant == StartupSpec => []SettingsInv
BY SettingsInit, SettingsNext, PTL DEF StartupSpec, startupVars

(* Whatever sessions start, die or are edited around, no telemetry is reported to
   which nobody has agreed. *)
THEOREM ConsentFirst == StartupSpec => []ReportsConsented
<1>1. SettingsInv => ReportsConsented
  BY DEF SettingsInv, ReportsConsented, S!ReportsConsented, S!Reports, Consents
<1>. QED BY <1>1, SettingsInvariant, PTL

(* What the user has set, and that he has been asked, is never undone by a session. *)
THEOREM SettingsStay == StartupSpec => SettingsKept
<1> DEFINE Stays ==
      file # S!Absent =>
        /\ file' # S!Absent
        /\ file'.settings.rest >= file.settings.rest
        /\ file.settings.telemetry.consent_asked /\ file'.settings.rest = file.settings.rest =>
             file'.settings.telemetry.consent_asked
<1>1. SettingsInv /\ [StartupNext]_startupVars => [Stays]_S!vars
  <2> SUFFICES ASSUME SettingsInv, [StartupNext]_startupVars, file # S!Absent
               PROVE Stays
    OBVIOUS
  <2>typed. file \in SettingsFile /\ file.settings.rest \in Nat
    BY DEF SettingsInv, SettingsFile, SettingsRecord
  <2>1. CASE file' = file
    <3>1. file'.settings.rest >= file.settings.rest
      BY <2>1, <2>typed
    <3>. QED BY <2>1, <3>1, Zenon
  <2>absent. ASSUME file'.tail # "no file" PROVE file' # S!Absent
    BY <2>absent, DefaultLemma, Zenon
  <2>asked. ASSUME file'.tail # "no file",
                   file'.settings.rest = file.settings.rest,
                   file.settings.telemetry.consent_asked =>
                     file'.settings.telemetry.consent_asked
            PROVE  Stays
    <3>1. file'.settings.rest >= file.settings.rest
      BY <2>typed, <2>asked, CountsUp, Zenon
    <3>. QED BY <3>1, <2>absent, <2>asked, Zenon
  <2>2. ASSUME NEW p \in Binstalls, S!Save(p) PROVE Stays
    <3>1. PICK tail \in {"none", "blank", "broken"} :
            file' = [S!Written(S!Saved(p)) EXCEPT !.tail = tail]
      BY <2>2, Zenon DEF S!Save
    <3>2. /\ S!Saved(p) \in SettingsRecord
          /\ S!Saved(p).telemetry = mem[p].telemetry
          /\ S!Saved(p).rest = file.settings.rest
      BY DEF S!Saved, SettingsInv, SettingsRecord, SettingsFile
    <3>3. tail \in {"none", "blank", "broken", "no file"} /\ tail # "no file"
      OBVIOUS
    <3>4. file'.settings = S!Saved(p) /\ file'.tail = tail
      BY <3>1, <3>2, <3>3, FileLemma, Zenon
    <3>5. mem[p].telemetry.consent_asked
      BY <2>2 DEF S!Save, SettingsInv
    <3>. QED BY <2>asked, <3>2, <3>3, <3>4, <3>5, Zenon
  <2>3. ASSUME NEW p \in Binstalls, S!Cut(p) PROVE Stays
    <3>1. file'.settings = file.settings /\ file'.tail # "no file"
      BY <2>3, <2>typed DEF S!Cut, SettingsFile
    <3>. QED BY <3>1, <2>asked, Zenon
  <2>4. ASSUME NEW p \in Binstalls, S!Start(p), ~S!Save(p), ~S!Cut(p) PROVE file' = file
    BY <2>4 DEF S!Start, S!Load, S!CheckExists, S!Create, S!Read, S!LoadFails, S!Answer,
                S!SaveFails
  <2>5. CASE S!UserEdits
    <3>1. file'.settings.rest = file.settings.rest + 1 /\ file'.tail # "no file"
      BY <2>5 DEF S!UserEdits
    <3>2. /\ file'.settings.rest >= file.settings.rest
          /\ file'.settings.rest # file.settings.rest
      BY <3>1, <2>typed, CountsUp, Zenon
    <3>. QED BY <3>1, <3>2, <2>absent, Zenon
  <2>6. ASSUME NEW p \in Binstalls, Works(p) \/ Dies(p) PROVE file' = file
    BY <2>6 DEF Works, Dies, settings, S!Killed
  <2>7. AllOver \/ UNCHANGED startupVars => file' = file
    BY DEF AllOver, startupVars, settings
  <2>. QED BY <2>1, <2>2, <2>3, <2>4, <2>5, <2>6, <2>7 DEF StartupNext, Starts
<1>. QED
  BY <1>1, SettingsInvariant, PTL DEF StartupSpec, startupVars, SettingsKept, S!SettingsKept
=============================================================================
