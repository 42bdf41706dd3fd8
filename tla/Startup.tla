------------------------------ MODULE Startup ------------------------------
(* Sessions from their start to their end, as far as they meet in files: each
   goes through the settings (Settings) and then opens the records and works with
   them (ManifestStore).  Three locks are taken in all, that of the settings
   being given back before the others are asked for. *)
EXTENDS ManifestStore

CONSTANTS
  Explicit,    \* the sessions run with --settings
  MaxUserEdits \* bound: edits of the settings by the user

ASSUME ExplicitAssumption == Explicit \subseteq Binstalls
ASSUME UserEditsAssumption == MaxUserEdits \in Nat

VARIABLES quiet, file, owner, at, mem, agreed

S == INSTANCE Settings

records == <<jsonLock, tomlLock, toml, json, disk, pc, own, untracked, edits>>
settings == <<quiet, file, owner, at, mem, agreed>>

StartupInit == Init /\ S!Init

Starts(p) == S!Start(p) /\ UNCHANGED records

(* initialise opens the records once the settings are known; none of what
   initialise does in between is shared. *)
Works(p) == at[p] = "ready" /\ Session(p) /\ UNCHANGED settings

Dies(p) ==
  \/ S!Killed(p) /\ UNCHANGED records
  \/ at[p] = "ready" /\ Die(p) /\ UNCHANGED settings

Over(p) == at[p] = "failed" \/ pc[p] \in Final

AllOver == (\A p \in Binstalls : Over(p)) /\ UNCHANGED <<records, settings, deaths>>

StartupNext == \/ (\E p \in Binstalls : Starts(p) \/ Works(p) \/ Dies(p))
               \/ S!UserEdits /\ UNCHANGED records
               \/ AllOver

(* A session runs on by itself; nobody must kill it, edit its settings or run
   another cargo. *)
StartupSpec ==
  /\ StartupInit /\ [][StartupNext]_<<records, settings, deaths>>
  /\ \A p \in Binstalls : WF_<<records, settings, deaths>>(Starts(p) \/ Works(p))

-----------------------------------------------------------------------------
(* Properties *)

(* What the user has set, and that he has been asked, stays in the file. *)
SettingsKept == S!SettingsKept

(* Nothing is reported that nobody has agreed to. *)
ReportsConsented == S!ReportsConsented

(* Every session ends: none waits for one of the three locks, or for a cargo
   install that waits for a lock, for ever. *)
SessionsEnd == \A p \in Binstalls : <>Over(p)
=============================================================================
