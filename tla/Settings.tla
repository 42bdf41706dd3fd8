------------------------------ MODULE Settings ------------------------------
(* The settings file (crates/bin/src/settings.rs) and what initialise does with
   it, in sessions that start at the same time, while a user may edit the file.
   A session loads the settings, or creates the file with the defaults; asks for
   consent to telemetry if nobody has answered yet; and puts the answer into the
   file as it is by then. *)
EXTENDS Naturals

CONSTANTS
  Binstalls,   \* sessions
  Explicit,    \* those run with --settings
  NoOwner,     \* owner of an unlocked file
  MaxDeaths,   \* bound: sessions that die or fail on I/O
  MaxUserEdits \* bound: edits by the user

VARIABLES
  quiet,  \* sessions run with an option that forbids the question, as --no-confirm
  file,   \* the settings file
  owner,  \* who has locked it exclusively
  at,     \* where each session is
  mem,    \* the settings of each session
  agreed, \* history: somebody has agreed to telemetry
  deaths

vars == <<quiet, file, owner, at, mem, agreed, deaths>>

Telemetry == [consent_asked : BOOLEAN, enabled : BOOLEAN]
Default == [telemetry |-> [consent_asked |-> FALSE, enabled |-> TRUE], rest |-> 0]

(* A file has settings, among them telemetry; rest counts the edits of the user it
   holds.  After an edit its text may be longer than what a session writes, with
   comments for instance.  tail is what is left behind a text that is not cut off:
   blank and comments, or what is no TOML any more. *)
Written(settings) == [settings |-> settings, longer |-> FALSE, tail |-> "none"]
Absent == [Written(Default) EXCEPT !.tail = "no file"]

Before == {"load", "create", "open", "asking", "save", "cut"}

Init ==
  /\ quiet \in SUBSET Binstalls \ {Binstalls}
  /\ \/ file \in {Absent, Written(Default)} /\ agreed = FALSE
     \/ file = Written([Default EXCEPT !.telemetry.consent_asked = TRUE]) /\ agreed = TRUE
  /\ owner = NoOwner
  /\ at = [p \in Binstalls |-> "load"]
  /\ mem = [p \in Binstalls |-> Default]
  /\ deaths = 0

Go(p, to) == at' = [at EXCEPT ![p] = to]

-----------------------------------------------------------------------------
(* settings::load *)

(* initialise asks unless it must not or somebody has answered. *)
Loaded(p, settings) ==
  /\ mem' = [mem EXCEPT ![p] = settings]
  /\ Go(p, IF p \in quiet \/ settings.telemetry.consent_asked THEN "ready" ELSE "asking")
  /\ UNCHANGED <<quiet, owner, agreed, deaths>>

CheckExists(p) ==
  /\ at[p] = "load"
  /\ Go(p, IF file = Absent THEN "create" ELSE "open")
  /\ UNCHANGED <<quiet, file, owner, mem, agreed, deaths>>

(* persist_noclobber: the file may have come into being meanwhile. *)
Create(p) ==
  /\ at[p] = "create"
  /\ IF file = Absent
     THEN file' = Written(Default) /\ Loaded(p, Default)
     ELSE Go(p, "open") /\ UNCHANGED <<quiet, file, owner, mem, agreed, deaths>>

(* The shared lock lasts while the file is read. *)
Read(p) ==
  /\ at[p] = "open"
  /\ owner = NoOwner /\ file.tail # "broken"
  /\ Loaded(p, file.settings)
  /\ UNCHANGED file

(* The directory, the file or its text is of no use: that is an error if the path
   was given, otherwise the defaults are taken. *)
LoadFails(p) ==
  /\ at[p] \in {"load", "create", "open"}
  /\ IF p \in Explicit
     THEN Go(p, "failed") /\ UNCHANGED <<quiet, owner, mem, agreed, deaths>>
     ELSE Loaded(p, Default)
  /\ UNCHANGED file

-----------------------------------------------------------------------------
(* The question of initialise, and Settings::save *)

Answer(p) ==
  /\ at[p] = "asking"
  /\ Go(p, "save")
  /\ \E yes \in BOOLEAN :
       /\ mem' = [mem EXCEPT ![p].telemetry = [consent_asked |-> TRUE, enabled |-> yes]]
       /\ agreed' = (agreed \/ yes)
  /\ UNCHANGED <<quiet, file, owner, deaths>>

(* Mutant: the settings are written as they were loaded. *)
SavedAsLoaded(p) == mem[p]

(* What is saved: the answer, and the rest as it is in the file. *)
Saved(p) == [file.settings EXCEPT !.telemetry = mem[p].telemetry]

(* Under the exclusive lock: read, rewind, write. *)
Save(p) ==
  /\ at[p] = "save"
  /\ owner = NoOwner /\ file # Absent /\ file.tail # "broken"
  /\ owner' = p
  /\ \E tail \in {"none", "blank"} \cup (IF file.longer THEN {"broken"} ELSE {}) :
       file' = [Written(Saved(p)) EXCEPT !.tail = tail]
  /\ Go(p, "cut")
  /\ UNCHANGED <<quiet, mem, agreed, deaths>>

(* set_len, and the drop of the file unlocks it. *)
Cut(p) ==
  /\ at[p] = "cut"
  /\ file' = [file EXCEPT !.tail = "none"]
  /\ owner' = NoOwner
  /\ Go(p, "ready")
  /\ UNCHANGED <<quiet, mem, agreed, deaths>>

(* An answer that cannot be saved ends the session. *)
SaveFails(p) ==
  /\ at[p] = "save" /\ owner = NoOwner
  /\ Go(p, "failed")
  /\ UNCHANGED <<quiet, file, owner, mem, agreed, deaths>>

-----------------------------------------------------------------------------

(* Killed, or failed on I/O half-way. *)
Killed(p) ==
  /\ deaths < MaxDeaths
  /\ deaths' = deaths + 1
  /\ at[p] \in Before
  /\ Go(p, "failed")
  /\ owner' = IF owner = p THEN NoOwner ELSE owner
  /\ UNCHANGED <<quiet, file, mem, agreed>>

(* The user edits the file by hand, as the question says he may; not in the very
   moment in which a session holds the lock his editor does not ask for. *)
UserEdits ==
  /\ file # Absent /\ file.settings.rest < MaxUserEdits
  /\ owner = NoOwner
  /\ \E t \in Telemetry, longer \in BOOLEAN :
       /\ file' = [settings |-> [telemetry |-> t, rest |-> file.settings.rest + 1],
                   longer |-> longer, tail |-> "none"]
       /\ agreed' = (agreed \/ (t.consent_asked /\ t.enabled))
  /\ UNCHANGED <<quiet, owner, at, mem, deaths>>

Load(p) == CheckExists(p) \/ Create(p) \/ Read(p) \/ LoadFails(p)
Start(p) == Load(p) \/ Answer(p) \/ Save(p) \/ Cut(p) \/ SaveFails(p)

(* Mutant: whether the user has been asked does not matter. *)
ReportsByDefault(p) == mem[p].telemetry.enabled

(* Settings::merge_args, which no session undoes. *)
Reports(p) == mem[p].telemetry.enabled /\ mem[p].telemetry.consent_asked

-----------------------------------------------------------------------------
(* Properties *)

(* Whatever sessions do at the same time, what the user has set stays in the
   file, and so does the fact that he has been asked: neither the defaults of a
   session that creates the file nor the settings one has loaded before its
   question replace them. *)
SettingsKept ==
  [][file # Absent =>
       /\ file' # Absent
       /\ file'.settings.rest >= file.settings.rest
       /\ file.settings.telemetry.consent_asked /\ file'.settings.rest = file.settings.rest =>
            file'.settings.telemetry.consent_asked]_vars

(* Nothing is reported unless somebody has agreed to it, in this session, in an
   earlier one or by hand: a file with the defaults does not count. *)
ReportsConsented == \A p \in Binstalls : at[p] = "ready" /\ Reports(p) => agreed
=============================================================================
