---------------------------- MODULE InstalledSet ----------------------------
(***************************************************************************)
(* What .crates.toml promises to everybody who shares a cargo root: a set  *)
(* of installed packages that is edited one request at a time.  A request  *)
(* (a cargo-binstall session, a cargo install, a cargo uninstall) replaces *)
(* the entries of the crates it names and leaves every other entry alone.  *)
(*                                                                         *)
(* The file is overwritten in place and shortened afterwards, so an edit   *)
(* that is interrupted in between leaves the end of the old content behind *)
(* the new one.  A later edit either finds the file unreadable (and does   *)
(* nothing) or reads the leftover entries as well.                         *)
(***************************************************************************)
CONSTANTS Crates,   \* crate names
          Versions  \* crate versions

VARIABLES installed, \* the packages listed, as pairs <<name, version>>
          leftover   \* old entries behind the end of the last edit

absvars == <<installed, leftover>>

Package == Crates \X Versions

Without(S, names) == {e \in S : e[1] \notin names}

Init == /\ installed \in SUBSET Package
        /\ leftover = {}

\* One request: the entries of names are replaced by added.
Edit(names, added) ==
  /\ installed' = Without(installed \cup leftover, names) \cup added
  /\ leftover' \in {{}, installed}

\* A session records a batch; a crate is removed; an entry is added beside others.
Record(batch) == Edit({e[1] : e \in batch}, batch)
Remove(c) == Edit({c}, {})
AddBeside(c, v) == Edit({}, {<<c, v>>})

\* The file is cut off at the end of the new content.
Settle == /\ leftover' = {}
          /\ UNCHANGED installed

Next == \/ \E batch \in SUBSET Package : Record(batch)
        \/ \E c \in Crates : Remove(c) \/ \E v \in Versions : AddBeside(c, v)
        \/ Settle

Spec == Init /\ [][Next]_absvars
=============================================================================
