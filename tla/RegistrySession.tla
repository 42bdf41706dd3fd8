-------------------------- MODULE RegistrySession --------------------------
(* A session and its registry: first the configuration is loaded and registry and
   token are found (RegistryConfig), then its tasks look crates up in that registry,
   all with that token (CrateRegistry). *)
EXTENDS RegistryConfig, CrateRegistry

SessionInit == Init /\ ConfigInit

Configures == (Load \/ Resolve) /\ UNCHANGED vars

(* ResolvedRegistry::new *)
Resolved == HandOver /\ Opened(auth)

LooksUp == Lookups /\ kind # "none" /\ UNCHANGED loading

(* An error of the configuration ends the session; a circle of registries keeps it
   from going on. *)
Refused == phase \in {"failed", "endless"}
Stays == Refused /\ UNCHANGED <<vars, loading>>

SessionNext == Configures \/ Resolved \/ LooksUp \/ Stays

(* Requests have a time limit and threads run; a server may never answer a clone. *)
SessionSpec ==
  /\ SessionInit /\ [][SessionNext]_<<vars, loading>>
  /\ WF_<<vars, loading>>(Configures \/ Resolved)
  /\ \A c \in Callers : /\ WF_<<vars, loading>>(Task(c) /\ UNCHANGED loading)
                        /\ WF_<<vars, loading>>(Thread(c) /\ UNCHANGED loading)

-----------------------------------------------------------------------------
(* Properties *)

(* All lookups and their threads end, unless the configuration is refused or a
   server is silent to the clone of a task that still waits for it: loading ends
   whatever files include each other, and aborting a task frees the cell for the
   others. *)
LookupsEnd == []<>(Refused \/ \A c \in Callers : Settled(c))
=============================================================================
