----------------------------- MODULE FindPackage -----------------------------
(***************************************************************************)
(* FindPackage: GhCrateMeta::find from its first question to its answer.   *)
(* It learns whether the repository is private, starts a probe for every   *)
(* URL, and waits for the first result of these in FuturesResolver.  The   *)
(* probes, and tasks of QuickInstall beside them, ask the GitHub API       *)
(* client (GhApiClient); a probe's answer is what it hands to the channel. *)
(* When find() has returned, or is aborted, the other probes are dropped.  *)
(***************************************************************************)
EXTENDS GhApiClient

VARIABLES outcome, task, slot, rx, winner, first

R == INSTANCE FuturesResolver WITH Futures <- Metas

resolver == <<outcome, task, slot, rx, winner, first>>
findVars == <<vars, resolver>>

FindInit == Init /\ R!Init

(* What the future of a probe returns where the probe ends. *)
Result == [yes |-> "some", no |-> "none", error |-> "err"]

(* spawn_inner: the probe goes on, or ends and reports.  Every poll looks at
   tx.closed() first. *)
ProbeStep(c) ==
  /\ Step(c) /\ (caller[c].at \in Awaiting => rx = "waiting")
  /\ IF caller'[c].at \in DOMAIN Result
     THEN R!FutureEnds(c, Result[caller'[c].at])
     ELSE UNCHANGED resolver

(* spawn_inner: tx.closed() is ready at one of the probe's awaits. *)
ProbeDropped(c) == Dropped(c) /\ R!Cancelled(c)

(* resolve() at the end of find(), which the time limit may abort. *)
Resolve ==
  /\ caller[Find].at = "known"
  /\ R!Receive \/ R!AllSendersGone \/ R!Abandoned
  /\ UNCHANGED vars

(* fetch_and_extract of what find() returned. *)
FetchFound(c) == Fetch(c) /\ R!Returned(c) /\ UNCHANGED resolver

(* The tasks beside the probes; the time limit may abort them. *)
OtherStep(c) == (Step(c) \/ Dropped(c)) /\ UNCHANGED resolver

Around == (Tick \/ Publish \/ Launch) /\ UNCHANGED resolver

FindNext ==
  \/ Around \/ Resolve
  \/ \E c \in Callers \ Metas : OtherStep(c)
  \/ \E c \in Metas : ProbeStep(c) \/ ProbeDropped(c) \/ FetchFound(c)

FindSpec == FindInit /\ [][FindNext]_findVars

(* A task waits for a server's answer. *)
AskingServer(c) == caller[c].at \in {"graphql", "rest", "head"}

TaskStep(c) ==
  IF c \in Metas THEN ProbeStep(c) ELSE Step(c) /\ UNCHANGED resolver

(* Tasks run on, time passes, and a cell's permits are handed out in the order
   they were asked for.  A server need not answer. *)
FindFairSpec ==
  /\ FindSpec
  /\ WF_findVars(Tick /\ UNCHANGED resolver) /\ WF_findVars(Launch /\ UNCHANGED resolver)
  /\ WF_findVars((R!Receive \/ R!AllSendersGone) /\ Resolve)
  /\ \A c \in Callers : WF_findVars(~AskingServer(c) /\ TaskStep(c))
  /\ \A c \in Metas : WF_findVars(ProbeDropped(c))
  /\ \A c \in Metas \cup Quicks : SF_findVars(Acquire(c) /\ UNCHANGED resolver)

ServersAnswer == \A c \in Callers : WF_findVars(AskingServer(c) /\ TaskStep(c))

-----------------------------------------------------------------------------
(* Properties *)

(* find() returns the package that was found first.  If it finds none and no
   probe has failed then, in a public repository, none of the artifacts was there
   when it began. *)
FindAnswers ==
  /\ R!FirstFoundWins
  /\ (\A c \in Metas : outcome[c] # "err") /\ R!Returned(Nobody) =>
       \A c \in Metas :
         LET list == at0[caller[c].rel] IN
           list # NoRelease /\ caller[c].art \in list => server.private

(* Once a package waits in the channel find() ends and no probe survives it, even
   if no server answers any more.  If servers answer then a quickinstall task ends
   whatever its limits and, where limits end, find() and all probes do too. *)
TasksEnd ==
  LET ProbesOver == rx # "waiting" /\ \A c \in Metas : caller[c].at \in Over
      FindOver == caller[Find].at \in Over /\ (caller[Find].at = "known" => ProbesOver)
  IN  /\ (slot # Nobody /\ outcome[slot] = "some") ~> ProbesOver
      /\ ServersAnswer => \A c \in Quicks : <>(caller[c].at \in Over)
      /\ ServersAnswer /\ <>[][\A c \in Callers : ~GraphqlLimits(c)]_vars => <>FindOver
=============================================================================
