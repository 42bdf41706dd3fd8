---------------------------- MODULE Preparation ----------------------------
(***************************************************************************)
(* What the resolutions of a session share before each builds its          *)
(* fetchers: the targets, detected in a task of their own (DetectTargets),  *)
(* and the GitHub client, whose token may have to be looked for by another  *)
(* (LazyGhApiClient).  Both are awaited without a time limit, the package   *)
(* before them; a signal, or a failed crate, drops all resolutions.        *)
(***************************************************************************)
EXTENDS DetectTargets, LazyGhApiClient, FiniteSets

CONSTANT MaxHanging \* bound: processes that never end

ASSUME MaxHangingAssumption == MaxHanging \in Nat

VARIABLES
  stage,  \* where each resolution is
  ending  \* the session has been told to end

prepVars == <<detection, lazyVars, stage, ending>>

Awaits == {"package", "targets", "client"}
Over == {"ready", "ended", "dropped"}

PrepInit ==
  /\ DetectInit /\ LazyInit /\ hangs = {}
  /\ stage = [i \in Users |-> "package"] /\ ending = FALSE

Goes(i, from, to) == stage[i] = from /\ stage' = [stage EXCEPT ![i] = to]

(* PackageInfo::resolve: an error, or a crate that is up to date, ends it. *)
PackageResolved(i) ==
  /\ Goes(i, "package", "targets") \/ Goes(i, "package", "ended")
  /\ UNCHANGED <<detection, lazyVars, ending>>

(* desired_targets.get() and TargetTriple::from_str of every target: one that
   is none ends the resolution. *)
TargetsKnown(i) ==
  /\ targets # Unset
  /\ Goes(i, "targets", IF \A t \in ToSet(targets) : IsTriple(t) THEN "client" ELSE "ended")
  /\ UNCHANGED <<detection, lazyVars, ending>>

(* gh_api_client.get(): the fetchers can be built. *)
GetClient(i) ==
  /\ stage[i] = "client"
  /\ \/ (Enter(i) \/ Made(i)) /\ UNCHANGED stage
     \/ Got(i) /\ Goes(i, "client", "ready")
  /\ UNCHANGED <<detection, ending>>

(* cancel_on_user_sig_term, or the end of a fail-fast session. *)
SessionEnding ==
  /\ ~ending /\ ending' = TRUE
  /\ UNCHANGED <<detection, lazyVars, stage>>

(* AutoAbortJoinHandle: a resolution goes at its next await. *)
Drop(i) ==
  /\ ending /\ stage[i] \in Awaits
  /\ stage' = [stage EXCEPT ![i] = "dropped"]
  /\ Dropped(i)
  /\ UNCHANGED <<detection, ending>>

Resolution(i) == PackageResolved(i) \/ TargetsKnown(i) \/ GetClient(i)

(* A process that is waited for without a time limit hangs. *)
Hang ==
  /\ Cardinality(hangs) < MaxHanging
  /\ \/ ProbeHangs
     \/ /\ search \in {"gh", "git"} /\ hangs' = hangs \cup {search}
        /\ UNCHANGED <<detecting, host, probe, targets>>
  /\ UNCHANGED <<lazyVars, stage, ending>>

Search == ("gh" \notin hangs /\ GhEnds) \/ ("git" \notin hangs /\ GitEnds)

Detect == DetectStep /\ UNCHANGED <<lazyVars, stage, ending>>
SearchStep == Search /\ UNCHANGED <<detection, stage, ending>>

(* The session goes on with the fetchers, or ends. *)
Prepared == (\A i \in Users : stage[i] \in Over) /\ UNCHANGED prepVars

PrepNext == \/ Detect \/ Hang \/ SearchStep \/ SessionEnding \/ Prepared
            \/ \E i \in Users : Resolution(i) \/ Drop(i)

PrepSpec == PrepInit /\ [][PrepNext]_prepVars

(* Tasks run on and processes end, those that hang excepted. *)
PrepFairSpec ==
  /\ PrepSpec /\ WF_prepVars(SearchStep)
  /\ WF_prepVars(HostFound /\ UNCHANGED <<lazyVars, stage, ending>>)
  /\ WF_prepVars(Conclude /\ UNCHANGED <<lazyVars, stage, ending>>)
  /\ \A q \in ToSet(Loaders) \cup Emulated :
       WF_prepVars(q \in DOMAIN probe /\ ProbeEnds(q) /\ UNCHANGED <<lazyVars, stage, ending>>)
  /\ \A i \in Users : WF_prepVars(Resolution(i)) /\ WF_prepVars(Drop(i))

-----------------------------------------------------------------------------
(* Properties *)

(* In a session that goes on every resolution talks to GitHub with the token that
   was found, and to none before the search is over. *)
SharedToken == OneToken /\ (handle = "gone" => ending)

(* Every resolution gets its targets and its client unless a process it needs the
   answer of hangs: a search it was spared does not count, nor does a loader after
   one that is of a glibc.  A session that is told to end does so whatever hangs. *)
PreparationEnds ==
  LET Answered(i) == \A j \in 1..i : probe[Loaders[j]] # "asked"
  IN  /\ <>[](hangs = {}) => <>(\A i \in Users : stage[i] \in Over)
      /\ (\E i \in DOMAIN Loaders : Loaders[i] \in Yes /\ Answered(i)) ~> targets # Unset
      /\ ending ~> \A i \in Users : stage[i] \in Over
=============================================================================
