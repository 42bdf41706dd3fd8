-------------------------- MODULE FuturesResolver --------------------------
(***************************************************************************)
(* FuturesResolver: every candidate URL of a package is probed by a task   *)
(* of its own; the tasks hand what they found to the one that waits in     *)
(* resolve() through a channel with room for a single message.  A task     *)
(* that finds the channel full drops its result.                           *)
(***************************************************************************)
EXTENDS FiniteSets

CONSTANTS Futures, \* the futures pushed before resolve() is called
          Nobody   \* no message, no winner

VARIABLES
  outcome, \* what each future returned: Ok(Some), Ok(None) or Err, "pending" before
  task,    \* state of the task each future runs in
  slot,    \* the future whose result is in the channel
  rx,      \* resolve(): waiting, returned, or dropped by whoever waited for it
  winner,  \* the future whose value resolve() returned
  first    \* history: the first future that ended with Ok(Some)

vars == <<outcome, task, slot, rx, winner, first>>

Outcome == {"some", "none", "err"}
Ended == {"sent", "lost", "silent", "cancelled"}

Init ==
  /\ outcome = [f \in Futures |-> "pending"]
  /\ task = [f \in Futures |-> "running"]
  /\ slot = Nobody /\ rx = "waiting" /\ winner = Nobody /\ first = Nobody

(* Mutant: the sender that finds the channel full takes its place. *)
TrySendReplacing(f) ==
  /\ slot' = IF rx = "waiting" THEN f ELSE slot
  /\ task' = [task EXCEPT ![f] = "sent"]

(* Sender::try_send *)
TrySend(f) ==
  LET room == slot = Nobody /\ rx = "waiting"
  IN  /\ slot' = IF room THEN f ELSE slot
      /\ task' = [task EXCEPT ![f] = IF room THEN "sent" ELSE "lost"]

(* The future of f is ready: Ok(None) is not reported, the rest is sent. *)
FutureEnds(f, result) ==
  /\ task[f] = "running"
  /\ outcome' = [outcome EXCEPT ![f] = result]
  /\ IF result = "none"
     THEN /\ task' = [task EXCEPT ![f] = "silent"]
          /\ UNCHANGED slot
     ELSE TrySend(f)
  /\ first' = IF result = "some" /\ first = Nobody THEN f ELSE first
  /\ UNCHANGED <<rx, winner>>

(* tx.closed(): nobody waits any more, the future is dropped. *)
Cancelled(f) ==
  /\ task[f] = "running" /\ rx # "waiting"
  /\ task' = [task EXCEPT ![f] = "cancelled"]
  /\ UNCHANGED <<outcome, slot, rx, winner, first>>

(* Mutant: the results are looked at when all are there. *)
ReceiveAtEnd ==
  /\ rx = "waiting" /\ slot # Nobody
  /\ \A f \in Futures : task[f] # "running"
  /\ slot' = Nobody
  /\ IF outcome[slot] = "some"
     THEN rx' = "returned" /\ winner' = slot
     ELSE UNCHANGED <<rx, winner>>
  /\ UNCHANGED <<outcome, task, first>>

(* rx.recv(): a value is returned, an error is logged. *)
Receive ==
  /\ rx = "waiting" /\ slot # Nobody
  /\ slot' = Nobody
  /\ IF outcome[slot] = "some"
     THEN rx' = "returned" /\ winner' = slot
     ELSE UNCHANGED <<rx, winner>>
  /\ UNCHANGED <<outcome, task, first>>

(* rx.recv() returns None once every sender is gone and the channel is empty. *)
AllSendersGone ==
  /\ rx = "waiting" /\ slot = Nobody
  /\ \A f \in Futures : task[f] \in Ended
  /\ rx' = "returned"
  /\ UNCHANGED <<outcome, task, slot, winner, first>>

(* Whoever waits for resolve() is aborted, the receiver goes with it. *)
Abandoned ==
  /\ rx = "waiting" /\ rx' = "dropped"
  /\ UNCHANGED <<outcome, task, slot, winner, first>>

Terminated == /\ rx # "waiting" /\ \A f \in Futures : task[f] \in Ended
              /\ UNCHANGED vars

Next == \/ \E f \in Futures, result \in Outcome : FutureEnds(f, result)
        \/ \E f \in Futures : Cancelled(f)
        \/ Receive \/ AllSendersGone \/ Abandoned \/ Terminated

Spec == Init /\ [][Next]_vars

-----------------------------------------------------------------------------
(* Properties *)

TypeOK ==
  /\ outcome \in [Futures -> Outcome \cup {"pending"}]
  /\ task \in [Futures -> Ended \cup {"running"}]
  /\ slot \in Futures \cup {Nobody} /\ winner \in Futures \cup {Nobody}
  /\ first \in Futures \cup {Nobody}
  /\ rx \in {"waiting", "returned", "dropped"}

Returned(w) == rx = "returned" /\ winner = w

(* As long as no probe has failed, resolve() returns the package that was found
   first, and None only when none is there. *)
FirstFoundWins ==
  (\A f \in Futures : outcome[f] # "err") =>
    \A w \in Futures \cup {Nobody} : Returned(w) => w = first

(* The documented promise of Fetcher::find: true if a package is available,
   false if none is. *)
AvailableIsFound ==
  Returned(Nobody) => \A f \in Futures : task[f] \in {"sent", "lost"} => outcome[f] # "some"
=============================================================================
