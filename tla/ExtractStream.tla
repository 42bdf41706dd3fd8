--------------------------- MODULE ExtractStream ---------------------------
(***************************************************************************)
(* Download::and_extract: the body of a response is pulled by an async     *)
(* task, shown to the signature verifier and handed through a bounded      *)
(* channel to a blocking thread that writes the files                      *)
(* (extract_with_blocking_task).  Either side may end first: the archive   *)
(* may end before the body does, the thread may fail, the connection may   *)
(* break, the async task may be dropped.  A closed channel looks like the  *)
(* end of the body to the thread.                                          *)
(***************************************************************************)
EXTENDS Naturals, Sequences

CONSTANTS N,   \* chunks in the body
          Cap  \* capacity of the channel (5)

ASSUME SizesAssumption == N \in Nat \ {0} /\ Cap \in Nat \ {0}

VARIABLES
  need,    \* chunks that hold the archive: N, or fewer where a tar ends early
  cut,     \* the pull that fails instead of giving a chunk or the end; 0: none
  pulled,  \* chunks pulled from the body
  over,    \* the body has given its end or an error
  digest,  \* chunks the verifier has seen, in order
  hand,    \* the chunk that waits for room in the channel, 0: none
  chan,    \* the channel
  tx,      \* is the sending end open?
  thread,  \* the blocking thread: running, ok or err
  written, \* chunks the thread has put into the files
  main,    \* where the async task is
  res      \* what and_extract returns

vars == <<need, cut, pulled, over, digest, hand, chan, tx, thread, written, main, res>>

body == <<need, cut>>
stream == <<pulled, over, digest>>

Whole == [k \in 1..N |-> k]

Init ==
  /\ need \in 1..N /\ cut \in 0..(N + 1)
  /\ pulled = 0 /\ over = FALSE /\ digest = <<>>
  /\ hand = 0 /\ chan = <<>> /\ tx = TRUE
  /\ thread = "running" /\ written = 0
  /\ main = "select" /\ res = "none"

-----------------------------------------------------------------------------
(* The body, whose chunks get_stream shows to the verifier as they come *)

NextFails == cut = pulled + 1
NextEnds == pulled = N /\ ~NextFails

(* Mutant: the verifier sees what goes through the channel only. *)
PullChunkUnseen ==
  /\ ~over /\ pulled < N /\ ~NextFails
  /\ pulled' = pulled + 1
  /\ digest' = IF main = "select" THEN Append(digest, pulled + 1) ELSE digest
  /\ UNCHANGED over

PullChunk ==
  /\ ~over /\ pulled < N /\ ~NextFails
  /\ pulled' = pulled + 1
  /\ digest' = Append(digest, pulled + 1)
  /\ UNCHANGED over

PullLast(fails) ==
  /\ ~over
  /\ IF fails THEN NextFails ELSE NextEnds
  /\ over' = TRUE
  /\ UNCHANGED <<pulled, digest>>

-----------------------------------------------------------------------------
(* read_fut, which select! polls first *)

ReadChunk ==
  /\ main = "select" /\ hand = 0
  /\ PullChunk
  /\ hand' = pulled + 1
  /\ UNCHANGED <<body, chan, tx, thread, written, main, res>>

Send ==
  /\ main = "select" /\ hand # 0
  /\ thread = "running" /\ Len(chan) < Cap
  /\ chan' = Append(chan, hand)
  /\ hand' = 0
  /\ UNCHANGED <<body, stream, tx, thread, written, main, res>>

(* The thread is gone: the rest of the body is not read here. *)
SendFails ==
  /\ main = "select" /\ hand # 0
  /\ thread # "running"
  /\ hand' = 0 /\ tx' = FALSE
  /\ main' = "await"
  /\ UNCHANGED <<body, stream, chan, thread, written, res>>

ReadEnds ==
  /\ main = "select" /\ hand = 0
  /\ PullLast(FALSE)
  /\ tx' = FALSE
  /\ main' = "await"
  /\ UNCHANGED <<body, hand, chan, thread, written, res>>

(* Mutant: an error of the body is taken for its end. *)
ReadFailsUnnoticed ==
  /\ main = "select" /\ hand = 0
  /\ PullLast(TRUE)
  /\ tx' = FALSE
  /\ main' = "await"
  /\ UNCHANGED <<body, hand, chan, thread, written, res>>

(* An error of the body ends the extraction; the thread is left behind. *)
ReadFails ==
  /\ main = "select" /\ hand = 0
  /\ PullLast(TRUE)
  /\ tx' = FALSE
  /\ main' = "consume" /\ res' = "err"
  /\ UNCHANGED <<body, hand, chan, thread, written>>

(* Mutant: the result of a thread that has ended is never picked up. *)
ThreadJoinedNever == main = "await" /\ thread # "running" /\ UNCHANGED vars

ThreadJoined ==
  /\ main = "await" /\ thread # "running"
  /\ main' = "consume" /\ res' = thread
  /\ UNCHANGED <<body, stream, hand, chan, tx, thread, written>>

(* task_fut is ready while read_fut is not; read_fut is polled once more, for
   an error, and may take another chunk. *)
ThreadFirst ==
  /\ main = "select" /\ thread # "running"
  /\ \/ UNCHANGED stream /\ res' = thread
     \/ hand = 0 /\ PullChunk /\ res' = thread
     \/ hand = 0 /\ PullLast(FALSE) /\ res' = thread
     \/ hand = 0 /\ PullLast(TRUE) /\ res' = "err"
  /\ hand' = 0 /\ tx' = FALSE
  /\ main' = "consume"
  /\ UNCHANGED <<body, chan, thread, written>>

(* consume_stream, so that the verifier sees the rest; an error ends it. *)
Consume ==
  /\ main = "consume"
  /\ \/ PullChunk /\ UNCHANGED main
     \/ (\E fails \in BOOLEAN : PullLast(fails)) /\ main' = "returned"
     \/ over /\ main' = "returned" /\ UNCHANGED stream
  /\ UNCHANGED <<body, hand, chan, tx, thread, written, res>>

(* The task that extracts is aborted: it lets go of the channel and the thread. *)
Dropped ==
  /\ main \in {"select", "await", "consume"}
  /\ main' = "dropped" /\ hand' = 0 /\ tx' = FALSE
  /\ UNCHANGED <<body, stream, chan, thread, written, res>>

-----------------------------------------------------------------------------
(* The blocking thread *)

Write ==
  /\ thread = "running" /\ chan # <<>>
  /\ chan' = Tail(chan) /\ written' = written + 1
  /\ UNCHANGED <<body, stream, hand, tx, thread, main, res>>

(* The channel is empty and closed.  A single binary, or a tar cut between two
   entries, is taken for whole; a zip, a compressed tar is not. *)
EndOfInput ==
  /\ thread = "running" /\ chan = <<>> /\ ~tx
  /\ thread' \in {"ok", "err"}
  /\ UNCHANGED <<body, stream, hand, chan, tx, written, main, res>>

(* The archive has ended before the body. *)
EndOfArchive ==
  /\ thread = "running" /\ written >= need
  /\ thread' = "ok" /\ chan' = <<>>
  /\ UNCHANGED <<body, stream, hand, tx, written, main, res>>

ThreadFails ==
  /\ thread = "running"
  /\ thread' = "err" /\ chan' = <<>>
  /\ UNCHANGED <<body, stream, hand, tx, written, main, res>>

Extract == Write \/ EndOfInput \/ EndOfArchive

Answer == ReadChunk \/ ReadEnds \/ ReadFails \/ Consume \* the server sends something

Read == Send \/ SendFails \/ ThreadJoined \/ ThreadFirst

Terminated == main \in {"returned", "dropped"} /\ thread # "running" /\ UNCHANGED vars

Next == Answer \/ Read \/ Dropped \/ Extract \/ ThreadFails \/ Terminated

Spec == Init /\ [][Next]_vars

-----------------------------------------------------------------------------
(* Properties *)

(* Every variable has a value of its kind (extract_with_blocking_task). *)
TypeOK ==
  /\ need \in 1..N /\ cut \in 0..(N + 1) /\ pulled \in 0..N
  /\ hand \in Nat /\ written \in Nat
  /\ digest \in Seq(Nat) /\ chan \in Seq(Nat)
  /\ thread \in {"running", "ok", "err"}
  /\ main \in {"select", "await", "consume", "returned", "dropped"}
  /\ res \in {"none", "ok", "err"}

(* and_extract succeeds only when everything the archive holds is in the
   files: an end of input that is really a broken connection is never taken
   for a success, though the thread itself cannot tell, and nobody writes into
   the files any more. *)
NothingTruncated == res = "ok" => written >= need /\ thread # "running"

(* The verifier sees each chunk once and in order, at least all that has gone
   into the files; and all of a body that arrives as a whole, however early the
   thread ends, so no genuine package is refused. *)
DigestFaithful ==
  /\ \A k \in 1..Len(digest) : digest[k] = k
  /\ written <= Len(digest)
  /\ main = "returned" /\ cut = 0 => digest = Whole
=============================================================================
