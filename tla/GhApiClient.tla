----------------------------- MODULE GhApiClient -----------------------------
(***************************************************************************)
(* The GitHub API client the fetchers share.  find() of GhCrateMeta asks    *)
(* first whether the repository is private (Data::repo_info, one cell per   *)
(* crate), then starts a probe per URL ("meta"), which asks whether a       *)
(* release has its artifact (has_release_artifact, one cell per release).   *)
(* find() of QuickInstall ("quick") asks the latter only.  A cell is filled *)
(* by one caller at a time: who fails or is dropped lets the next one try.  *)
(* The client sends nothing before the deadline a rate limit has set, and a *)
(* token GraphQL has refused is not used again.                             *)
(*                                                                          *)
(* Instants are ticks still to go; what happens between two awaits takes no *)
(* time, but other threads may act in the middle of it.                     *)
(***************************************************************************)
EXTENDS Naturals, FiniteSets

CONSTANTS Find,       \* the task of GhCrateMeta::find
          Metas,      \* the tasks of the probes it starts
          Quicks,     \* tasks of QuickInstall::find
          Releases, Artifacts,
          RestOnly,   \* only_use_restful_api
          DefaultRetry, \* DEFAULT_RETRY_DURATION (10 minutes), in ticks
          ShortRetry, \* DEFAULT_GH_API_RETRY_DURATION (1 second), in ticks
          Info,       \* the cell of Data::repo_info
          Nobody,     \* nobody is inside the initializer
          NoRelease,  \* the release does not exist, or not for us
          Empty       \* a cell that is not filled

Callers == {Find} \cup Metas \cup Quicks
Cells == Releases \cup {Info}

ASSUME CallersAssumption ==
  /\ Metas \cap Quicks = {} /\ Find \notin Metas \cup Quicks
  /\ Nobody \notin Callers
ASSUME CellsAssumption == Info \notin Releases
ASSUME RetryAssumption ==
  /\ DefaultRetry \in Nat /\ ShortRetry \in Nat /\ ShortRetry <= DefaultRetry
  /\ RestOnly \in BOOLEAN

VARIABLES
  caller,  \* state of each caller
  cell,    \* what a cell holds: a listing, NoRelease, whether it is private, or Empty
  holder,  \* the caller inside the initializer of a cell
  retry,   \* Inner.retry_after, in ticks to go; 0 is None or reached
  valid,   \* Inner.is_auth_token_valid, FALSE also where there is no token
  failed,  \* GH_API_CLIENT_FAILED
  server,  \* the server: listings, whether it is private, whether it knows the token
  since,   \* history: ticks since the last rate limit
  at0      \* history: the listings at the start

vars == <<caller, cell, holder, retry, valid, failed, server, since, at0>>
client == <<cell, holder, retry, valid, failed>>
remote == <<server, since, at0>>

Over == {"known", "yes", "no", "fetched", "error", "dropped"}
InPoll == {"checking", "limited"}
Awaiting == {"waiting", "graphql", "rest", "asleep", "head"}

Listings == {NoRelease} \cup SUBSET Artifacts

ASSUME NoReleaseAssumption == \A list \in SUBSET Artifacts : list # NoRelease

Init ==
  /\ \E rel \in [Callers -> Releases], art \in [Callers -> Artifacts] :
       caller = [c \in Callers |->
         [at |-> IF c \in Metas THEN "absent" ELSE "start", rel |-> rel[c], art |-> art[c],
          tok |-> FALSE, wait |-> 0, saw |-> Empty]]
  /\ cell = [k \in Cells |-> Empty] /\ holder = [k \in Cells |-> Nobody]
  /\ retry = 0 /\ valid \in BOOLEAN /\ failed = FALSE
  /\ \E list \in [Releases -> Listings], private, known \in BOOLEAN :
       server = [list |-> list, private |-> private, known |-> known]
  /\ since = DefaultRetry /\ at0 = server.list

(* The cell c asks for. *)
CellOf(c) == IF c = Find THEN Info ELSE caller[c].rel

(* c goes on to at; what it kept of its request is gone. *)
Goes(c, at) == caller' = [caller EXCEPT ![c].at = at, ![c].tok = FALSE, ![c].wait = 0]

Moves(c, from, to) == caller[c].at = from /\ Goes(c, to)

(* The initializer of c's cell ends: its permit goes to the next caller. *)
Released(c) == [k \in Cells |-> IF holder[k] = c THEN Nobody ELSE holder[k]]

-----------------------------------------------------------------------------
(* get_or_try_init *)

(* does_url_exist asks the API unless it has failed before. *)
Start(c) ==
  /\ Moves(c, "start", IF c \in Quicks /\ failed THEN "head" ELSE "waiting")
  /\ UNCHANGED <<client, remote>>

(* The repository is known: find() starts its probes. *)
Launch ==
  /\ caller[Find].at = "waiting" /\ cell[Info] # Empty
  /\ caller' = [c \in Callers |->
       IF c = Find THEN [caller[c] EXCEPT !.at = "known"]
       ELSE IF c \in Metas THEN [caller[c] EXCEPT !.at = "waiting"] ELSE caller[c]]
  /\ UNCHANGED <<client, remote>>

(* The cell of a release is filled: the listing in it is the answer. *)
UseCell(c) ==
  LET list == cell[caller[c].rel] IN
  /\ c # Find /\ caller[c].at = "waiting" /\ list # Empty
  /\ caller' = [caller EXCEPT ![c].saw = list,
       ![c].at = IF list # NoRelease /\ caller[c].art \in list THEN "yes" ELSE "no"]
  /\ UNCHANGED <<client, remote>>

(* Mutant: two callers may be inside the initializer. *)
AcquireUnguarded(c) ==
  /\ caller[c].at = "waiting" /\ cell[CellOf(c)] = Empty
  /\ holder' = [holder EXCEPT ![CellOf(c)] = c]
  /\ caller' = [caller EXCEPT ![c].at = "checking"]
  /\ UNCHANGED <<cell, retry, valid, failed, remote>>

(* The caller enters the initializer.  Without a token get_repo_info_inner
   takes the repository for a public one. *)
Acquire(c) ==
  LET k == CellOf(c) IN
  /\ caller[c].at = "waiting" /\ cell[k] = Empty /\ holder[k] = Nobody
  /\ IF k = Info /\ ~valid
     THEN cell' = [cell EXCEPT ![k] = "public"] /\ UNCHANGED <<caller, holder>>
     ELSE /\ holder' = [holder EXCEPT ![k] = c]
          /\ caller' = [caller EXCEPT ![c].at = "checking"]
          /\ UNCHANGED cell
  /\ UNCHANGED <<retry, valid, failed, remote>>

-----------------------------------------------------------------------------
(* do_fetch *)

(* RateLimit: has_release_artifact gives its permit back before it stores the
   deadline; gh_get_repo_info stores none and sleeps inside the initializer. *)
Limited(c, wait, known) ==
  IF c = Find
  THEN /\ caller' = [caller EXCEPT ![c].at = "asleep", ![c].wait = wait]
       /\ UNCHANGED holder
  ELSE /\ caller' = [caller EXCEPT ![c].at = "limited", ![c].wait = wait, ![c].tok = known]
       /\ holder' = Released(c)

(* check_retry_after, then the first request. *)
Check(c) ==
  /\ caller[c].at = "checking"
  /\ IF retry > 0
     THEN Limited(c, retry, TRUE)
     ELSE /\ caller' = [caller EXCEPT ![c].tok = valid,
                                      ![c].at = IF valid /\ ~RestOnly THEN "graphql" ELSE "rest"]
          /\ UNCHANGED holder
  /\ UNCHANGED <<cell, retry, valid, failed, remote>>

Asking(c) == caller[c].at \in {"graphql", "rest"}

(* The token of the request opens the repository, or the server refuses it. *)
Opened(c) == caller[c].tok /\ server.known
Refused(c) == caller[c].tok /\ ~server.known

(* What the server has for the caller. *)
Found(c) ==
  IF c = Find THEN (IF server.private THEN "private" ELSE "public")
                           ELSE server.list[CellOf(c)]

(* The answer fills the cell.  NotFound is an answer for a release, an error
   for the repository itself. *)
Answered(c) ==
  /\ Asking(c) /\ ~Refused(c)
  /\ holder' = Released(c)
  /\ \/ /\ server.private => Opened(c)
        /\ cell' = [cell EXCEPT ![CellOf(c)] = Found(c)]
        /\ Goes(c, "waiting")
     \/ /\ server.private /\ ~Opened(c)
        /\ IF c = Find
           THEN Goes(c, "error") /\ UNCHANGED cell
           ELSE /\ cell' = [cell EXCEPT ![CellOf(c)] = NoRelease]
                /\ Goes(c, "waiting")
  /\ UNCHANGED <<retry, valid, failed, remote>>

(* Mutant: whatever goes wrong is kept as "no such release". *)
BreaksCached(c) ==
  /\ Asking(c)
  /\ holder' = Released(c)
  /\ cell' = [cell EXCEPT ![CellOf(c)] =
                IF c = Find THEN "public" ELSE NoRelease]
  /\ Goes(c, "waiting")
  /\ UNCHANGED <<retry, valid, failed, remote>>

(* Any other error ends this task; the cell stays empty for the others. *)
Breaks(c) ==
  /\ Asking(c)
  /\ holder' = Released(c)
  /\ Goes(c, "error")
  /\ UNCHANGED <<cell, retry, valid, failed, remote>>

(* GraphQL refuses the token: nobody uses it again, REST is asked without. *)
GraphqlRefuses(c) ==
  /\ caller[c].at = "graphql" /\ Refused(c)
  /\ valid' = FALSE
  /\ caller' = [caller EXCEPT ![c].at = "rest", ![c].tok = FALSE]
  /\ UNCHANGED <<cell, holder, retry, failed, remote>>

(* REST refuses: a public artifact is then looked for at its URL. *)
RestRefuses(c) ==
  /\ caller[c].at = "rest" /\ ~Opened(c)
  /\ holder' = Released(c)
  /\ Goes(c, IF c # Find /\ (c \in Metas => cell[Info] = "public")
             THEN "head" ELSE "error")
  /\ failed' = (failed \/ c \in Quicks)
  /\ UNCHANGED <<cell, retry, valid, remote>>

(* A GraphQL error RATE_LIMITED, which never says for how long. *)
GraphqlLimits(c) ==
  /\ caller[c].at = "graphql" /\ ~Refused(c)
  /\ Limited(c, ShortRetry, FALSE)
  /\ since' = 0
  /\ UNCHANGED <<cell, retry, valid, failed, server, at0>>

-----------------------------------------------------------------------------
(* has_release_artifact after a rate limit, and the callers *)

(* Mutant: the default is stored whatever is known of the deadline. *)
DeadlineOfDefault(c) == DefaultRetry

(* retry_after.unwrap_or(DEFAULT_RETRY_DURATION) *)
Deadline(c) == IF caller[c].tok THEN caller[c].wait ELSE DefaultRetry

(* GhCrateMeta sleeps and asks again, quickinstall asks for the URL itself. *)
AfterLimit(c) == IF c \in Metas THEN "asleep" ELSE "head"

(* The deadline is overwritten, whatever another caller has stored meanwhile. *)
Store(c) ==
  /\ caller[c].at = "limited"
  /\ IF AfterLimit(c) = "asleep"
     THEN caller' = [caller EXCEPT ![c].at = "asleep", ![c].tok = FALSE]
     ELSE Goes(c, AfterLimit(c))
  /\ retry' = Deadline(c)
  /\ failed' = (failed \/ c \in Quicks)
  /\ UNCHANGED <<cell, holder, valid, remote>>

(* sleep is over: inside the initializer of Info, or in front of the cell. *)
Wake(c) ==
  /\ caller[c].wait = 0
  /\ Moves(c, "asleep", IF c = Find THEN "checking" ELSE "waiting")
  /\ UNCHANGED <<client, remote>>

(* remote_gettable *)
Head(c) ==
  LET list == server.list[caller[c].rel] IN
  /\ \/ Moves(c, "head", IF ~server.private /\ list # NoRelease /\ caller[c].art \in list
                           THEN "yes" ELSE "no")
     \/ Moves(c, "head", "error")
  /\ UNCHANGED <<client, remote>>

(* download_artifact, for an artifact of a private repository. *)
Fetch(c) ==
  /\ c \in Metas /\ cell[Info] = "private"
  /\ \/ Moves(c, "yes", "error") /\ UNCHANGED valid \* limited, no token, or a broken answer
     \/ /\ retry = 0 /\ valid
        /\ Moves(c, "yes", IF server.known THEN "fetched" ELSE "error")
        /\ valid' = server.known
  /\ UNCHANGED <<cell, holder, retry, failed, remote>>

(* The task is aborted at an await: another probe has won, or time is up. *)
Dropped(c) ==
  /\ caller[c].at \in Awaiting
  /\ Goes(c, "dropped")
  /\ holder' = Released(c)
  /\ UNCHANGED <<cell, retry, valid, failed, remote>>

-----------------------------------------------------------------------------
Tick ==
  /\ \A c \in Callers : caller[c].at \notin InPoll
  /\ retry' = IF retry = 0 THEN 0 ELSE retry - 1
  /\ caller' = [c \in Callers |->
       [caller[c] EXCEPT !.wait = IF caller[c].at = "asleep" /\ @ > 0 THEN @ - 1 ELSE @]]
  /\ since' = IF since < DefaultRetry THEN since + 1 ELSE since
  /\ UNCHANGED <<cell, holder, valid, failed, server, at0>>

(* A maintainer uploads one more artifact. *)
Publish ==
  /\ \E r \in Releases, a \in Artifacts :
       /\ server.list[r] # NoRelease => a \notin server.list[r]
       /\ server' = [server EXCEPT !.list[r] = IF @ = NoRelease THEN {a} ELSE @ \cup {a}]
  /\ UNCHANGED <<caller, client, since, at0>>

Step(c) == \/ Start(c) \/ UseCell(c) \/ Acquire(c) \/ Check(c)
           \/ Answered(c) \/ Breaks(c) \/ GraphqlRefuses(c) \/ RestRefuses(c)
           \/ GraphqlLimits(c) \/ Store(c) \/ Wake(c) \/ Head(c)

Next == Tick \/ Publish \/ Launch \/ \E c \in Callers : Step(c) \/ Fetch(c) \/ Dropped(c)

Spec == Init /\ [][Next]_vars

-----------------------------------------------------------------------------
(* Properties *)

TypeOK ==
  /\ \A c \in Callers :
       /\ caller[c].at \in {"absent", "start"} \cup Awaiting \cup InPoll \cup Over
       /\ caller[c].tok \in BOOLEAN /\ caller[c].saw \in Listings \cup {Empty}
       /\ caller[c].wait \in 0..DefaultRetry
  /\ cell[Info] \in {"public", "private", Empty}
  /\ \A r \in Releases : cell[r] \in Listings \cup {Empty}
  /\ holder \in [Cells -> Callers \cup {Nobody}]
  /\ retry \in 0..DefaultRetry /\ valid \in BOOLEAN /\ failed \in BOOLEAN

(* Whoever answered from the same release answered from the same snapshot of
   it, however the server's listing changed meanwhile. *)
OneListing ==
  \A c, d \in Callers :
    caller[c].rel = caller[d].rel /\ caller[c].saw # Empty /\ caller[d].saw # Empty
      => caller[c].saw = caller[d].saw

(* An artifact of a public repository that was there from the start is never
   reported missing, whatever token, limits and errors come in between. *)
PresentIsFound ==
  \A c \in Callers :
    LET list == at0[caller[c].rel] IN
      caller[c].at = "no" /\ list # NoRelease /\ caller[c].art \in list => server.private

(* However many tasks meet the deadline and store it again, it never lies
   further away than the last rate limit put it. *)
NotExtended == retry + since <= DefaultRetry \/ retry = 0
==============================================================================
