--------------------------- MODULE LazyGhApiClient ---------------------------
(***************************************************************************)
(* LazyGhApiClient: the client every resolution shares, made by the first  *)
(* one that asks for it.  Its token is known at the start, or a task that  *)
(* was started with it is looking for one (gh_token::get).  The handle of  *)
(* that task is taken by whoever initialises the cell, and is awaited      *)
(* inside the initializer.                                                 *)
(***************************************************************************)
CONSTANTS Users,  \* the resolutions
          Nobody, \* nobody is inside the initializer
          NoToken,
          Empty   \* a cell that is not filled, a client not yet had

ASSUME NobodyAssumption == Nobody \notin Users
ASSUME UsersAssumption == Users \cap {"none", "kept", "gone"} = {}
Tokens == {"argument", "home", "xdg", "gh", "git", NoToken}

ASSUME EmptyAssumption == Empty \notin Tokens

VARIABLES
  cell,   \* OnceCell: the token of the client
  holder, \* who is inside the initializer
  handle, \* the handle of the search: kept, or taken by the one who awaits it
  search, \* where the search is
  sought,  \* the token that was found
  client  \* the token of the client each resolution has got

lazyVars == <<cell, holder, handle, search, sought, client>>

(* git_credentials: the first line for github.com of ~/.git-credentials, else of
   $XDG_CONFIG_HOME/git/credentials. *)
FromHome(inHome, inXdg) ==
  IF inHome THEN "home" ELSE IF inXdg THEN "xdg" ELSE NoToken

(* --github-token or what the files say; with neither, and unless discovery is
   off, a search begins. *)
LazyInit ==
  /\ \E argument, discover, inHome, inXdg \in BOOLEAN :
       /\ sought = IF argument THEN "argument"
                  ELSE IF discover THEN FromHome(inHome, inXdg) ELSE NoToken
       /\ IF sought = NoToken /\ discover
          THEN cell = Empty /\ search = "gh" /\ handle = "kept"
          ELSE cell = sought /\ search = "none" /\ handle = "none"
  /\ holder = Nobody
  /\ client = [u \in Users |-> Empty]

(* stdout_with_optional_input: the command cannot be run or fails, prints nothing
   of use, or prints a token. *)
Outputs == {"error", "nothing", "token"}

(* gh auth token: git is asked only if gh has succeeded and printed nothing. *)
GhEnds ==
  /\ search = "gh"
  /\ \E output \in Outputs :
       /\ search' = IF output = "nothing" THEN "git" ELSE "ended"
       /\ sought' = IF output = "token" THEN "gh" ELSE NoToken
  /\ UNCHANGED <<cell, holder, handle, client>>

(* git credential fill *)
GitEnds ==
  /\ search = "git"
  /\ search' = "ended"
  /\ \E output \in Outputs : sought' = IF output = "token" THEN "git" ELSE NoToken
  /\ UNCHANGED <<cell, holder, handle, client>>

(* Mutant: the initializer runs for everyone who asks. *)
EnterUnguarded(u) ==
  /\ client[u] = Empty /\ cell = Empty /\ holder # u
  /\ holder' = u
  /\ handle' = IF handle = "kept" THEN u ELSE handle
  /\ UNCHANGED <<cell, search, sought, client>>

(* get_or_try_init: task.lock().take() *)
Enter(u) ==
  /\ client[u] = Empty /\ cell = Empty /\ holder = Nobody
  /\ holder' = u
  /\ handle' = IF handle = "kept" THEN u ELSE handle
  /\ UNCHANGED <<cell, search, sought, client>>

(* The search, if it was still there, has ended: the client is made. *)
Made(u) ==
  /\ holder = u /\ (handle = u => search = "ended")
  /\ cell' = IF handle = u THEN sought ELSE NoToken
  /\ holder' = Nobody
  /\ UNCHANGED <<handle, search, sought, client>>

Got(u) ==
  /\ client[u] = Empty /\ cell # Empty
  /\ client' = [client EXCEPT ![u] = cell]
  /\ UNCHANGED <<cell, holder, handle, search, sought>>

(* The resolution is dropped; inside the initializer the search goes with it. *)
Dropped(u) ==
  /\ client[u] = Empty
  /\ holder' = IF holder = u THEN Nobody ELSE holder
  /\ IF holder = u /\ handle = u
     THEN handle' = "gone" /\ search' = IF search = "ended" THEN search ELSE "aborted"
     ELSE UNCHANGED <<handle, search>>
  /\ UNCHANGED <<cell, sought, client>>

LazyNext == GhEnds \/ GitEnds \/ \E u \in Users : Enter(u) \/ Made(u) \/ Got(u) \/ Dropped(u)

LazySpec == LazyInit /\ [][LazyNext]_lazyVars

-----------------------------------------------------------------------------
(* Properties *)

LazyTypeOK ==
  /\ cell \in Tokens \cup {Empty} /\ sought \in Tokens
  /\ holder \in Users \cup {Nobody}
  /\ handle \in Users \cup {"none", "kept", "gone"}
  /\ search \in {"none", "gh", "git", "ended", "aborted"}
  /\ client \in [Users -> Tokens \cup {Empty}]

(* Until somebody is dropped inside the initializer, every resolution talks to
   GitHub with the token that was found, and none before the search is over. *)
OneToken ==
  handle # "gone" =>
    \A u \in Users : client[u] # Empty => client[u] = sought /\ search \in {"none", "ended"}
=============================================================================
