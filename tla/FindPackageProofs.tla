------------------------- MODULE FindPackageProofs -------------------------
(* Proofs about GhApiClient, FuturesResolver and what FindPackage makes of them,
   for any number of tasks, releases and artifacts and any retry durations. *)
EXTENDS FindPackage, TLAPS

Caller ==
  [at : {"absent", "start"} \cup Awaiting \cup InPoll \cup Over, rel : Releases,
   art : Artifacts, tok : BOOLEAN, wait : Nat, saw : Listings \cup {Empty}]

Types ==
  /\ caller \in [Callers -> Caller]
  /\ DOMAIN cell = Cells /\ \A r \in Releases : cell[r] \in Listings \cup {Empty}
  /\ holder \in [Cells -> Callers \cup {Nobody}]
  /\ retry \in Nat /\ since \in Nat /\ valid \in BOOLEAN
  /\ at0 \in [Releases -> Listings]
  /\ server \in [list : [Releases -> Listings], private : BOOLEAN, known : BOOLEAN]

(* A task inside the initializer of a cell. *)
Inside(c) == \/ caller[c].at \in {"checking", "graphql", "rest"}
             \/ caller[c].at = "asleep" /\ c = Find

(* The initializer has one task, and only it fills the cell: a filled cell does
   not change, so what a task has seen is still there. *)
Guarded ==
  /\ \A c \in Callers : Inside(c) => holder[CellOf(c)] = c
  /\ \A k \in Cells : holder[k] # Nobody => cell[k] = Empty
  /\ \A c \in Callers : caller[c].saw # Empty => cell[caller[c].rel] = caller[c].saw

(* A deadline that is about to be stored has been read, or set, in the same
   instant. *)
Fresh(wait) == wait = 0 \/ wait + since <= DefaultRetry

Deadlines ==
  /\ Fresh(retry)
  /\ \A c \in Callers : caller[c].at = "limited" =>
       /\ c # Find
       /\ IF caller[c].tok THEN Fresh(caller[c].wait) ELSE since = 0

(* A listing of a public repository holds what was there at the start. *)
Holds(list, r) == list # NoRelease /\ at0[r] \subseteq list

Listed ==
  server.private = FALSE =>
    /\ \A r \in Releases : at0[r] # NoRelease =>
         Holds(server.list[r], r) /\ (cell[r] # Empty => Holds(cell[r], r))
    /\ PresentIsFound

IInv == Types /\ Guarded /\ Deadlines /\ Listed

LEMMA InitIInv == Init => IInv
<1> SUFFICES ASSUME Init PROVE IInv OBVIOUS
<1>1. PICK rel \in [Callers -> Releases], art \in [Callers -> Artifacts] :
        caller = [c \in Callers |->
          [at |-> IF c \in Metas THEN "absent" ELSE "start", rel |-> rel[c], art |-> art[c],
           tok |-> FALSE, wait |-> 0, saw |-> Empty]]
  BY DEF Init
<1>2. PICK list \in [Releases -> Listings], private \in BOOLEAN, known \in BOOLEAN :
        server = [list |-> list, private |-> private, known |-> known]
  BY DEF Init
<1>3. cell = [k \in Cells |-> Empty] /\ holder = [k \in Cells |-> Nobody] /\ at0 = list
  BY <1>2 DEF Init
<1>4. Types
  <2>1. caller \in [Callers -> Caller]
    BY <1>1 DEF Caller
  <2>2. retry = 0 /\ since = DefaultRetry /\ valid \in BOOLEAN
    BY DEF Init
  <2>. QED BY <1>2, <1>3, <2>1, <2>2, RetryAssumption DEF Types, Cells
<1>5. Guarded
  BY <1>1, <1>3 DEF Guarded, Inside
<1>6. Deadlines
  BY <1>1 DEF Init, Deadlines, Fresh
<1>7. Listed
  BY <1>1, <1>2, <1>3 DEF Listed, Holds, PresentIsFound, Cells
<1>. QED BY <1>4, <1>5, <1>6, <1>7 DEF IInv

LEMMA CellTyped == ASSUME Types, NEW c \in Callers PROVE CellOf(c) \in Cells
BY DEF Types, Caller, CellOf, Cells

(* Answers PresentIsFound allows. *)
Rightly(c) ==
  LET list == at0[caller[c].rel] IN
    list # NoRelease /\ caller[c].art \in list => server.private

(* A step of one task that fills no cell, enters no initializer and leaves it
   before, or when, it gives back its permit. *)
LEMMA QuietLemma ==
  ASSUME IInv, NEW c \in Callers, NEW new \in Caller, caller' = [caller EXCEPT ![c] = new],
         new.rel = caller[c].rel, new.art = caller[c].art,
         new.saw = caller[c].saw \/ new.saw = cell[new.rel],
         UNCHANGED <<cell, server, at0>>, retry' \in Nat, since' \in Nat, valid' \in BOOLEAN,
         holder' = holder \/ (holder' = Released(c) /\ ~Inside(c)'),
         Inside(c)' => Inside(c),
         new.at = "no" => Rightly(c)
  PROVE  Types' /\ Guarded' /\ Listed'
<1>1. /\ caller' \in [Callers -> Caller] /\ caller'[c] = new
      /\ \A d \in Callers \ {c} : caller'[d] = caller[d]
  BY DEF IInv, Types
<1>2. /\ holder' \in [Cells -> Callers \cup {Nobody}]
      /\ \A k \in Cells : holder'[k] = holder[k] \/ (holder'[k] = Nobody /\ holder[k] = c)
  BY DEF IInv, Types, Released
<1>3. Types'
  BY <1>1, <1>2 DEF IInv, Types
<1>4. Guarded'
  <2>1. ASSUME NEW d \in Callers, Inside(d)' PROVE holder'[CellOf(d)'] = d
    <3>1. Inside(d) /\ CellOf(d)' = CellOf(d) /\ CellOf(d) \in Cells
      BY <1>1, <2>1, CellTyped DEF Inside, CellOf, IInv
    <3>2. holder[CellOf(d)] = d
      BY <3>1 DEF IInv, Guarded
    <3>3. CASE d = c
      BY <2>1, <3>1, <3>2, <3>3
    <3>4. CASE d # c
      BY <1>2, <3>1, <3>2, <3>4
    <3>. QED BY <3>3, <3>4
  <2>2. \A k \in Cells : holder'[k] # Nobody => cell'[k] = Empty
    BY <1>2 DEF IInv, Guarded
  <2>3. \A d \in Callers : caller'[d].saw # Empty => cell'[caller'[d].rel] = caller'[d].saw
    BY <1>1 DEF IInv, Guarded
  <2>. QED BY <2>1, <2>2, <2>3 DEF Guarded
<1>5. Listed'
  <2>1. ASSUME server.private = FALSE PROVE PresentIsFound'
    BY <1>1, <2>1 DEF IInv, Listed, PresentIsFound, Rightly
  <2>. QED BY <2>1 DEF IInv, Listed, Holds
<1>. QED BY <1>3, <1>4, <1>5

(* A task ends its request. *)
Went(c, new, at) ==
  /\ caller' = [caller EXCEPT ![c] = new]
  /\ new.at = at /\ new.tok = FALSE /\ new.wait = 0
  /\ new.rel = caller[c].rel /\ new.art = caller[c].art /\ new.saw = caller[c].saw

LEMMA GoesLemma ==
  ASSUME Types, NEW c \in Callers, NEW at \in {"absent", "start"} \cup Awaiting \cup InPoll \cup Over, Goes(c, at)
  PROVE  \E new \in Caller : Went(c, new, at)
<1> DEFINE new == [caller[c] EXCEPT !.at = at, !.tok = FALSE, !.wait = 0]
<1>1. caller[c] \in Caller
  BY DEF Types
<1>2. new \in Caller
  BY <1>1 DEF Caller
<1>3. caller' = [caller EXCEPT ![c] = new]
  BY DEF Goes
<1>. QED BY <1>1, <1>2, <1>3 DEF Caller, Went

LEMMA DeadlineLemma ==
  ASSUME IInv, NEW c \in Callers, NEW new \in Caller, caller' = [caller EXCEPT ![c] = new],
         since' = since \/ since' = 0,
         retry' = 0 \/ retry' + since' <= DefaultRetry,
         new.at = "limited" =>
           /\ c # Find
           /\ IF new.tok THEN new.wait = 0 \/ new.wait + since' <= DefaultRetry ELSE since' = 0
  PROVE  Deadlines'
<1>1. /\ caller'[c] = new /\ \A d \in Callers \ {c} : caller'[d] = caller[d]
  BY DEF IInv, Types
<1>2. Fresh(retry)'
  BY DEF Fresh
<1>3. ASSUME NEW d \in Callers, caller'[d].at = "limited"
      PROVE  /\ d # Find
             /\ IF caller'[d].tok THEN Fresh(caller[d].wait)' ELSE since' = 0
  <2>1. CASE d = c
    BY <1>1, <1>3, <2>1 DEF Fresh
  <2>2. CASE d # c
    <3>1. /\ caller'[d] = caller[d] /\ caller[d].wait \in Nat /\ d # Find
          /\ IF caller[d].tok THEN Fresh(caller[d].wait) ELSE since = 0
      BY <1>1, <1>3, <2>2 DEF IInv, Types, Caller, Deadlines
    <3>2. since \in Nat
      BY DEF IInv, Types
    <3>. QED BY <3>1, <3>2, RetryAssumption DEF Fresh
  <2>. QED BY <2>1, <2>2
<1>. QED BY <1>2, <1>3 DEF Deadlines

(* What both lemmas ask of a step of one task. *)
Quiet(c, new) ==
  /\ caller' = [caller EXCEPT ![c] = new]
  /\ new.rel = caller[c].rel /\ new.art = caller[c].art
  /\ new.saw = caller[c].saw \/ new.saw = cell[new.rel]
  /\ UNCHANGED <<cell, server, at0>>
  /\ since' = since \/ since' = 0
  /\ retry' \in Nat /\ valid' \in BOOLEAN
  /\ retry' = 0 \/ retry' + since' <= DefaultRetry
  /\ new.at = "limited" =>
       /\ c # Find
       /\ IF new.tok THEN new.wait = 0 \/ new.wait + since' <= DefaultRetry ELSE since' = 0
  /\ holder' = holder \/ (holder' = Released(c) /\ ~Inside(c)')
  /\ Inside(c)' => Inside(c)
  /\ new.at = "no" => Rightly(c)

LEMMA QuietStep ==
  ASSUME IInv, NEW c \in Callers, NEW new \in Caller, Quiet(c, new)
  PROVE  IInv'
<1>1. since' \in Nat
  BY DEF Quiet, IInv, Types
<1>2. Types' /\ Guarded' /\ Listed'
  BY <1>1, QuietLemma DEF Quiet
<1>3. Deadlines'
  BY DeadlineLemma DEF Quiet
<1>. QED BY <1>2, <1>3 DEF IInv

(* A step that ends a request. *)
LEMMA GoesStep ==
  ASSUME IInv, NEW c \in Callers, NEW at, Goes(c, at),
         \/ at \in {"waiting", "head"} \cup Over
         \/ at = "checking" /\ caller[c].at = "asleep" /\ c = Find /\ holder' = holder,
         at = "no" => Rightly(c),
         UNCHANGED <<cell, server, at0, since>>,
         valid' \in BOOLEAN, retry' \in Nat, retry' = 0 \/ retry' + since <= DefaultRetry,
         holder' = holder \/ holder' = Released(c)
  PROVE  IInv'
<1>1. at \in {"absent", "start"} \cup Awaiting \cup InPoll \cup Over
  BY DEF Awaiting, InPoll
<1>2. PICK new \in Caller : Went(c, new, at)
  BY <1>1, GoesLemma DEF IInv
<1>3. caller'[c] = new /\ new.at = at
  BY <1>2 DEF Went, IInv, Types
<1>4. CASE at = "checking" /\ caller[c].at = "asleep" /\ c = Find /\ holder' = holder
  <2>1. Inside(c)
    BY <1>4 DEF Inside
  <2>2. Quiet(c, new)
    BY <1>2, <1>3, <1>4, <2>1 DEF Quiet, Went
  <2>. QED BY <2>2, QuietStep
<1>5. CASE at \in {"waiting", "head"} \cup Over
  <2>1. ~Inside(c)' /\ at # "limited"
    BY <1>3, <1>5 DEF Inside, Over
  <2>2. Quiet(c, new)
    BY <1>2, <1>3, <2>1 DEF Quiet, Went
  <2>. QED BY <2>2, QuietStep
<1>. QED BY <1>4, <1>5

LEMMA StepIInv == ASSUME IInv, NEW c \in Callers, Step(c) PROVE IInv'
<1>t. /\ Types /\ caller[c] \in Caller /\ retry \in Nat /\ since \in Nat /\ valid \in BOOLEAN
      /\ retry = 0 \/ retry + since <= DefaultRetry
  BY DEF IInv, Types, Deadlines, Fresh
<1>1. CASE Start(c)
  <2>1. PICK at \in {"head", "waiting"} : Goes(c, at)
    BY <1>1 DEF Start, Moves
  <2>. QED BY <1>1, <1>t, <2>1, GoesStep DEF Start, client, remote
<1>2. CASE UseCell(c)
  <2>1. /\ caller[c].at = "waiting" /\ cell[caller[c].rel] # Empty
        /\ UNCHANGED <<cell, holder, retry, valid, since, server, at0>>
    BY <1>2 DEF UseCell, client, remote
  <2> DEFINE list == cell[caller[c].rel]
             new == [caller[c] EXCEPT !.saw = list,
                       !.at = IF list # NoRelease /\ caller[c].art \in list THEN "yes" ELSE "no"]
  <2>2. caller[c].rel \in Releases /\ list \in Listings
    BY <1>t, <2>1 DEF Types, Caller
  <2>3. new \in Caller /\ caller' = [caller EXCEPT ![c] = new]
    BY <1>2, <1>t, <2>2 DEF UseCell, Caller, Over
  <2>4. ~Inside(c)'
    BY <1>t, <2>3 DEF Inside, Types, Caller
  <2>5. new.at = "no" => Rightly(c)
    BY <1>t, <2>1, <2>2 DEF Rightly, IInv, Listed, Holds, Caller, Types
  <2>6. Quiet(c, new)
    BY <1>t, <2>1, <2>2, <2>3, <2>4, <2>5 DEF Quiet, Caller
  <2>. QED BY <2>3, <2>6, QuietStep
<1>3. CASE Acquire(c)
  <2> DEFINE k == CellOf(c)
  <2>1. /\ k \in Cells /\ caller[c].at = "waiting" /\ cell[k] = Empty /\ holder[k] = Nobody
        /\ UNCHANGED <<retry, valid, since, server, at0>>
    BY <1>3, <1>t, CellTyped DEF Acquire, remote
  <2>2. CASE k = Info /\ ~valid
    <3>1. cell' = [cell EXCEPT ![Info] = "public"] /\ UNCHANGED <<caller, holder>>
      BY <1>3, <2>2 DEF Acquire
    <3>2. \A r \in Releases : cell'[r] = cell[r]
      BY <1>t, <3>1, CellsAssumption DEF Types
    <3>3. Types'
      BY <1>t, <2>1, <3>1, <3>2 DEF Types
    <3>4. Guarded'
      <4>1. \A d \in Callers : Inside(d)' => holder'[CellOf(d)'] = d
        BY <3>1 DEF IInv, Guarded, Inside, CellOf
      <4>2. \A j \in Cells : holder'[j] # Nobody => cell'[j] = Empty
        BY <1>t, <2>1, <2>2, <3>1 DEF IInv, Guarded, Types
      <4>3. \A d \in Callers : caller'[d].saw # Empty => cell'[caller'[d].rel] = caller'[d].saw
        BY <1>t, <3>1, <3>2 DEF IInv, Guarded, Types, Caller
      <4>. QED BY <4>1, <4>2, <4>3 DEF Guarded
    <3>5. Deadlines'
      BY <2>1, <3>1 DEF IInv, Deadlines, Fresh
    <3>6. Listed'
      BY <2>1, <3>1, <3>2 DEF IInv, Listed, Holds, PresentIsFound
    <3>. QED BY <3>3, <3>4, <3>5, <3>6 DEF IInv
  <2>3. CASE ~(k = Info /\ ~valid)
    <3> DEFINE new == [caller[c] EXCEPT !.at = "checking"]
    <3>1. /\ new \in Caller /\ caller' = [caller EXCEPT ![c] = new]
          /\ holder' = [holder EXCEPT ![k] = c] /\ cell' = cell
      BY <1>3, <1>t, <2>3 DEF Acquire, Caller, InPoll
    <3>2. /\ caller'[c] = new /\ \A d \in Callers \ {c} : caller'[d] = caller[d]
          /\ new.rel = caller[c].rel /\ new.saw = caller[c].saw
          /\ new.at = "checking"
      BY <1>t, <3>1 DEF Types, Caller
    <3>3. Types'
      BY <1>t, <2>1, <3>1, <3>2 DEF Types
    <3>4. Guarded'
      <4>1. ASSUME NEW d \in Callers, Inside(d)' PROVE holder'[CellOf(d)'] = d
        <5>1. CASE d = c
          <6>1. CellOf(c)' = k
            BY <3>2 DEF CellOf
          <6>. QED BY <1>t, <2>1, <3>1, <5>1, <6>1 DEF Types
        <5>2. CASE d # c
          <6>1. holder[CellOf(d)] = d /\ CellOf(d)' = CellOf(d) /\ caller'[d] = caller[d] /\ d # Nobody
            BY <3>2, <4>1, <5>2, CallersAssumption DEF IInv, Guarded, Inside, CellOf
          <6>. QED BY <1>t, <2>1, <3>1, <6>1, CellTyped DEF Types
        <5>. QED BY <5>1, <5>2
      <4>2. \A j \in Cells : holder'[j] # Nobody => cell'[j] = Empty
        BY <1>t, <2>1, <3>1 DEF IInv, Guarded, Types
      <4>3. \A d \in Callers : caller'[d].saw # Empty => cell'[caller'[d].rel] = caller'[d].saw
        BY <1>t, <3>1, <3>2 DEF IInv, Guarded
      <4>. QED BY <4>1, <4>2, <4>3 DEF Guarded
    <3>5. Deadlines'
      <4>1. new.at # "limited" /\ since' = since /\ (retry' = 0 \/ retry' + since' <= DefaultRetry)
        BY <1>t, <2>1, <3>2
      <4>. QED BY <3>1, <4>1, DeadlineLemma
    <3>6. Listed'
      <4>1. new.art = caller[c].art
        BY <1>t DEF Caller
      <4>. QED BY <2>1, <3>1, <3>2, <4>1 DEF IInv, Listed, Holds, PresentIsFound
    <3>. QED BY <3>3, <3>4, <3>5, <3>6 DEF IInv
  <2>. QED BY <2>2, <2>3
<1>4. CASE Check(c)
  <2>1. CASE retry > 0 /\ c = Find
    <3> DEFINE new == [caller[c] EXCEPT !.at = "asleep", !.wait = retry]
    <3>1. new \in Caller /\ caller' = [caller EXCEPT ![c] = new] /\ holder' = holder
      BY <1>4, <1>t, <2>1 DEF Check, Limited, Caller, Awaiting
    <3>2. Quiet(c, new)
      BY <1>4, <1>t, <3>1 DEF Check, Quiet, Inside, remote, Caller
    <3>. QED BY <3>1, <3>2, QuietStep
  <2>2. CASE retry > 0 /\ c # Find
    <3> DEFINE new == [caller[c] EXCEPT !.at = "limited", !.wait = retry, !.tok = TRUE]
    <3>1. new \in Caller /\ caller' = [caller EXCEPT ![c] = new] /\ holder' = Released(c)
      BY <1>4, <1>t, <2>2 DEF Check, Limited, Caller, InPoll
    <3>2. ~Inside(c)'
      BY <3>1, <1>t DEF Inside, Types, Caller
    <3>3. Quiet(c, new)
      BY <1>4, <1>t, <2>2, <3>1, <3>2 DEF Check, Quiet, remote, Caller
    <3>. QED BY <3>1, <3>3, QuietStep
  <2>3. CASE ~(retry > 0)
    <3> DEFINE new == [caller[c] EXCEPT !.tok = valid, !.at = IF valid /\ ~RestOnly THEN "graphql" ELSE "rest"]
    <3>1. new \in Caller /\ caller' = [caller EXCEPT ![c] = new] /\ holder' = holder
      BY <1>4, <1>t, <2>3 DEF Check, Caller, Awaiting
    <3>2. Quiet(c, new)
      BY <1>4, <1>t, <3>1 DEF Check, Quiet, Inside, remote, Caller
    <3>. QED BY <3>1, <3>2, QuietStep
  <2>. QED BY <2>1, <2>2, <2>3
<1>5. CASE Answered(c)
  <2> DEFINE k == CellOf(c)
  <2>1. /\ k \in Cells /\ holder[k] = c /\ cell[k] = Empty /\ holder' = Released(c)
        /\ UNCHANGED <<retry, valid, since, server, at0>>
    BY <1>5, <1>t, CallersAssumption, CellTyped
    DEF Answered, Asking, remote, IInv, Guarded, Inside
  <2>2. CASE Goes(c, "error") /\ UNCHANGED cell
    BY <1>t, <2>1, <2>2, GoesStep DEF Over
  <2>3. ASSUME NEW v, cell' = [cell EXCEPT ![k] = v], Goes(c, "waiting"),
               k \in Releases => v \in Listings,
               server.private = FALSE /\ k \in Releases => v = server.list[k]
        PROVE  IInv'
    <3>1. PICK new \in Caller : Went(c, new, "waiting")
      BY <1>t, <2>3, GoesLemma DEF Awaiting
    <3>2. /\ caller'[c] = new /\ \A d \in Callers \ {c} : caller'[d] = caller[d]
          /\ new.rel = caller[c].rel /\ new.saw = caller[c].saw
          /\ new.art = caller[c].art /\ new.at = "waiting"
          /\ caller' \in [Callers -> Caller] /\ caller' = [caller EXCEPT ![c] = new]
      BY <1>t, <3>1 DEF Types, Went
    <3>3. /\ cell'[k] = v /\ \A j \in Cells \ {k} : cell'[j] = cell[j]
          /\ DOMAIN cell' = Cells
      BY <1>t, <2>1, <2>3 DEF Types
    <3>4. /\ holder' \in [Cells -> Callers \cup {Nobody}]
          /\ \A j \in Cells : holder'[j] = IF holder[j] = c THEN Nobody ELSE holder[j]
      BY <1>t, <2>1 DEF Types, Released
    <3>5. Types'
      <4>1. \A r \in Releases : cell'[r] \in Listings \cup {Empty}
        BY <1>t, <2>3, <3>3 DEF Types, Cells
      <4>. QED BY <1>t, <2>1, <3>2, <3>3, <3>4, <4>1 DEF Types
    <3>6. Guarded'
      <4>1. ASSUME NEW d \in Callers, Inside(d)' PROVE holder'[CellOf(d)'] = d
        <5>1. d # c
          BY <3>2, <4>1 DEF Inside
        <5>2. holder[CellOf(d)] = d /\ CellOf(d)' = CellOf(d) /\ CellOf(d) \in Cells
          BY <1>t, <3>2, <4>1, <5>1, CellTyped DEF IInv, Guarded, Inside, CellOf
        <5>. QED BY <3>4, <5>1, <5>2
      <4>2. \A j \in Cells : holder'[j] # Nobody => cell'[j] = Empty
        BY <2>1, <3>3, <3>4 DEF IInv, Guarded
      <4>3. ASSUME NEW d \in Callers, caller'[d].saw # Empty
            PROVE  cell'[caller'[d].rel] = caller'[d].saw
        <5>1. caller'[d].saw = caller[d].saw /\ caller'[d].rel = caller[d].rel
          BY <3>2
        <5>2. cell[caller[d].rel] = caller[d].saw /\ caller[d].rel # k /\ caller[d].rel \in Cells
          BY <1>t, <2>1, <4>3, <5>1 DEF IInv, Guarded, Types, Caller, Cells
        <5>. QED BY <3>3, <5>1, <5>2
      <4>. QED BY <4>1, <4>2, <4>3 DEF Guarded
    <3>7. Deadlines'
      <4>1. new.at # "limited" /\ since' = since /\ (retry' = 0 \/ retry' + since' <= DefaultRetry)
        BY <1>t, <2>1, <3>2
      <4>. QED BY <3>2, <4>1, DeadlineLemma
    <3>8. Listed'
      <4>1. server.private = FALSE => PresentIsFound'
        BY <2>1, <3>2 DEF IInv, Listed, PresentIsFound
      <4>2. ASSUME server.private = FALSE, NEW r \in Releases, at0[r] # NoRelease
            PROVE  /\ Holds(server.list[r], r)'
                   /\ (cell[r] # Empty => Holds(cell[r], r))'
        <5>1. Holds(server.list[r], r) /\ (cell[r] # Empty => Holds(cell[r], r))
          BY <4>2 DEF IInv, Listed
        <5>2. cell'[r] = cell[r] \/ cell'[r] = server.list[r]
          BY <2>1, <2>3, <3>3, <4>2 DEF Cells
        <5>3. server' = server /\ at0' = at0
          BY <2>1
        <5>. QED BY <5>1, <5>2, <5>3 DEF Holds
      <4>. QED BY <2>1, <4>1, <4>2 DEF Listed
    <3>. QED BY <3>5, <3>6, <3>7, <3>8 DEF IInv
  <2>4. CASE cell' = [cell EXCEPT ![k] = Found(c)] /\ Goes(c, "waiting")
    <3>1. k \in Releases => Found(c) = server.list[k] /\ Found(c) \in Listings
      BY <1>t, CellsAssumption DEF Found, Types, CellOf
    <3>. QED BY <2>3, <2>4, <3>1
  <2>5. CASE /\ server.private /\ c # Find
             /\ cell' = [cell EXCEPT ![k] = NoRelease] /\ Goes(c, "waiting")
    <3>1. NoRelease \in Listings /\ server.private # FALSE
      BY <2>5 DEF Listings
    <3>. QED BY <2>3, <2>5, <3>1
  <2>. QED BY <1>5, <2>2, <2>4, <2>5 DEF Answered
<1>6. CASE Breaks(c)
  BY <1>6, <1>t, GoesStep DEF Breaks, Over, remote
<1>7. CASE GraphqlRefuses(c)
  <2> DEFINE new == [caller[c] EXCEPT !.at = "rest", !.tok = FALSE]
  <2>f. valid' \in BOOLEAN
    BY <1>7 DEF GraphqlRefuses
  <2>1. new \in Caller /\ caller' = [caller EXCEPT ![c] = new]
    BY <1>7, <1>t DEF GraphqlRefuses, Caller, Awaiting
  <2>2. Quiet(c, new)
    BY <1>7, <1>t, <2>f, <2>1 DEF GraphqlRefuses, Quiet, Inside, remote, Caller
  <2>. QED BY <2>1, <2>2, QuietStep
<1>8. CASE RestRefuses(c)
  <2>1. PICK at \in {"head", "error"} : Goes(c, at)
    BY <1>8 DEF RestRefuses
  <2>. QED BY <1>8, <1>t, <2>1, GoesStep DEF RestRefuses, Over, remote
<1>9. CASE GraphqlLimits(c)
  <2>1. CASE c = Find
    <3> DEFINE new == [caller[c] EXCEPT !.at = "asleep", !.wait = ShortRetry]
    <3>1. new \in Caller /\ caller' = [caller EXCEPT ![c] = new] /\ holder' = holder
      BY <1>9, <1>t, <2>1, RetryAssumption DEF GraphqlLimits, Limited, Caller, Awaiting
    <3>2. Quiet(c, new)
      BY <1>9, <1>t, <3>1, RetryAssumption DEF GraphqlLimits, Quiet, Inside, Caller
    <3>. QED BY <3>1, <3>2, QuietStep
  <2>2. CASE c # Find
    <3> DEFINE new == [caller[c] EXCEPT !.at = "limited", !.wait = ShortRetry, !.tok = FALSE]
    <3>1. new \in Caller /\ caller' = [caller EXCEPT ![c] = new] /\ holder' = Released(c)
      BY <1>9, <1>t, <2>2, RetryAssumption DEF GraphqlLimits, Limited, Caller, InPoll
    <3>2. ~Inside(c)'
      BY <3>1, <1>t DEF Inside, Types, Caller
    <3>3. Quiet(c, new)
      BY <1>9, <1>t, <2>2, <3>1, <3>2, RetryAssumption DEF GraphqlLimits, Quiet, Caller
    <3>. QED BY <3>1, <3>3, QuietStep
  <2>. QED BY <2>1, <2>2
<1>10. CASE Store(c)
  <2>1. /\ retry' = Deadline(c) /\ retry' \in Nat
        /\ retry' = 0 \/ retry' + since <= DefaultRetry
        /\ c # Find
    BY <1>10, <1>t, RetryAssumption DEF Store, Deadline, IInv, Deadlines, Fresh, Caller
  <2>2. CASE AfterLimit(c) = "asleep"
    <3> DEFINE new == [caller[c] EXCEPT !.at = "asleep", !.tok = FALSE]
    <3>1. new \in Caller /\ caller' = [caller EXCEPT ![c] = new]
      BY <1>10, <1>t, <2>2 DEF Store, Caller, Awaiting
    <3>2. Quiet(c, new)
      BY <1>10, <1>t, <2>1, <3>1 DEF Store, Quiet, Inside, remote, Caller
    <3>. QED BY <3>1, <3>2, QuietStep
  <2>3. CASE AfterLimit(c) # "asleep"
    <3>1. Goes(c, "head")
      BY <1>10, <2>3 DEF Store, AfterLimit
    <3>. QED BY <1>10, <1>t, <2>1, <3>1, GoesStep DEF Store, remote
  <2>. QED BY <2>2, <2>3
<1>11. CASE Wake(c)
  <2>1. PICK at \in {"checking", "waiting"} :
          Goes(c, at) /\ caller[c].at = "asleep" /\ (at = "checking" => c = Find)
    BY <1>11 DEF Wake, Moves
  <2>. QED BY <1>11, <1>t, <2>1, GoesStep DEF Wake, client, remote
<1>12. CASE Head(c)
  <2>1. PICK at \in {"yes", "no", "error"} : Goes(c, at) /\ (at = "no" => Rightly(c))
    BY <1>12, <1>t DEF Head, Moves, Rightly, IInv, Listed, Holds, Types, Caller
  <2>. QED BY <1>12, <1>t, <2>1, GoesStep DEF Head, Over, client, remote
<1>. QED
  BY <1>1, <1>2, <1>3, <1>4, <1>5, <1>6, <1>7, <1>8, <1>9, <1>10, <1>11, <1>12 DEF Step

LEMMA NextIInv == IInv /\ [Next]_vars => IInv'
<1> SUFFICES ASSUME IInv, [Next]_vars PROVE IInv' OBVIOUS
<1>t. /\ Types /\ retry \in Nat /\ since \in Nat /\ valid \in BOOLEAN
      /\ retry = 0 \/ retry + since <= DefaultRetry
  BY DEF IInv, Types, Deadlines, Fresh
<1>1. ASSUME NEW c \in Callers, Step(c) PROVE IInv'
  BY <1>1, StepIInv
<1>2. ASSUME NEW c \in Callers, Fetch(c) PROVE IInv'
  <2>1. PICK at \in {"error", "fetched"} : Goes(c, at)
    BY <1>2 DEF Fetch, Moves
  <2>2. valid' \in BOOLEAN
    BY <1>2, <1>t DEF Fetch, Types
  <2>. QED BY <1>2, <1>t, <2>1, <2>2, GoesStep DEF Fetch, Over, remote
<1>3. ASSUME NEW c \in Callers, Dropped(c) PROVE IInv'
  BY <1>3, <1>t, GoesStep DEF Dropped, Over, remote
<1>4. CASE Tick
  <2>1. /\ UNCHANGED <<cell, holder, valid, server, at0>>
        /\ \A c \in Callers : caller[c].at \notin InPoll
        /\ retry' = IF retry = 0 THEN 0 ELSE retry - 1
        /\ since' = IF since < DefaultRetry THEN since + 1 ELSE since
    BY <1>4 DEF Tick
  <2>2. /\ retry' \in Nat /\ since' \in Nat
        /\ retry' = 0 \/ retry' + since' <= DefaultRetry
    BY <1>t, <2>1, RetryAssumption
  <2>3. ASSUME NEW c \in Callers
        PROVE  /\ caller'[c] \in Caller
               /\ caller'[c].at = caller[c].at
               /\ caller'[c].rel = caller[c].rel
               /\ caller'[c].art = caller[c].art /\ caller'[c].saw = caller[c].saw
    <3> DEFINE w == IF caller[c].at = "asleep" /\ caller[c].wait > 0
                    THEN caller[c].wait - 1 ELSE caller[c].wait
    <3>1. w \in Nat /\ caller'[c] = [caller[c] EXCEPT !.wait = w]
      <4>1. caller[c].wait \in Nat
        BY <1>t DEF Types, Caller
      <4>2. w \in Nat
        BY <4>1
      <4>3. caller'[c] = [caller[c] EXCEPT !.wait = w]
        BY <1>4, Zenon DEF Tick
      <4>. QED BY <4>2, <4>3
    <3> HIDE DEF w
    <3>2. caller[c] \in Caller
      BY <1>t DEF Types
    <3>. QED BY <3>1, <3>2 DEF Caller
  <2>4. caller' \in [Callers -> Caller]
    BY <1>4, <2>3 DEF Tick
  <2>5. Types'
    BY <1>t, <2>1, <2>2, <2>3, <2>4 DEF Types
  <2>6. Guarded'
    BY <2>1, <2>3 DEF IInv, Guarded, Inside, CellOf
  <2>7. Deadlines'
    BY <2>1, <2>2, <2>3 DEF Deadlines, Fresh, InPoll
  <2>8. Listed'
    BY <2>1, <2>3 DEF IInv, Listed, Holds, PresentIsFound
  <2>. QED BY <2>5, <2>6, <2>7, <2>8 DEF IInv
<1>5. CASE Publish
  <2>1. PICK r \in Releases, a \in Artifacts :
          /\ server.list[r] # NoRelease => a \notin server.list[r]
          /\ server' = [server EXCEPT !.list[r] = IF @ = NoRelease THEN {a} ELSE @ \cup {a}]
    BY <1>5 DEF Publish
  <2>2. UNCHANGED <<caller, cell, holder, retry, valid, since, at0>>
    BY <1>5 DEF Publish, client
  <2> DEFINE new == IF server.list[r] = NoRelease THEN {a} ELSE server.list[r] \cup {a}
  <2>3. /\ new \in SUBSET Artifacts /\ new # NoRelease
        /\ server.list[r] # NoRelease => server.list[r] \subseteq new
    BY <1>t, NoReleaseAssumption DEF Types, Listings
  <2>4. /\ server'.private = server.private
        /\ server'.list = [server.list EXCEPT ![r] = new]
        /\ server' \in [list : [Releases -> Listings], private : BOOLEAN, known : BOOLEAN]
    BY <1>t, <2>1, <2>3 DEF Types, Listings
  <2>5. Types' /\ Guarded' /\ Deadlines'
    BY <2>2, <2>4 DEF IInv, Types, Guarded, Inside, CellOf, Deadlines, Fresh
  <2>6. Listed'
    <3>1. server.private = FALSE => PresentIsFound'
      BY <2>2, <2>4 DEF IInv, Listed, PresentIsFound
    <3>2. ASSUME server.private = FALSE, NEW q \in Releases, at0[q] # NoRelease
          PROVE  Holds(server.list[q], q)' /\ (cell[q] # Empty => Holds(cell[q], q))'
      <4>1. Holds(server.list[q], q) /\ (cell[q] # Empty => Holds(cell[q], q))
        BY <3>2 DEF IInv, Listed
      <4>2. server'.list[q] = server.list[q] \/ (q = r /\ server'.list[q] = new)
        BY <1>t, <2>4 DEF Types
      <4>. QED BY <2>2, <2>3, <4>1, <4>2 DEF Holds
    <3>. QED BY <2>2, <2>4, <3>1, <3>2 DEF Listed
  <2>. QED BY <2>5, <2>6 DEF IInv
<1>6. CASE Launch
  <2>1. UNCHANGED <<cell, holder, retry, valid, since, server, at0>>
    BY <1>6 DEF Launch, client, remote
  <2>2. ASSUME NEW c \in Callers
        PROVE  /\ caller'[c] \in Caller
               /\ caller'[c].at = caller[c].at \/ caller'[c].at \in {"known", "waiting"}
               /\ caller'[c].rel = caller[c].rel /\ caller'[c].art = caller[c].art
               /\ caller'[c].tok = caller[c].tok /\ caller'[c].wait = caller[c].wait
               /\ caller'[c].saw = caller[c].saw
    <3>1. PICK at \in {"known", "waiting", caller[c].at} : caller'[c] = [caller[c] EXCEPT !.at = at]
      <4>1. caller[c] = [caller[c] EXCEPT !.at = caller[c].at]
        BY <1>t DEF Types, Caller
      <4>2. caller'[c] \in {[caller[c] EXCEPT !.at = "known"], [caller[c] EXCEPT !.at = "waiting"], caller[c]}
        BY <1>6 DEF Launch
      <4>. QED BY <4>1, <4>2
    <3>2. at \in {"absent", "start"} \cup Awaiting \cup InPoll \cup Over
      BY <1>t DEF Types, Caller, Over, Awaiting
    <3>3. caller[c] \in Caller
      BY <1>t DEF Types
    <3>4. /\ caller'[c] \in Caller /\ caller'[c].at = at
          /\ caller'[c].rel = caller[c].rel /\ caller'[c].art = caller[c].art
          /\ caller'[c].tok = caller[c].tok /\ caller'[c].wait = caller[c].wait
          /\ caller'[c].saw = caller[c].saw
      BY <3>1, <3>2, <3>3 DEF Caller
    <3>. QED BY <3>1, <3>4
  <2>3. caller' \in [Callers -> Caller]
    BY <1>6, <2>2 DEF Launch
  <2>4. Types'
    BY <1>t, <2>1, <2>3 DEF Types
  <2>5. Guarded'
    BY <2>1, <2>2 DEF IInv, Guarded, Inside, CellOf
  <2>6. Deadlines'
    BY <2>1, <2>2 DEF IInv, Deadlines, Fresh
  <2>7. Listed'
    BY <2>1, <2>2 DEF IInv, Listed, Holds, PresentIsFound
  <2>. QED BY <2>4, <2>5, <2>6, <2>7 DEF IInv
<1>7. CASE UNCHANGED vars
  BY <1>7 DEF vars, IInv, Types, Guarded, Inside, CellOf, Deadlines, Fresh, Listed, Holds, PresentIsFound
<1>. QED BY <1>1, <1>2, <1>3, <1>4, <1>5, <1>6, <1>7 DEF Next

LEMMA Invariance == Spec => []IInv
BY InitIInv, NextIInv, PTL DEF Spec

-----------------------------------------------------------------------------
(* All tasks that ask for a release answer from one listing of it, however many
   they are and whatever is uploaded, fails or is aborted meanwhile. *)
THEOREM OneForAll == Spec => []OneListing
<1>1. IInv => OneListing
  BY DEF IInv, Guarded, OneListing
<1>. QED BY Invariance, <1>1, PTL

LEMMA Overlooked == IInv => PresentIsFound
<1> SUFFICES ASSUME IInv PROVE PresentIsFound OBVIOUS
<1>1. CASE server.private = FALSE
  BY <1>1 DEF IInv, Listed
<1>2. CASE server.private = TRUE
  BY <1>2 DEF PresentIsFound
<1>. QED BY <1>1, <1>2 DEF IInv, Types

(* An artifact of a public repository that was there from the start is never
   reported missing: neither a limit nor an error nor a bad token is taken for
   an answer. *)
THEOREM NeverOverlooked == Spec => []PresentIsFound
BY Invariance, Overlooked, PTL

(* Tasks that store a deadline they have read before never push it beyond what
   the last rate limit asked for. *)
THEOREM DeadlineBounded == Spec => []NotExtended
<1>1. IInv => NotExtended
  BY DEF IInv, Deadlines, Fresh, NotExtended
<1>. QED BY Invariance, <1>1, PTL

-----------------------------------------------------------------------------
(* FuturesResolver, of any set of probes *)

LEMMA ResolverTypeInit == R!Init => R!TypeOK
BY DEF R!Init, R!TypeOK

LEMMA ResolverTypeNext == R!TypeOK /\ [R!Next]_R!vars => R!TypeOK'
<1> SUFFICES ASSUME R!TypeOK, [R!Next]_R!vars PROVE R!TypeOK' OBVIOUS
<1>1. ASSUME NEW f \in Metas, NEW result \in R!Outcome, R!FutureEnds(f, result) PROVE R!TypeOK'
  BY <1>1 DEF R!FutureEnds, R!TrySend, R!TypeOK, R!Ended
<1>2. ASSUME NEW f \in Metas, R!Cancelled(f) PROVE R!TypeOK'
  BY <1>2 DEF R!Cancelled, R!TypeOK, R!Ended
<1>3. CASE R!Receive
  BY <1>3 DEF R!Receive, R!TypeOK
<1>4. CASE R!AllSendersGone
  BY <1>4 DEF R!AllSendersGone, R!TypeOK
<1>5. CASE R!Abandoned
  BY <1>5 DEF R!Abandoned, R!TypeOK
<1>6. CASE UNCHANGED R!vars
  BY <1>6 DEF R!vars, R!TypeOK
<1>. QED BY <1>1, <1>2, <1>3, <1>4, <1>5, <1>6 DEF R!Next, R!Terminated

(* As long as no probe has failed the channel holds, while resolve() waits, the
   package that was found first; when it has returned it has returned that one,
   or all probes have ended without any. *)
FirstIsKept ==
  (\A f \in Metas : outcome[f] # "err") =>
    /\ rx = "waiting" => winner = Nobody /\ slot = first
    /\ rx = "returned" => winner = first
    /\ rx = "returned" /\ first = Nobody => \A f \in Metas : task[f] \in R!Ended
    /\ first # Nobody => outcome[first] = "some"

(* A probe has a result when it has ended by itself, and none is cancelled as
   long as resolve() waits, nor where it returns None. *)
ResultsKnown ==
  /\ R!Returned(Nobody) => \A f \in Metas : task[f] \in R!Ended \ {"cancelled"}
  /\ \A f \in Metas :
    /\ outcome[f] = "pending" <=> task[f] \in {"running", "cancelled"}
    /\ task[f] = "cancelled" => rx # "waiting"
    /\ outcome[f] = "some" => first # Nobody

RInv == R!TypeOK /\ FirstIsKept /\ ResultsKnown

LEMMA RInvInit == R!Init => RInv
BY DEF R!Init, RInv, R!TypeOK, FirstIsKept, ResultsKnown, R!Returned

LEMMA RInvNext == RInv /\ [R!Next]_R!vars => RInv'
<1> SUFFICES ASSUME RInv, [R!Next]_R!vars PROVE RInv' OBVIOUS
<1>t. R!TypeOK /\ R!TypeOK'
  BY ResolverTypeNext DEF RInv
<1>1. ASSUME NEW f \in Metas, NEW result \in R!Outcome, R!FutureEnds(f, result)
      PROVE  FirstIsKept' /\ ResultsKnown'
  <2> USE <1>t, <1>1, CallersAssumption DEF Callers
  <2>1. /\ outcome' = [outcome EXCEPT ![f] = result] /\ outcome[f] = "pending"
        /\ \A g \in Metas : outcome'[g] # "err" => outcome[g] # "err"
    BY DEF R!FutureEnds, R!TypeOK, RInv, ResultsKnown
  <2>2. CASE result = "none"
    <3>1. FirstIsKept'
      BY <2>1, <2>2 DEF R!FutureEnds, FirstIsKept, R!TypeOK, R!Ended, RInv
    <3>2. ResultsKnown'
      BY <2>1, <2>2 DEF R!FutureEnds, ResultsKnown, R!Returned, R!TypeOK, R!Ended, RInv
    <3>. QED BY <3>1, <3>2
  <2>3. CASE result = "some"
    <3>1. FirstIsKept'
      BY <2>1, <2>3 DEF R!FutureEnds, R!TrySend, FirstIsKept, R!TypeOK, R!Ended, RInv
    <3>2. ResultsKnown'
      BY <2>1, <2>3 DEF R!FutureEnds, R!TrySend, ResultsKnown, R!Returned, R!TypeOK, R!Ended, RInv
    <3>. QED BY <3>1, <3>2
  <2>4. CASE result = "err"
    <3>1. FirstIsKept'
      BY <2>1, <2>4 DEF FirstIsKept, R!TypeOK
    <3>2. ResultsKnown'
      BY <2>1, <2>4 DEF R!FutureEnds, R!TrySend, ResultsKnown, R!Returned, R!TypeOK, R!Ended, RInv
    <3>. QED BY <3>1, <3>2
  <2>. QED BY <2>2, <2>3, <2>4 DEF R!Outcome
<1>2. ASSUME NEW f \in Metas, R!Cancelled(f) PROVE FirstIsKept' /\ ResultsKnown'
  BY <1>t, <1>2 DEF RInv, R!Cancelled, FirstIsKept, ResultsKnown, R!Returned, R!TypeOK, R!Ended
<1>3. CASE R!Receive
  BY <1>t, <1>3 DEF RInv, R!Receive, FirstIsKept, ResultsKnown, R!Returned, R!TypeOK
<1>4. CASE R!AllSendersGone
  BY <1>t, <1>4 DEF RInv, R!AllSendersGone, FirstIsKept, ResultsKnown, R!Returned, R!TypeOK
<1>5. CASE R!Abandoned
  BY <1>t, <1>5 DEF RInv, R!Abandoned, FirstIsKept, ResultsKnown, R!Returned, R!TypeOK
<1>6. CASE UNCHANGED R!vars
  BY <1>t, <1>6 DEF RInv, R!vars, FirstIsKept, ResultsKnown, R!Returned
<1>. QED BY <1>t, <1>1, <1>2, <1>3, <1>4, <1>5, <1>6 DEF R!Next, R!Terminated, RInv

LEMMA RInvFirst == RInv => R!FirstFoundWins
BY DEF RInv, R!TypeOK, FirstIsKept, R!FirstFoundWins, R!Returned

(* Of any set of probes none of which fails, resolve() returns the package that
   was found first, and None only if there is none. *)
THEOREM FirstWins == R!Spec => []R!FirstFoundWins
BY RInvInit, RInvNext, RInvFirst, PTL DEF R!Spec

-----------------------------------------------------------------------------
(* FindPackage: every behaviour of it is one of the client and one of the
   resolver, so that what is proved of these is true of it. *)

LEMMA StepOfBoth == [FindNext]_findVars => [Next]_vars /\ [R!Next]_R!vars
<1> SUFFICES ASSUME [FindNext]_findVars PROVE [Next]_vars /\ [R!Next]_R!vars OBVIOUS
<1> USE DEF R!vars, resolver
<1>1. CASE Around
  BY <1>1 DEF Around, Next
<1>2. CASE Resolve
  BY <1>2 DEF Resolve, R!Next
<1>3. ASSUME NEW c \in Callers \ Metas, OtherStep(c) PROVE [Next]_vars /\ [R!Next]_R!vars
  BY <1>3 DEF OtherStep, Next
<1>4. ASSUME NEW c \in Metas, ProbeStep(c) PROVE [Next]_vars /\ [R!Next]_R!vars
  <2>1. Next
    BY <1>4 DEF ProbeStep, Next, Callers
  <2>2. \A at \in DOMAIN Result : Result[at] \in R!Outcome
    BY DEF Result, R!Outcome
  <2>. QED BY <1>4, <2>1, <2>2 DEF ProbeStep, R!Next
<1>5. ASSUME NEW c \in Metas, ProbeDropped(c) PROVE [Next]_vars /\ [R!Next]_R!vars
  BY <1>5 DEF ProbeDropped, Next, R!Next, Callers
<1>6. ASSUME NEW c \in Metas, FetchFound(c) PROVE [Next]_vars /\ [R!Next]_R!vars
  BY <1>6 DEF FetchFound, Next, Callers
<1>7. CASE UNCHANGED findVars
  BY <1>7 DEF findVars
<1>. QED BY <1>1, <1>2, <1>3, <1>4, <1>5, <1>6, <1>7 DEF FindNext

(* find() with its probes implements both the shared client and the resolver. *)
THEOREM Composition == FindSpec => Spec /\ R!Spec
BY StepOfBoth, PTL DEF FindSpec, FindInit, Spec, R!Spec

(* What a probe has handed over is what it has found out, a probe that ended is
   over in the client too, and none runs before find() knows the repository. *)
Agree ==
  \A c \in Metas :
    /\ outcome[c] = "none" => caller[c].at = "no"
    /\ task[c] # "running" => caller[c].at \in Over
    /\ caller[c].at # "absent" => caller[Find].at = "known"

LEMMA AgreeInit == FindInit => Agree
<1> SUFFICES ASSUME FindInit PROVE Agree OBVIOUS
<1>1. \A c \in Metas : outcome[c] = "pending" /\ task[c] = "running"
  BY DEF FindInit, R!Init
<1>2. \A c \in Metas : caller[c].at = "absent"
  BY DEF FindInit, Init, Callers
<1>. QED BY <1>1, <1>2 DEF Agree

(* What a task does moves no other one. *)
LEMMA OneMoves ==
  ASSUME NEW c \in Callers, Step(c) \/ Fetch(c) \/ Dropped(c)
  PROVE  \/ UNCHANGED caller
         \/ \E new : caller' = [caller EXCEPT ![c] = new]
<1>g. ASSUME NEW at, Goes(c, at) PROVE \E new : caller' = [caller EXCEPT ![c] = new]
  BY <1>g DEF Goes
<1>1. CASE Start(c)
  BY <1>1, <1>g DEF Start, Moves
<1>2. CASE UseCell(c)
  <2> DEFINE list == cell[caller[c].rel]
             new == [caller[c] EXCEPT !.saw = list,
                       !.at = IF list # NoRelease /\ caller[c].art \in list THEN "yes" ELSE "no"]
  <2>1. caller' = [caller EXCEPT ![c] = new]
    BY <1>2 DEF UseCell
  <2>. QED BY <2>1
<1>3. CASE Acquire(c)
  BY <1>3 DEF Acquire
<1>4. CASE Check(c) \/ GraphqlLimits(c)
  <2>1. ASSUME NEW w, NEW k, Limited(c, w, k) PROVE \E new : caller' = [caller EXCEPT ![c] = new]
    BY <2>1 DEF Limited
  <2>2. CASE retry > 0 \/ GraphqlLimits(c)
    BY <1>4, <2>1, <2>2 DEF Check, GraphqlLimits
  <2>3. CASE ~(retry > 0) /\ Check(c)
    BY <2>3 DEF Check
  <2>. QED BY <1>4, <2>2, <2>3
<1>5. CASE Answered(c) \/ Breaks(c) \/ RestRefuses(c)
  BY <1>5, <1>g DEF Answered, Breaks, RestRefuses
<1>6. CASE GraphqlRefuses(c)
  BY <1>6 DEF GraphqlRefuses
<1>7. CASE Store(c)
  BY <1>7, <1>g DEF Store
<1>8. CASE Wake(c) \/ Head(c) \/ Fetch(c) \/ Dropped(c)
  BY <1>8, <1>g DEF Wake, Head, Fetch, Dropped, Moves
<1>. QED BY <1>1, <1>2, <1>3, <1>4, <1>5, <1>6, <1>7, <1>8 DEF Step

(* From where a task can still move. *)
LEMMA MovesFrom ==
  ASSUME NEW c \in Callers, Step(c) \/ Dropped(c)
  PROVE  \/ UNCHANGED caller
         \/ caller[c].at \in {"start"} \cup Awaiting \cup InPoll
BY DEF Step, Dropped, Start, UseCell, Acquire, Check, Answered, Breaks, Asking, GraphqlRefuses,
   RestRefuses, GraphqlLimits, Store, Wake, Head, Moves, Awaiting, InPoll

LEMMA AgreeNext == IInv /\ RInv /\ Agree /\ [FindNext]_findVars => Agree'
<1> SUFFICES ASSUME IInv, RInv, Agree, [FindNext]_findVars PROVE Agree' OBVIOUS
<1>t. caller \in [Callers -> Caller] /\ R!TypeOK /\ Find \notin Metas
  BY CallersAssumption DEF IInv, Types, RInv
<1>1. ASSUME UNCHANGED <<outcome, task>>, \A c \in Callers : caller'[c].at = caller[c].at
      PROVE  Agree'
  BY <1>1 DEF Agree, Callers
<1>2. CASE Around
  <2>1. CASE Tick
    <3>1. \A c \in Callers : caller'[c].at = caller[c].at
      BY <1>t, <2>1 DEF Tick, Caller
    <3>. QED BY <1>1, <1>2, <3>1 DEF Around, resolver
  <2>2. CASE Publish
    BY <1>1, <1>2, <2>2 DEF Around, resolver, Publish
  <2>3. CASE Launch
    <3>1. \A c \in Metas : caller[c].at = "absent"
      BY <2>3 DEF Agree, Launch
    <3>2. \A c \in Metas : outcome[c] # "none" /\ task[c] = "running"
      BY <3>1 DEF Agree, Over
    <3>3. caller'[Find].at = "known"
      BY <1>t, <2>3 DEF Launch, Callers, Caller
    <3>. QED BY <1>2, <3>2, <3>3 DEF Around, resolver, Agree
  <2>. QED BY <1>2, <2>1, <2>2, <2>3 DEF Around
<1>3. CASE Resolve
  BY <1>1, <1>3 DEF Resolve, vars, R!Receive, R!AllSendersGone, R!Abandoned
<1>4. ASSUME NEW c \in Callers \ Metas, OtherStep(c) PROVE Agree'
  <2>1. UNCHANGED <<outcome, task>>
    BY <1>4 DEF OtherStep, resolver
  <2>2. CASE UNCHANGED caller
    BY <1>1, <2>1, <2>2
  <2>3. CASE ~UNCHANGED caller
    <3>1. /\ \A d \in Callers \ {c} : caller'[d] = caller[d]
          /\ caller[c].at # "known"
      BY <1>t, <1>4, <2>3, OneMoves, MovesFrom DEF OtherStep, Awaiting, InPoll
    <3>2. CASE c = Find
      BY <2>1, <3>1, <3>2 DEF Agree, Callers
    <3>3. CASE c # Find
      BY <2>1, <3>1, <3>3 DEF Agree, Callers
    <3>. QED BY <3>2, <3>3
  <2>. QED BY <2>2, <2>3
<1>5. ASSUME NEW c \in Metas, ProbeStep(c) PROVE Agree'
  <2>1. /\ \A d \in Callers \ {c} : caller'[d] = caller[d]
        /\ \A d \in Metas \ {c} : outcome'[d] = outcome[d] /\ task'[d] = task[d]
    BY <1>t, <1>5, OneMoves DEF ProbeStep, Callers, resolver, R!FutureEnds, R!TrySend, R!TypeOK
  <2>2. caller[c].at # "absent" => caller[Find].at = "known"
    BY DEF Agree
  <2>3. caller'[c].at # "absent" => caller'[Find].at = "known"
    <3>1. CASE UNCHANGED caller
      BY <2>2, <3>1
    <3>2. CASE ~UNCHANGED caller
      BY <1>t, <1>5, <2>1, <2>2, <3>2, MovesFrom DEF ProbeStep, Callers, Awaiting, InPoll
    <3>. QED BY <3>1, <3>2
  <2>4. /\ outcome'[c] = "none" => caller'[c].at = "no"
        /\ task'[c] # "running" => caller'[c].at \in Over
    <3>1. CASE caller'[c].at \in DOMAIN Result
      <4>1. outcome'[c] = Result[caller'[c].at]
        BY <1>t, <1>5, <3>1 DEF ProbeStep, R!FutureEnds, R!TypeOK
      <4>. QED BY <3>1, <4>1 DEF Result, Over
    <3>2. CASE caller'[c].at \notin DOMAIN Result
      <4>1. outcome' = outcome /\ task' = task
        BY <1>5, <3>2 DEF ProbeStep, resolver
      <4>2. CASE UNCHANGED caller
        BY <4>1, <4>2 DEF Agree
      <4>3. CASE ~UNCHANGED caller
        <5>1. caller[c].at \in {"start"} \cup Awaiting \cup InPoll
          BY <1>5, <4>3, MovesFrom DEF ProbeStep, Callers
        <5>2. task[c] = "running" /\ outcome[c] # "none"
          BY <5>1 DEF Agree, Over, Awaiting, InPoll
        <5>. QED BY <4>1, <5>2
      <4>. QED BY <4>2, <4>3
    <3>. QED BY <3>1, <3>2
  <2>. QED BY <1>t, <2>1, <2>3, <2>4 DEF Agree, Callers
<1>6. ASSUME NEW c \in Metas, ProbeDropped(c) PROVE Agree'
  <2>1. /\ \A d \in Callers \ {c} : caller'[d] = caller[d]
        /\ caller'[c].at = "dropped" /\ caller[c].at \in Awaiting
    BY <1>t, <1>6 DEF ProbeDropped, Dropped, Goes, Caller, Callers
  <2>2. /\ outcome' = outcome /\ \A d \in Metas \ {c} : task'[d] = task[d]
    BY <1>t, <1>6 DEF ProbeDropped, R!Cancelled, R!TypeOK
  <2>3. outcome[c] # "none"
    BY <2>1 DEF Agree, Awaiting
  <2>. QED BY <1>t, <2>1, <2>2, <2>3 DEF Agree, Callers, Over, Awaiting
<1>7. ASSUME NEW c \in Metas, FetchFound(c) PROVE Agree'
  <2>1. UNCHANGED <<outcome, task>>
    BY <1>7 DEF FetchFound, resolver
  <2>2. /\ \A d \in Callers \ {c} : caller'[d] = caller[d]
        /\ caller[c].at = "yes" /\ caller'[c].at \in Over
    BY <1>t, <1>7 DEF FetchFound, Fetch, Moves, Goes, Caller, Callers, Over
  <2>. QED BY <1>t, <2>1, <2>2 DEF Agree, Callers
<1>8. CASE UNCHANGED findVars
  BY <1>1, <1>8 DEF findVars, vars, resolver
<1>. QED BY <1>2, <1>3, <1>4, <1>5, <1>6, <1>7, <1>8 DEF FindNext

(* find() answers with the package found first; None, where no probe has failed
   and the repository is public, means that there was nothing to find. *)
THEOREM AnswersRightly == FindSpec => []FindAnswers
<1>1. ASSUME IInv, RInv, Agree PROVE FindAnswers
  <2>1. SUFFICES ASSUME \A c \in Metas : outcome[c] # "err", R!Returned(Nobody), NEW c \in Metas
                 PROVE  LET list == at0[caller[c].rel] IN
                          list # NoRelease /\ caller[c].art \in list => server.private
    BY <1>1, RInvFirst DEF FindAnswers
  <2>2. first = Nobody
    BY <1>1, <2>1 DEF RInv, FirstIsKept, R!Returned
  <2>3. outcome[c] = "none"
    BY <1>1, <2>1, <2>2 DEF RInv, R!TypeOK, R!Outcome, R!Ended, ResultsKnown
  <2>4. caller[c].at = "no"
    BY <1>1, <2>3 DEF Agree
  <2>5. PresentIsFound
    BY <1>1, Overlooked
  <2>. QED BY <2>4, <2>5 DEF PresentIsFound, Callers
<1>. QED
  BY <1>1, AgreeInit, AgreeNext, InitIInv, NextIInv, RInvInit, RInvNext, StepOfBoth, PTL
  DEF FindSpec, FindInit
=============================================================================
