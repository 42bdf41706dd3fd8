--------------------------- MODULE DownloadProofs ---------------------------
(***************************************************************************)
(* Proofs about a download: the client that sends its request and those of *)
(* all other tasks (DelayRequest), for any number of requests and hosts    *)
(* and any limits; and the body that is extracted while it arrives         *)
(* (ExtractStream, and ExtractArchive, which implements it), for bodies of *)
(* any length, any capacity of the channel and any paths.                  *)
(***************************************************************************)
EXTENDS DelayRequest, ExtractArchive, PrefixInduction, SequenceTheorems, TLAPS

(* DelayRequest *)

(* Between ready and call a request holds the lock, so there is one at most, and
   what ready has seen stays true: halving the rate leaves one request. *)
Locked == \A r \in Requests : req[r].at \in {"checking", "sending"} => guard = r /\ rem > 0

ClientInv == ClientTypeOK /\ Locked

LEMMA InitClientInv == ClientInit => ClientInv
<1> SUFFICES ASSUME ClientInit PROVE ClientInv OBVIOUS
<1>1. PICK host \in [Requests -> Hosts], method \in [Requests -> Methods] :
        req = [r \in Requests |->
                 [at |-> "calling", host |-> host[r], method |-> method[r],
                  wake |-> Past, counter |-> 0, count |-> 1]]
  BY DEF ClientInit
<1>2. req \in [Requests -> Request]
  <2>1. Past \in Int
    BY DEF Past
  <2>2. "calling" \in Places
    BY DEF Places
  <2>3. Methods \subseteq {"HEAD", "GET"}
    BY LimitsAssumption
  <2>4. \A r \in Requests : host[r] \in Hosts /\ method[r] \in {"HEAD", "GET"}
    BY <1>1, <2>3, Zenon
  <2>. QED BY <1>1, <2>1, <2>2, <2>4 DEF Request
<1>3. ClientTypeOK
  BY <1>2, LimitsAssumption DEF ClientInit, ClientTypeOK, Instant, Past
<1>4. Locked
  BY <1>1 DEF Locked
<1>. QED BY <1>3, <1>4 DEF ClientInv

LEMMA HalvedLemma == \A n \in Nat \ {0} : Halved(n) \in Nat \ {0} /\ Halved(n) <= n
BY DEF Halved

(* A step of the request that holds the lock, or of one that stays outside. *)
LEMMA OneLemma ==
  ASSUME ClientInv, NEW r \in Requests, NEW new \in Request, req' = [req EXCEPT ![r] = new],
         num' \in Nat \ {0}, rem' \in Nat, per' \in Nat \ {0}, until' \in Instant,
         delay' \in [Hosts -> Instant],
         new.at \in {"checking", "sending"} => guard' = r /\ rem' > 0,
         guard = r \/ guard = NoRequest \/ (guard' = guard /\ rem' = rem)
  PROVE  ClientInv'
<1>1. /\ req'[r] = new /\ req' \in [Requests -> Request]
      /\ \A q \in Requests \ {r} : req'[q] = req[q]
  BY DEF ClientInv, ClientTypeOK
<1>2. ClientTypeOK'
  BY <1>1 DEF ClientTypeOK
<1>3. ASSUME NEW q \in Requests, req'[q].at \in {"checking", "sending"} PROVE guard' = q /\ rem' > 0
  BY <1>1, <1>3, LimitsAssumption DEF ClientInv, Locked
<1>. QED BY <1>2, <1>3 DEF ClientInv, Locked

LEMMA StepClientInv == ASSUME ClientInv, NEW r \in Requests, Step(r) \/ RequestDropped(r) PROVE ClientInv'
<1>t. /\ req[r] \in Request /\ num \in Nat \ {0} /\ rem \in Nat /\ per \in Nat \ {0}
      /\ until \in Instant /\ delay \in [Hosts -> Instant] /\ Past \in Int
      /\ req[r].at \in {"checking", "sending"} => guard = r /\ rem > 0
  BY DEF ClientInv, ClientTypeOK, Locked, Past
<1>i. \A t \in Instant : t \in Int /\ (t = Past \/ t \in Nat)
  BY DEF Instant, Past
<1>f. ASSUME req' = FallBack(req, r), UNCHANGED <<num, per, until, rem, guard>>,
             delay' \in [Hosts -> Instant]
      PROVE  ClientInv'
  <2> DEFINE new == [req[r] EXCEPT !.at = "calling", !.method = "GET", !.counter = 0, !.count = 1]
  <2>1. new \in Request /\ new.at = "calling" /\ req' = [req EXCEPT ![r] = new]
    BY <1>f, <1>t DEF FallBack, Request, Places
  <2>. QED BY <1>f, <1>t, <2>1, OneLemma
<1>1. CASE NotReady(r)
  <2> DEFINE new == [req[r] EXCEPT !.at = "sleeping", !.wake = until]
  <2>1. new \in Request /\ new.at = "sleeping" /\ req' = [req EXCEPT ![r] = new]
    BY <1>1, <1>t, <1>i DEF NotReady, Request, Places
  <2>. QED BY <1>1, <1>t, <2>1, OneLemma DEF NotReady
<1>2. CASE Ready(r)
  <2> DEFINE new == [req[r] EXCEPT !.at = "checking"]
  <2>1. new \in Request /\ new.at = "checking" /\ req' = [req EXCEPT ![r] = new]
    BY <1>2, <1>t DEF Ready, Request, Places
  <2>2. rem' > 0 /\ rem' \in Nat /\ until' \in Instant
    BY <1>2, <1>t DEF Ready, ResetDue, Instant
  <2>. QED BY <1>2, <1>t, <2>1, <2>2, OneLemma DEF Ready
<1>3. CASE HostDelayed(r)
  <2> DEFINE wake == delay[req[r].host] + AdditionalDelay(req[r].counter)
             new == [req[r] EXCEPT !.at = "sleeping", !.counter = @ + 1, !.wake = wake]
  <2>1. wake \in Int
    BY <1>t, <1>i, LimitsAssumption DEF AdditionalDelay, MinOf, Request
  <2>2. req[r].counter + 1 \in Nat
    BY <1>t DEF Request
  <2>3. new \in Request /\ new.at = "sleeping"
    BY <1>t, <2>1, <2>2 DEF Request, Places
  <2>4. req' = [req EXCEPT ![r] = new]
    BY <1>3, <1>t DEF HostDelayed, Request
  <2>5. num' \in Nat \ {0} /\ rem' \in Nat /\ per' \in Nat \ {0} /\ until' \in Instant
    BY <1>3, <1>t, HalvedLemma DEF HostDelayed, IncRateLimit, MinOf, Instant, Past
  <2>. QED BY <1>3, <1>t, <2>3, <2>4, <2>5, OneLemma DEF HostDelayed
<1>4. CASE HostFree(r)
  <2> DEFINE new == [req[r] EXCEPT !.at = "sending"]
  <2>1. new \in Request /\ new.at = "sending" /\ req' = [req EXCEPT ![r] = new]
    BY <1>4, <1>t DEF HostFree, Request, Places
  <2>. QED BY <1>4, <1>t, <2>1, OneLemma DEF HostFree
<1>5. CASE Call(r)
  <2> DEFINE new == [req[r] EXCEPT !.at = "in_flight"]
  <2>1. new \in Request /\ new.at = "in_flight" /\ req' = [req EXCEPT ![r] = new]
    BY <1>5, <1>t DEF Call, Request, Places
  <2>2. rem' \in Nat /\ until' \in Instant
    BY <1>5, <1>t DEF Call, Instant
  <2>. QED BY <1>5, <1>t, <2>1, <2>2, OneLemma DEF Call
<1>6. CASE Wake(r)
  <2> DEFINE new == [req[r] EXCEPT !.at = "calling", !.wake = Past]
  <2>1. new \in Request /\ new.at = "calling" /\ req' = [req EXCEPT ![r] = new]
    BY <1>6, <1>t DEF Wake, Request, Places
  <2>. QED BY <1>6, <1>t, <2>1, OneLemma DEF Wake
<1>7. CASE TurnedAway(r)
  <2>1. delay' \in [Hosts -> Instant]
    BY <1>7, <1>t, LimitsAssumption DEF TurnedAway, LaterDeadline, MaxOf, Instant
  <2>2. UNCHANGED <<num, per, until, rem, guard>>
    BY <1>7 DEF TurnedAway
  <2>3. CASE OutOfRetries(req[r].count) /\ req' = End(req, r, "exhausted")
    <3> DEFINE new == [req[r] EXCEPT !.at = "exhausted", !.wake = Past, !.counter = 0, !.count = 1]
    <3>1. new \in Request /\ new.at = "exhausted" /\ req' = [req EXCEPT ![r] = new]
      BY <1>t, <2>3 DEF End, Request, Places, Over
    <3>. QED BY <1>t, <2>1, <2>2, <3>1, OneLemma
  <2>4. CASE ~OutOfRetries(req[r].count)
    <3> DEFINE new == [req[r] EXCEPT !.at = "calling", !.counter = 0, !.count = @ + 1]
    <3>1. req[r].count + 1 \in Nat
      BY <1>t DEF Request
    <3>2. new \in Request /\ new.at = "calling"
      BY <1>t, <3>1 DEF Request, Places
    <3>3. req' = [req EXCEPT ![r] = new]
      BY <1>7, <1>t, <2>4 DEF TurnedAway, Request
    <3>. QED BY <1>t, <2>1, <2>2, <3>2, <3>3, OneLemma
  <2>5. CASE req' = FallBack(req, r)
    BY <1>f, <1>t, <2>1, <2>2, <2>5, OneLemma
  <2>. QED BY <1>7, <2>3, <2>4, <2>5 DEF TurnedAway
<1>8. CASE HeadRefused(r)
  BY <1>f, <1>8, <1>t, OneLemma DEF HeadRefused
<1>9. ASSUME NEW how \in {"ok", "failed", "dropped"}, req' = End(req, r, how),
             UNCHANGED <<num, per, until, rem, guard, delay>>
      PROVE  ClientInv'
  <2> DEFINE new == [req[r] EXCEPT !.at = how, !.wake = Past, !.counter = 0, !.count = 1]
  <2>1. new \in Request /\ new.at = how /\ req' = [req EXCEPT ![r] = new]
    BY <1>9, <1>t DEF End, Request, Places, Over
  <2>. QED BY <1>9, <1>t, <2>1, OneLemma
<1>. QED
  BY <1>1, <1>2, <1>3, <1>4, <1>5, <1>6, <1>7, <1>8, <1>9 DEF Step, Answered, RequestDropped

LEMMA NextClientInv == ClientInv /\ [ClientNext]_clientVars => ClientInv'
<1> SUFFICES ASSUME ClientInv, [ClientNext]_clientVars PROVE ClientInv' OBVIOUS
<1>1. CASE Tick
  <2>1. /\ UNCHANGED <<num, per, rem, guard>> /\ until' = Later(until)
        /\ delay' = [h \in Hosts |-> Later(delay[h])]
        /\ req' = [r \in Requests |-> [req[r] EXCEPT !.wake = Later(@)]]
    BY <1>1 DEF Tick
  <2>2. \A t \in Instant : Later(t) \in Instant
    BY DEF Instant, Later, Past
  <2>3. ASSUME NEW r \in Requests PROVE req'[r] \in Request /\ req'[r].at = req[r].at
    <3>1. req[r] \in Request /\ Later(req[r].wake) \in Int
      BY DEF ClientInv, ClientTypeOK, Request, Later, Past
    <3>. QED BY <2>1, <3>1 DEF Request
  <2>4. ClientTypeOK'
    BY <2>1, <2>2, <2>3 DEF ClientInv, ClientTypeOK
  <2>. QED BY <2>1, <2>3, <2>4 DEF ClientInv, Locked
<1>2. CASE UNCHANGED clientVars
  BY <1>2 DEF clientVars, ClientInv, ClientTypeOK, Locked
<1>. QED BY <1>1, <1>2, StepClientInv DEF ClientNext

LEMMA ClientInvariance == ClientSpec => []ClientInv
BY InitClientInv, NextClientInv, PTL DEF ClientSpec

-----------------------------------------------------------------------------
(* The limit, the period and all deadlines keep their range: halving the number of
   requests never ends at zero, time never makes a deadline older than over. *)
THEOREM ClientTypeCorrect == ClientSpec => []ClientTypeOK
BY ClientInvariance, PTL DEF ClientInv

(* However many requests share the client, none calls the service while it is
   limited. *)
THEOREM AlwaysReady == ClientSpec => []NeverUnready
<1>1. ClientInv => NeverUnready
  BY DEF ClientInv, Locked, NeverUnready
<1>. QED BY ClientInvariance, <1>1, PTL

(* For any hosts and delays only time brings a deadline nearer. *)
THEOREM DeadlinesStay == ClientSpec => DeadlinesKept
<1>1. ASSUME ClientInv, [ClientNext]_clientVars PROVE [\A h \in Hosts : delay'[h] >= Later(delay[h])]_clientVars
  <2> SUFFICES ASSUME NEW h \in Hosts PROVE delay'[h] >= Later(delay[h]) OBVIOUS
  <2>1. delay[h] \in Int /\ Later(delay[h]) \in Int /\ (delay[h] >= Past => delay[h] >= Later(delay[h]))
        /\ delay[h] >= Past
    BY <1>1 DEF ClientInv, ClientTypeOK, Instant, Later, Past
  <2>2. CASE delay' = delay
    BY <2>1, <2>2
  <2>3. CASE Tick
    BY <2>1, <2>3 DEF Tick
  <2>4. ASSUME NEW r \in Requests, TurnedAway(r) PROVE delay'[h] >= Later(delay[h])
    BY <2>1, <2>4, LimitsAssumption DEF TurnedAway, LaterDeadline, MaxOf
  <2>. QED
    BY <1>1, <2>2, <2>3, <2>4
    DEF ClientNext, Step, RequestDropped, NotReady, Ready, HostDelayed, HostFree, Call, Wake, HeadRefused,
        Answered, clientVars
<1>. QED BY ClientInvariance, <1>1, PTL DEF ClientSpec, DeadlinesKept

-----------------------------------------------------------------------------
(* What is sent in a period *)

LEMMA SentPrefixes ==
  ASSUME NEW f \in [0..(Per - 1) -> Nat]
  PROVE  /\ Sent(f) \in [0..Per -> Nat]
         /\ Sent(f)[0] = 0
         /\ \A k \in 1..Per : Sent(f)[k] = Sent(f)[k - 1] + f[k - 1]
<1> DEFINE step == [k \in 1..Per |-> [n \in Nat |-> n + f[k - 1]]]
           Fits(s) == s = [k \in 0..Per |-> IF k = 0 THEN 0 ELSE s[k - 1] + f[k - 1]]
<1>1. Per \in Nat /\ 0 \in Nat /\ Per # 0
  BY LimitsAssumption
<1>2. step \in [1..Per -> [Nat -> Nat]]
  <2>1. \A k \in 1..Per : f[k - 1] \in Nat
    BY <1>1
  <2>. QED BY <2>1
<1>3. PICK s : Unfolds(s, Per, Nat, 0, step)
  <2>1. IsStep(Per, Nat, step)
    BY <1>2 DEF IsStep
  <2>. HIDE DEF step
  <2>. QED BY <1>1, <2>1, DefinedUpTo, Zenon
<1>4. Fits(s)
  <2>1. s \in [0..Per -> Nat] /\ s[0] = 0 /\ \A k \in 1..Per : s[k] = step[k][s[k - 1]]
    BY <1>3 DEF Unfolds
  <2>2. ASSUME NEW k \in 1..Per PROVE s[k] = s[k - 1] + f[k - 1]
    <3>1. s[k - 1] \in Nat
      BY <1>1, <2>1
    <3>2. step[k][s[k - 1]] = s[k - 1] + f[k - 1]
      BY <3>1
    <3>. QED BY <2>1, <3>2
  <2>. QED BY <1>1, <2>1, <2>2
<1> DEFINE sent == CHOOSE g : Fits(g)
<1>5. Fits(sent)
  BY <1>4
<1>6. Sent(f) = sent
  BY DEF Sent
<1>. HIDE DEF sent
<1>7. sent[0] = 0 /\ \A k \in 1..Per : sent[k] = sent[k - 1] + f[k - 1]
  BY <1>1, <1>5
<1>8. sent \in [0..Per -> Nat]
  <2> DEFINE S == {k \in 0..Per : sent[k] \in Nat}
  <2>1. 0 \in S
    BY <1>1, <1>7
  <2>2. ASSUME NEW k \in 1..Per, k - 1 \in S PROVE k \in S
    BY <1>1, <1>7, <2>2
  <2>. HIDE DEF S
  <2>3. 0..Per \subseteq S
    BY <1>1, <2>1, <2>2, InductUpTo
  <2>. QED BY <1>5, <2>3 DEF S
<1>. QED BY <1>6, <1>7, <1>8

(* The more ticks, the more has been sent. *)
LEMMA SentGrows ==
  ASSUME NEW f \in [0..(Per - 1) -> Nat], NEW k \in 0..Per
  PROVE  Sent(f)[k] <= Sent(f)[Per]
<1>1. Per \in Nat
  BY LimitsAssumption
<1>2. /\ Sent(f) \in [0..Per -> Nat]
      /\ \A n \in 1..Per : Sent(f)[n] = Sent(f)[n - 1] + f[n - 1]
  BY SentPrefixes
<1> DEFINE S == {n \in 0..Per : n >= k => Sent(f)[k] <= Sent(f)[n]}
<1>3. 0 \in S
  BY <1>1, <1>2
<1>4. ASSUME NEW n \in 1..Per, n - 1 \in S PROVE n \in S
  <2>1. Sent(f)[n] = Sent(f)[n - 1] + f[n - 1] /\ f[n - 1] \in Nat
        /\ Sent(f)[k] \in Nat /\ Sent(f)[n] \in Nat /\ Sent(f)[n - 1] \in Nat
    BY <1>1, <1>2
  <2>2. CASE n = k
    BY <1>1, <2>1, <2>2
  <2>3. CASE n > k
    BY <1>1, <1>4, <2>1, <2>3
  <2>4. CASE n < k
    BY <1>1, <2>4
  <2>. QED BY <1>1, <2>2, <2>3, <2>4
<1>. HIDE DEF S
<1>5. 0..Per \subseteq S
  BY <1>1, <1>3, <1>4, InductUpTo
<1>. QED BY <1>1, <1>5 DEF S

(* Nothing has been sent yet. *)
LEMMA SentNothing ==
  ASSUME NEW k \in 0..Per PROVE Sent([t \in 0..(Per - 1) |-> 0])[k] = 0
<1> DEFINE f == [t \in 0..(Per - 1) |-> 0]
           S == {n \in 0..Per : Sent(f)[n] = 0}
<1>1. Per \in Nat
  BY LimitsAssumption
<1>2. f \in [0..(Per - 1) -> Nat] /\ \A n \in 1..Per : f[n - 1] = 0
  BY <1>1
<1>. HIDE DEF f
<1>3. Sent(f)[0] = 0 /\ \A n \in 1..Per : Sent(f)[n] = Sent(f)[n - 1] + f[n - 1]
  BY <1>2, SentPrefixes
<1>4. 0 \in S
  BY <1>1, <1>3
<1>5. ASSUME NEW n \in 1..Per, n - 1 \in S PROVE n \in S
  BY <1>1, <1>2, <1>3, <1>5
<1>. HIDE DEF S
<1>6. 0..Per \subseteq S
  BY <1>1, <1>4, <1>5, InductUpTo
<1>7. Sent(f)[k] = 0
  BY <1>6 DEF S
<1>. QED BY <1>7 DEF f

(* A tick later, what was sent in the last k ticks was sent in the last k + 1. *)
LEMMA SentShifts ==
  ASSUME NEW f \in [0..(Per - 1) -> Nat], NEW g \in [0..(Per - 1) -> Nat],
         g = [t \in 0..(Per - 1) |-> IF t = 0 THEN 0 ELSE f[t - 1]],
         NEW k \in 1..Per
  PROVE  Sent(g)[k] = Sent(f)[k - 1]
<1>1. Per \in Nat /\ Per # 0
  BY LimitsAssumption
<1>2. /\ Sent(f) \in [0..Per -> Nat] /\ Sent(f)[0] = 0 /\ Sent(g)[0] = 0
      /\ \A n \in 1..Per : Sent(f)[n] = Sent(f)[n - 1] + f[n - 1]
      /\ \A n \in 1..Per : Sent(g)[n] = Sent(g)[n - 1] + g[n - 1]
  BY SentPrefixes
<1>3. g[0] = 0 /\ \A n \in 2..Per : g[n - 1] = f[n - 2]
  BY <1>1
<1> DEFINE S == {n \in 0..Per : n > 0 => Sent(g)[n] = Sent(f)[n - 1]}
<1>4. 0 \in S
  BY <1>1
<1>5. ASSUME NEW n \in 1..Per, n - 1 \in S PROVE n \in S
  <2>1. CASE n = 1
    <3>1. Sent(g)[1] = Sent(g)[0] + g[0]
      <4>1. 1 \in 1..Per /\ 1 - 1 = 0
        BY <1>1
      <4>. QED BY <1>2, <4>1
    <3>. QED BY <1>1, <1>2, <1>3, <2>1, <3>1
  <2>2. CASE n > 1
    <3>1. n - 1 \in 1..Per /\ (n - 1) - 1 = n - 2
      BY <1>1, <2>2
    <3>2. Sent(g)[n - 1] = Sent(f)[n - 2]
      BY <1>5, <3>1
    <3>3. Sent(f)[n - 1] = Sent(f)[n - 2] + f[n - 2]
      BY <1>2, <3>1
    <3>4. Sent(g)[n] = Sent(g)[n - 1] + g[n - 1] /\ g[n - 1] = f[n - 2]
      BY <1>2, <1>3, <2>2
    <3>. QED BY <3>2, <3>3, <3>4
  <2>. QED BY <2>1, <2>2
<1>. HIDE DEF S
<1>6. 0..Per \subseteq S
  BY <1>1, <1>4, <1>5, InductUpTo
<1>7. k \in S /\ k > 0
  BY <1>1, <1>6
<1>. QED BY <1>7 DEF S

(* A request that is sent now counts in every span but the empty one. *)
LEMMA SentCounts ==
  ASSUME NEW f \in [0..(Per - 1) -> Nat], NEW g \in [0..(Per - 1) -> Nat],
         g = [f EXCEPT ![0] = @ + 1],
         NEW k \in 1..Per
  PROVE  Sent(g)[k] = Sent(f)[k] + 1
<1>1. Per \in Nat /\ Per # 0
  BY LimitsAssumption
<1>2. /\ Sent(f) \in [0..Per -> Nat] /\ Sent(f)[0] = 0 /\ Sent(g)[0] = 0
      /\ \A n \in 1..Per : Sent(f)[n] = Sent(f)[n - 1] + f[n - 1]
      /\ \A n \in 1..Per : Sent(g)[n] = Sent(g)[n - 1] + g[n - 1]
  BY SentPrefixes
<1>3. g[0] = f[0] + 1 /\ f[0] \in Nat /\ \A n \in 2..Per : g[n - 1] = f[n - 1] /\ f[n - 1] \in Nat
  BY <1>1
<1> DEFINE S == {n \in 0..Per : n > 0 => Sent(g)[n] = Sent(f)[n] + 1}
<1>4. 0 \in S
  BY <1>1
<1>5. ASSUME NEW n \in 1..Per, n - 1 \in S PROVE n \in S
  <2>1. CASE n = 1
    <3>1. Sent(g)[1] = Sent(g)[0] + g[0] /\ Sent(f)[1] = Sent(f)[0] + f[0]
      <4>1. 1 \in 1..Per /\ 1 - 1 = 0
        BY <1>1
      <4>. QED BY <1>2, <4>1
    <3>. QED BY <1>1, <1>2, <1>3, <2>1, <3>1
  <2>2. CASE n > 1
    <3>1. Sent(g)[n - 1] = Sent(f)[n - 1] + 1 /\ Sent(f)[n - 1] \in Nat
      BY <1>1, <1>2, <1>5, <2>2
    <3>2. g[n - 1] = f[n - 1] /\ f[n - 1] \in Nat
      BY <1>1, <1>3, <2>2
    <3>3. Sent(g)[n] = Sent(g)[n - 1] + g[n - 1] /\ Sent(f)[n] = Sent(f)[n - 1] + f[n - 1]
      BY <1>2
    <3>. QED BY <3>1, <3>2, <3>3
  <2>. QED BY <2>1, <2>2
<1>. HIDE DEF S
<1>6. 0..Per \subseteq S
  BY <1>1, <1>4, <1>5, InductUpTo
<1>7. k \in S /\ k > 0
  BY <1>1, <1>6
<1>. QED BY <1>7 DEF S

(* Halving and extending only ever make the limit stricter; and since the period
   began, of which so many ticks are over, no more has been sent than has been used
   up of the limit.  What was sent before that was one period's worth at most. *)
Elapsed == MinOf(per - until, Per)

Limits ==
  /\ per >= Per /\ until <= per /\ num <= NumRequest /\ rem <= NumRequest
  /\ recent \in [0..(Per - 1) -> Nat]

Budget ==
  /\ Sent(recent)[Per] <= 2 * NumRequest - rem
  /\ Sent(recent)[Elapsed] <= NumRequest - rem

LimitInv == ClientInv /\ Limits /\ Budget

LEMMA InitLimitInv == ClientInit => LimitInv
<1> SUFFICES ASSUME ClientInit PROVE LimitInv OBVIOUS
<1>1. /\ per = Per /\ until = Per /\ num = NumRequest /\ rem = NumRequest
      /\ recent = [t \in 0..(Per - 1) |-> 0]
  BY DEF ClientInit
<1>2. Limits
  BY <1>1, LimitsAssumption DEF Limits
<1>3. Elapsed = 0
  BY <1>1, LimitsAssumption DEF Elapsed, MinOf
<1>4. Sent(recent)[Per] = 0 /\ Sent(recent)[0] = 0
  BY <1>1, SentNothing, LimitsAssumption
<1>5. Budget
  BY <1>1, <1>3, <1>4, LimitsAssumption DEF Budget
<1>. QED BY <1>2, <1>5, InitClientInv DEF LimitInv

LEMMA NextLimitInv == LimitInv /\ [ClientNext]_clientVars => LimitInv'
<1> SUFFICES ASSUME LimitInv, [ClientNext]_clientVars PROVE LimitInv' OBVIOUS
<1>1. ClientInv'
  BY NextClientInv DEF LimitInv
<1>t. /\ Per \in Nat \ {0} /\ NumRequest \in Nat \ {0} /\ num \in Nat \ {0} /\ rem \in Nat
      /\ per \in Nat \ {0} /\ until \in Int /\ until >= Past /\ Past = -1
      /\ per >= Per /\ until <= per /\ num <= NumRequest /\ rem <= NumRequest
      /\ recent \in [0..(Per - 1) -> Nat]
  BY LimitsAssumption DEF LimitInv, ClientInv, ClientTypeOK, Limits, Instant, Past
<1>e. Elapsed \in 0..Per /\ (per - until < Per => Elapsed = per - until)
                         /\ (per - until >= Per => Elapsed = Per)
  BY <1>t DEF Elapsed, MinOf
<1>s. /\ Sent(recent) \in [0..Per -> Nat] /\ Sent(recent)[0] = 0
      /\ Sent(recent)[Per] <= 2 * NumRequest - rem
      /\ Sent(recent)[Elapsed] <= NumRequest - rem
  BY <1>t, SentPrefixes DEF LimitInv, Budget
<1>2. ASSUME UNCHANGED <<num, per, until, rem, recent>> PROVE LimitInv'
  BY <1>1, <1>2 DEF LimitInv, Limits, Budget, Elapsed
<1>3. ASSUME NEW r \in Requests, Ready(r), ResetDue PROVE LimitInv'
  <2>1. until = Past /\ rem = 0 /\ until' = per /\ rem' = num /\ UNCHANGED <<num, per, recent>>
    BY <1>3 DEF Ready, ResetDue
  <2>2. Elapsed = Per /\ Elapsed' = 0
    BY <1>t, <1>e, <2>1 DEF Elapsed, MinOf
  <2>3. Limits'
    BY <1>t, <2>1 DEF Limits
  <2>4. Budget'
    BY <1>t, <1>s, <2>1, <2>2 DEF Budget
  <2>. QED BY <1>1, <2>3, <2>4 DEF LimitInv
<1>4. ASSUME NEW r \in Requests, HostDelayed(r) PROVE LimitInv'
  <2>1. /\ num' \in Nat \ {0} /\ num' <= num /\ rem' \in Nat /\ rem' <= rem /\ recent' = recent
        /\ \/ per' = per + 1 /\ until' = until + 1
           \/ UNCHANGED <<per, until>>
    BY <1>4, <1>t, HalvedLemma DEF HostDelayed, IncRateLimit, MinOf
  <2>2. Elapsed' = Elapsed
    BY <1>t, <2>1 DEF Elapsed, MinOf
  <2>3. Limits'
    BY <1>t, <2>1 DEF Limits
  <2>4. Budget'
    <3>1. Sent(recent') = Sent(recent)
      BY <2>1
    <3>2. Sent(recent)[Per] \in Nat /\ Sent(recent)[Elapsed] \in Nat
      BY <1>t, <1>e, <1>s
    <3>3. Sent(recent)[Per] <= 2 * NumRequest - rem' /\ Sent(recent)[Elapsed] <= NumRequest - rem'
      <4>1. rem \in Nat /\ rem' \in Nat /\ rem' <= rem /\ NumRequest \in Nat
        BY <1>t, <2>1
      <4>2. Sent(recent)[Per] <= 2 * NumRequest - rem /\ Sent(recent)[Elapsed] <= NumRequest - rem
        BY <1>s
      <4>. QED BY <3>2, <4>1, <4>2
    <3>. QED BY <2>2, <3>1, <3>3 DEF Budget
  <2>. QED BY <1>1, <2>3, <2>4 DEF LimitInv
<1>5. ASSUME NEW r \in Requests, Call(r) PROVE LimitInv'
  <2>1. rem > 0 /\ recent' = [recent EXCEPT ![0] = @ + 1] /\ UNCHANGED <<num, per>>
    BY <1>5 DEF Call
  <2>2. recent' \in [0..(Per - 1) -> Nat]
    BY <1>t, <2>1
  <2>3. /\ Sent(recent')[0] = 0
        /\ \A k \in 1..Per : Sent(recent')[k] = Sent(recent)[k] + 1
    BY <1>t, <2>1, <2>2, SentCounts, SentPrefixes
  <2>4. CASE RenewalDue(until)
    <3>1. until <= 0 /\ until' = per /\ rem' = num - 1
      BY <1>5, <2>4 DEF Call, RenewalDue
    <3>2. Elapsed = Per /\ Elapsed' = 0
      BY <1>t, <1>e, <2>1, <3>1 DEF Elapsed, MinOf
    <3>3. Limits'
      BY <1>t, <2>1, <2>2, <3>1 DEF Limits
    <3>4. Budget'
      <4>1. Sent(recent')[Per] = Sent(recent)[Per] + 1 /\ Sent(recent)[Per] \in Nat
        BY <1>t, <1>s, <2>3
      <4>2. Sent(recent)[Per] <= NumRequest - rem
        BY <1>s, <3>2
      <4>. QED BY <1>t, <2>1, <2>3, <3>1, <3>2, <4>1, <4>2 DEF Budget
    <3>. QED BY <1>1, <3>3, <3>4 DEF LimitInv
  <2>5. CASE ~RenewalDue(until)
    <3>1. until' = until /\ rem' = rem - 1
      BY <1>5, <2>5 DEF Call
    <3>2. Elapsed' = Elapsed
      BY <2>1, <3>1 DEF Elapsed
    <3>3. Limits'
      BY <1>t, <2>1, <2>2, <3>1 DEF Limits
    <3>4. Sent(recent')[Elapsed] <= NumRequest - rem'
      <4>1. CASE Elapsed = 0
        BY <1>t, <2>1, <2>3, <3>1, <4>1
      <4>2. CASE Elapsed # 0
        <5>1. Elapsed \in 1..Per
          BY <1>t, <1>e, <4>2
        <5>2. Sent(recent')[Elapsed] = Sent(recent)[Elapsed] + 1 /\ Sent(recent)[Elapsed] \in Nat
          BY <1>s, <1>t, <2>3, <5>1
        <5>. QED BY <1>t, <1>s, <3>1, <5>2
      <4>. QED BY <4>1, <4>2
    <3>5. Budget'
      BY <1>t, <1>s, <2>3, <3>1, <3>2, <3>4 DEF Budget
    <3>. QED BY <1>1, <3>3, <3>5 DEF LimitInv
  <2>. QED BY <2>4, <2>5
<1>6. CASE Tick
  <2>1. /\ until' = Later(until) /\ UNCHANGED <<num, per, rem>>
        /\ recent' = [t \in 0..(Per - 1) |-> IF t = 0 THEN 0 ELSE recent[t - 1]]
    BY <1>6 DEF Tick
  <2>2. recent' \in [0..(Per - 1) -> Nat]
    BY <1>t, <2>1
  <2>3. \A k \in 1..Per : Sent(recent')[k] = Sent(recent)[k - 1]
    BY <1>t, <2>1, <2>2, SentShifts
  <2>4. \A k \in 0..Per : Sent(recent)[k] <= Sent(recent)[Per]
    BY <1>t, SentGrows
  <2>5. until' \in Int /\ until' <= until /\ (until' = until \/ until' = until - 1)
        /\ (until' = until => until = Past)
    BY <1>t, <2>1 DEF Later
  <2>6. Limits'
    BY <1>t, <2>1, <2>2, <2>5 DEF Limits
  <2>7. Sent(recent')[Per] <= Sent(recent)[Per]
    <3>1. Per \in 1..Per /\ Per - 1 \in 0..Per
      BY <1>t
    <3>. QED BY <2>3, <2>4, <3>1
  <2>8. Sent(recent')[Elapsed'] <= Sent(recent)[Elapsed]
    <3>1. CASE per - until >= Per
      <4>1. Elapsed = Per /\ Elapsed' = Per
        BY <1>t, <1>e, <2>1, <2>5, <3>1 DEF Elapsed, MinOf
      <4>. QED BY <2>7, <4>1
    <3>2. CASE per - until < Per
      <4>1. Elapsed' = Elapsed + 1 /\ Elapsed' \in 1..Per /\ Elapsed' - 1 = Elapsed
        BY <1>t, <1>e, <2>1, <2>5, <3>2 DEF Elapsed, MinOf
      <4>2. Sent(recent')[Elapsed'] = Sent(recent)[Elapsed]
        BY <2>3, <4>1
      <4>. QED BY <1>e, <1>s, <4>2
    <3>. QED BY <1>t, <3>1, <3>2
  <2>9. /\ Sent(recent')[Per] \in Nat /\ Sent(recent')[Elapsed'] \in Nat
    <3>1. Sent(recent') \in [0..Per -> Nat]
      BY <2>2, SentPrefixes
    <3>2. Elapsed' \in 0..Per
      BY <1>t, <2>1, <2>5 DEF Elapsed, MinOf
    <3>. QED BY <1>t, <3>1, <3>2
  <2>10. Budget'
    <3>1. Sent(recent')[Per] <= 2 * NumRequest - rem /\ Sent(recent')[Elapsed'] <= NumRequest - rem
      <4>1. rem \in Nat /\ NumRequest \in Nat /\ Sent(recent)[Per] \in Nat /\ Sent(recent)[Elapsed] \in Nat
        BY <1>t, <1>e, <1>s
      <4>. QED BY <1>s, <2>7, <2>8, <2>9, <4>1
    <3>. QED BY <2>1, <3>1 DEF Budget
  <2>. QED BY <1>1, <2>6, <2>10 DEF LimitInv
<1>. QED
  BY <1>2, <1>3, <1>4, <1>5, <1>6
  DEF ClientNext, Step, RequestDropped, NotReady, Ready, HostFree, Wake, TurnedAway, HeadRefused,
      Answered, clientVars

(* However many requests share the client, whatever delays servers ask for and however
   the rate is halved: in no span of the first period's length is more sent than two
   periods allow. *)
THEOREM RateBounded == ClientSpec => []SlidingBound
<1>1. LimitInv => SlidingBound
  <2> SUFFICES ASSUME LimitInv PROVE SlidingBound OBVIOUS
  <2>1. Sent(recent) \in [0..Per -> Nat] /\ rem \in Nat /\ NumRequest \in Nat /\ Per \in Nat
    BY SentPrefixes, LimitsAssumption DEF LimitInv, Limits, ClientInv, ClientTypeOK
  <2>. QED BY <2>1 DEF LimitInv, Budget, SlidingBound
<1>. QED BY InitLimitInv, NextLimitInv, <1>1, PTL DEF ClientSpec

-----------------------------------------------------------------------------
(* ExtractStream *)

Types ==
  /\ need \in 1..N /\ cut \in 0..(N + 1) /\ pulled \in 0..N
  /\ hand \in Nat /\ written \in Nat
  /\ thread \in {"running", "ok", "err"}
  /\ main \in {"select", "await", "consume", "returned", "dropped"}
  /\ res \in {"none", "ok", "err"}

(* The sending end is open while the body is read, and a body that breaks
   nowhere is over only after its last chunk. *)
Ends == (main = "select" => tx) /\ (over /\ cut = 0 => pulled = N)

Seqs == digest \in Seq(Nat) /\ chan \in Seq(Nat)

(* The verifier has seen what has been pulled. *)
Seen == Len(digest) = pulled /\ \A k \in 1..pulled : digest[k] = k

InHand == IF hand = 0 THEN 0 ELSE 1

(* Chunks go from the body through the hand and the channel into the files.
   While both sides are at work none is lost; once the sending end is closed with
   the thread at work, either all of the body has been sent or and_extract has
   given up, so that a thread that is content in time has all it needs. *)
Flow ==
  /\ written + Len(chan) + InHand <= pulled
  /\ main = "select" =>
       /\ res = "none"
       /\ thread = "running" => written + Len(chan) + InHand = pulled
  /\ main = "await" =>
       /\ res = "none" /\ hand = 0
       /\ thread = "running" => written + Len(chan) = N
  /\ main \in {"select", "await"} /\ thread = "ok" => written >= need
  /\ res = "ok" => written >= need /\ thread # "running"
  /\ main = "returned" /\ cut = 0 => pulled = N

IInv == Types /\ Ends /\ Seqs /\ Seen /\ Flow

LEMMA InitIInv == Init => IInv
<1> SUFFICES ASSUME Init PROVE IInv OBVIOUS
<1>1. Types
  BY SizesAssumption DEF Init, Types
<1>b. Ends
  BY DEF Init, Ends
<1>2. Seqs /\ Seen
  BY EmptySeq DEF Init, Seqs, Seen
<1>3. Flow
  BY SizesAssumption DEF Init, Flow, InHand
<1>. QED BY <1>1, <1>b, <1>2, <1>3 DEF IInv

(* A chunk is pulled and shown to the verifier, or the body has ended. *)
LEMMA PullLemma ==
  ASSUME IInv, PullChunk
  PROVE  /\ pulled' = pulled + 1 /\ pulled' \in 0..N
         /\ digest' \in Seq(Nat) /\ Seen'
<1>1. pulled \in 0..N /\ pulled' = pulled + 1 /\ pulled < N
  BY DEF IInv, Types, PullChunk
<1>2. /\ digest' \in Seq(Nat) /\ Len(digest') = Len(digest) + 1
      /\ \A k \in 1..Len(digest) : digest'[k] = digest[k]
      /\ digest'[Len(digest) + 1] = pulled + 1
  BY <1>1, AppendProperties DEF IInv, Seqs, Seen, PullChunk
<1>3. Seen'
  BY <1>1, <1>2 DEF IInv, Seen
<1>. QED BY <1>1, <1>2, <1>3, SizesAssumption

LEMMA LastLemma ==
  ASSUME IInv
  PROVE  /\ PullLast(FALSE) => over' = TRUE /\ UNCHANGED <<pulled, digest>> /\ pulled = N
         /\ PullLast(TRUE) => over' = TRUE /\ UNCHANGED <<pulled, digest>> /\ cut # 0
BY SizesAssumption DEF IInv, Types, PullLast, NextFails, NextEnds

LEMMA NextIInv == IInv /\ [Next]_vars => IInv'
<1> SUFFICES ASSUME IInv, [Next]_vars PROVE IInv' OBVIOUS
<1> USE SizesAssumption DEF body, stream
<1>l. Len(chan) \in Nat
  BY DEF IInv, Seqs
<1>b. Ends'
  <2>1. main' = "select" => main = "select" /\ tx' = tx
    BY Zenon DEF Next, Answer, Read, Extract, Terminated, vars, ReadChunk, ReadEnds, ReadFails, Consume,
       Send, SendFails, ThreadJoined, ThreadFirst, Dropped, Write, EndOfInput, EndOfArchive, ThreadFails
  <2>2. \/ PullChunk \/ PullLast(FALSE) \/ PullLast(TRUE) \/ UNCHANGED stream
    BY Zenon DEF Next, Answer, Read, Extract, Terminated, vars, ReadChunk, ReadEnds, ReadFails, Consume,
       Send, SendFails, ThreadJoined, ThreadFirst, Dropped, Write, EndOfInput, EndOfArchive, ThreadFails
  <2>3. cut' = cut
    BY DEF Next, Answer, Read, Extract, Terminated, vars, ReadChunk, ReadEnds, ReadFails, Consume,
       Send, SendFails, ThreadJoined, ThreadFirst, Dropped, Write, EndOfInput, EndOfArchive, ThreadFails
  <2>4. PullChunk => ~over'
    BY DEF PullChunk
  <2>5. PullLast(FALSE) => pulled' = N
    BY LastLemma
  <2>6. PullLast(TRUE) => cut # 0
    BY LastLemma
  <2>7. UNCHANGED stream => over' = over /\ pulled' = pulled
    OBVIOUS
  <2>a. main = "select" => tx
    BY DEF IInv, Ends
  <2>c. over /\ cut = 0 => pulled = N
    BY DEF IInv, Ends
  <2>8. ASSUME main' = "select" PROVE tx'
    <3>1. tx' = tx /\ tx
      BY <2>1, <2>a, <2>8, Zenon
    <3>. QED BY <3>1, Zenon
  <2>9. over' /\ cut' = 0 => pulled' = N
    <3>1. CASE PullChunk
      BY <2>4, <3>1, Zenon
    <3>2. CASE PullLast(FALSE)
      BY <2>5, <3>2, Zenon
    <3>3. CASE PullLast(TRUE)
      BY <2>3, <2>6, <3>3, Zenon
    <3>4. CASE UNCHANGED stream
      <4>1. (over' <=> over) /\ pulled' = pulled
        BY <2>7, <3>4, Zenon
      <4>. QED BY <2>3, <2>c, <4>1, Zenon
    <3>. QED BY <2>2, <3>1, <3>2, <3>3, <3>4, Zenon
  <2>. QED BY <2>8, <2>9, Zenon DEF Ends
<1>s. /\ UNCHANGED <<digest, pulled>> => Seen'
      /\ UNCHANGED chan /\ digest' \in Seq(Nat) => Seqs'
      /\ UNCHANGED digest /\ chan' \in Seq(Nat) => Seqs'
      /\ digest \in Seq(Nat)
  BY DEF IInv, Seen, Seqs
<1>1. CASE ReadChunk
  <2>1. Types'
    BY <1>1, PullLemma DEF ReadChunk, IInv, Types
  <2>2. Seqs' /\ Seen'
    BY <1>1, PullLemma, <1>s DEF ReadChunk
  <2>3. /\ pulled' = pulled + 1 /\ hand = 0 /\ hand' # 0 /\ main = "select"
        /\ UNCHANGED <<need, cut, chan, tx, thread, written, main, res>>
    BY <1>1, PullLemma DEF ReadChunk, IInv, Types
  <2>4. Flow'
    BY <1>l, <2>3 DEF IInv, Types, Flow, InHand
  <2>. QED BY <1>b, <2>1, <2>2, <2>4 DEF IInv
<1>2. CASE ReadEnds
  <2>1. Types'
    BY <1>2, LastLemma DEF ReadEnds, IInv, Types
  <2>2. Seqs' /\ Seen'
    BY <1>2, LastLemma, <1>s DEF ReadEnds
  <2>3. /\ pulled = N /\ hand = 0 /\ main = "select" /\ main' = "await"
        /\ UNCHANGED <<need, cut, pulled, hand, chan, thread, written, res>>
    BY <1>2, LastLemma DEF ReadEnds
  <2>4. Flow'
    BY <1>l, <2>3 DEF IInv, Types, Flow, InHand
  <2>. QED BY <1>b, <2>1, <2>2, <2>4 DEF IInv
<1>3. CASE ReadFails
  BY <1>l, <1>b, <1>s, <1>3, LastLemma DEF ReadFails, IInv, Types, Flow, InHand
<1>4. CASE Consume
  <2>1. CASE PullChunk /\ UNCHANGED main
    <3>1. Types'
      BY <1>4, <2>1, PullLemma DEF Consume, IInv, Types
    <3>2. Seqs' /\ Seen'
      BY <1>4, <2>1, PullLemma, <1>s DEF Consume
    <3>3. /\ pulled' = pulled + 1 /\ main = "consume"
          /\ UNCHANGED <<need, cut, hand, chan, tx, thread, written, main, res>>
      BY <1>4, <2>1, PullLemma DEF Consume
    <3>4. Flow'
      BY <1>l, <3>3 DEF IInv, Types, Flow, InHand
    <3>. QED BY <1>b, <3>1, <3>2, <3>4 DEF IInv
  <2>2. CASE (PullLast(FALSE) \/ PullLast(TRUE)) /\ main' = "returned"
    BY <1>l, <1>b, <1>s, <1>4, <2>2, LastLemma DEF Consume, IInv, Types, Flow, InHand
  <2>3. CASE over /\ main' = "returned" /\ UNCHANGED stream
    <3>1. cut = 0 => pulled = N
      BY <2>3, Zenon DEF IInv, Ends
    <3>2. /\ UNCHANGED <<pulled, digest>> /\ main' = "returned"
          /\ UNCHANGED <<need, cut, hand, chan, thread, written, res>>
      BY <1>4, <2>3 DEF Consume
    <3>3. Seqs' /\ Seen'
      BY <1>s, <3>2
    <3>4. Types'
      BY <3>2 DEF IInv, Types
    <3>5. Flow'
      BY <1>l, <3>1, <3>2 DEF IInv, Types, Flow, InHand
    <3>. QED BY <1>b, <3>3, <3>4, <3>5 DEF IInv
  <2>. QED BY <1>l, <1>b, <1>s, <1>4, <2>1, <2>2, <2>3 DEF Consume
<1>5. CASE Send
  <2>1. chan' \in Seq(Nat) /\ Len(chan') = Len(chan) + 1
    BY <1>l, <1>b, <1>s, <1>5, AppendProperties DEF Send, IInv, Types, Seqs
  <2>. QED BY <1>l, <1>b, <1>s, <1>5, <2>1 DEF Send, IInv, Types, Flow, InHand
<1>6. CASE SendFails
  BY <1>l, <1>b, <1>s, <1>6 DEF SendFails, IInv, Types, Flow, InHand
<1>7. CASE ThreadJoined
  BY <1>l, <1>b, <1>s, <1>7 DEF ThreadJoined, IInv, Types, Flow, InHand
<1>8. CASE ThreadFirst
  <2>1. CASE UNCHANGED stream /\ res' = thread
    BY <1>l, <1>b, <1>s, <1>8, <2>1 DEF ThreadFirst, IInv, Types, Flow, InHand
  <2>2. CASE hand = 0 /\ PullChunk /\ res' = thread
    <3>1. Types'
      BY <1>8, <2>2, PullLemma DEF ThreadFirst, IInv, Types
    <3>2. Seqs' /\ Seen'
      BY <1>8, <2>2, PullLemma, <1>s DEF ThreadFirst
    <3>3. /\ pulled' = pulled + 1 /\ hand' = 0 /\ hand = 0
          /\ main = "select" /\ thread # "running" /\ main' = "consume" /\ res' = thread
          /\ UNCHANGED <<need, cut, chan, thread, written>>
      BY <1>8, <2>2, PullLemma DEF ThreadFirst
    <3>4. Flow'
      BY <1>l, <3>3 DEF IInv, Types, Flow, InHand
    <3>. QED BY <1>b, <3>1, <3>2, <3>4 DEF IInv
  <2>3. CASE hand = 0 /\ PullLast(FALSE) /\ res' = thread
    BY <1>l, <1>b, <1>s, <1>8, <2>3, LastLemma DEF ThreadFirst, IInv, Types, Flow, InHand
  <2>4. CASE hand = 0 /\ PullLast(TRUE) /\ res' = "err"
    BY <1>l, <1>b, <1>s, <1>8, <2>4, LastLemma DEF ThreadFirst, IInv, Types, Flow, InHand
  <2>. QED BY <1>l, <1>b, <1>s, <1>8, <2>1, <2>2, <2>3, <2>4 DEF ThreadFirst
<1>9. CASE Dropped
  <2>1. /\ main' = "dropped" /\ hand' = 0
        /\ UNCHANGED <<need, cut, pulled, digest, chan, thread, written, res>>
    BY <1>9 DEF Dropped
  <2>2. Types'
    BY <2>1 DEF IInv, Types
  <2>3. Flow'
    BY <1>l, <2>1 DEF IInv, Types, Flow, InHand
  <2>4. Seqs' /\ Seen'
    BY <1>s, <2>1
  <2>. QED BY <1>b, <2>2, <2>3, <2>4 DEF IInv
<1>10. CASE Write
  <2>1. chan' \in Seq(Nat) /\ Len(chan') = Len(chan) - 1
    BY <1>l, <1>b, <1>s, <1>10, HeadTailProperties DEF Write, IInv, Seqs
  <2>2. Types' /\ Seqs' /\ Seen'
    BY <1>10, <1>s, <2>1 DEF Write, IInv, Types
  <2>3. Flow'
    BY <1>10, <1>l, <2>1 DEF Write, IInv, Types, Flow, InHand
  <2>. QED BY <1>b, <2>2, <2>3 DEF IInv
<1>11. CASE EndOfInput
  <2>1. Len(chan) = 0
    BY <1>11 DEF EndOfInput
  <2>2. main # "select"
    BY <1>11, Zenon DEF EndOfInput, IInv, Ends
  <2>3. /\ thread = "running" /\ thread' \in {"ok", "err"}
        /\ UNCHANGED <<need, cut, pulled, digest, hand, chan, written, main, res>>
    BY <1>11 DEF EndOfInput
  <2>4. Seqs' /\ Seen'
    BY <1>s, <2>3
  <2>5. Types'
    BY <2>3 DEF IInv, Types
  <2>6. Flow'
    BY <1>l, <2>1, <2>2, <2>3 DEF IInv, Types, Flow, InHand
  <2>. QED BY <1>b, <2>4, <2>5, <2>6 DEF IInv
<1>12. CASE EndOfArchive \/ ThreadFails
  <2>1. chan' \in Seq(Nat) /\ Len(chan') = 0
    <3>1. chan' = <<>>
      BY <1>12 DEF EndOfArchive, ThreadFails
    <3>. QED BY <3>1
  <2>2. /\ thread = "running" /\ thread' \in {"ok", "err"} /\ (thread' = "ok" => written >= need)
        /\ UNCHANGED <<need, cut, pulled, digest, hand, written, main, res>>
    BY <1>12 DEF EndOfArchive, ThreadFails
  <2>3. Types'
    BY <2>2 DEF IInv, Types
  <2>4. Flow'
    BY <1>l, <2>1, <2>2 DEF IInv, Types, Flow, InHand
  <2>5. Seqs' /\ Seen'
    BY <1>s, <2>1, <2>2
  <2>. QED BY <1>b, <2>3, <2>4, <2>5 DEF IInv
<1>13. CASE UNCHANGED vars
  BY <1>l, <1>b, <1>s, <1>13 DEF vars, IInv, Types, Flow, InHand
<1>. QED
  BY <1>1, <1>2, <1>3, <1>4, <1>5, <1>6, <1>7, <1>8, <1>9, <1>10, <1>11, <1>12, <1>13
  DEF Next, Answer, Read, Extract, Terminated

LEMMA Invariance == Spec => []IInv
BY InitIInv, NextIInv, PTL DEF Spec

(* For any body and channel all variables keep their type. *)
THEOREM TypeCorrect == Spec => []TypeOK
<1>1. IInv => TypeOK
  BY DEF IInv, Types, Seqs, TypeOK
<1>. QED BY Invariance, <1>1, PTL

(* A download that breaks off is never taken for a whole one, whatever the sizes
   of body and channel. *)
THEOREM NeverTruncated == Spec => []NothingTruncated
<1>1. IInv => NothingTruncated
  BY DEF IInv, Flow, NothingTruncated
<1>. QED BY Invariance, <1>1, PTL

(* The verifier sees every chunk once and in order, all of a body that arrives
   whole, and nothing is in the files that it has not seen. *)
THEOREM DigestRight == Spec => []DigestFaithful
<1>1. IInv => DigestFaithful
  <2> SUFFICES ASSUME IInv PROVE DigestFaithful OBVIOUS
  <2>1. written <= Len(digest)
    BY DEF IInv, Types, Seqs, Seen, Flow, InHand
  <2>2. ASSUME main = "returned", cut = 0 PROVE digest = Whole
    <3>1. Len(digest) = N /\ \A k \in 1..N : digest[k] = k
      BY <2>2 DEF IInv, Seen, Flow
    <3>. QED BY <3>1 DEF IInv, Seqs, Whole
  <2>. QED BY <2>1, <2>2 DEF IInv, Seen, DigestFaithful
<1>. QED BY Invariance, <1>1, PTL

(* Whatever the thread makes of the body and in whatever format, to the rest of the
   pipeline it is a thread that reads, ends or fails (extract_with_blocking_decoder). *)
THEOREM ArchiveStreams == ArchiveSpec => Spec
<1>1. ArchiveInit => Init
  BY DEF ArchiveInit
<1>2. ArchiveNext => [Next]_vars
  <2> SUFFICES ASSUME ArchiveNext PROVE [Next]_vars OBVIOUS
  <2>1. CASE WriteChunk
    BY <2>1 DEF WriteChunk, Next, Extract
  <2>2. CASE ThreadReturns
    BY <2>2 DEF ThreadReturns, Next, Extract
  <2>3. ASSUME NEW p \in Paths, UnpackDir(p) PROVE [Next]_vars
    BY <2>3 DEF UnpackDir, Next
  <2>4. ASSUME NEW p \in Paths, ZipEntry(p) PROVE [Next]_vars
    BY <2>4 DEF ZipEntry
  <2>5. CASE (Answer \/ Read \/ Dropped \/ ThreadFails \/ Terminated) /\ Around
    BY <2>5 DEF Next
  <2>. QED BY <2>1, <2>2, <2>3, <2>4, <2>5 DEF ArchiveNext, ThreadStep
<1>3. UNCHANGED allVars => UNCHANGED vars
  BY DEF allVars
<1>. QED BY <1>1, <1>2, <1>3, PTL DEF ArchiveSpec, Spec

(* So no archive that is cut passes for a whole one, and its digest is right. *)
THEOREM ArchivesWhole == ArchiveSpec => [](NothingTruncated /\ DigestFaithful)
BY ArchiveStreams, NeverTruncated, DigestRight, PTL

-----------------------------------------------------------------------------
(* The record of what has been extracted *)

(* The provers do not see that a string literal is a STRING. *)
Word == STRING \cup {".", "bin"}

IsPath(p) == p \in Seq(Word) \ {<<>>} /\ p[1] # "."

LEMMA AboveLemma ==
  ASSUME NEW p, IsPath(p)
  PROVE  \A q \in Above(p) : /\ IsPath(q) /\ q # p /\ q # Top
                             /\ Len(q) \in 1..(Len(p) - 1) /\ q = SubSeq(p, 1, Len(q))
                             /\ Above(q) \subseteq Above(p)
<1> SUFFICES ASSUME NEW n \in 1..(Len(p) - 1)
             PROVE  LET q == SubSeq(p, 1, n)
                    IN  /\ IsPath(q) /\ q # p /\ q # Top
                        /\ Len(q) \in 1..(Len(p) - 1) /\ q = SubSeq(p, 1, Len(q))
                        /\ Above(q) \subseteq Above(p)
  BY DEF Above
<1> DEFINE q == SubSeq(p, 1, n)
<1>1. p \in Seq(Word) /\ Len(p) \in Nat /\ n \in 1..Len(p)
  BY DEF IsPath
<1>2. q \in Seq(Word) /\ Len(q) = n /\ \A i \in 1..n : q[i] = p[i]
  BY <1>1, SubSeqProperties
<1>3. q[1] = p[1] /\ p[1] # "."
  BY <1>2 DEF IsPath
<1>4. IsPath(q)
  <2>. HIDE DEF q
  <2>. QED BY <1>2, <1>3 DEF IsPath
<1>5. q # p /\ q # Top
  <2>. HIDE DEF q
  <2>. QED BY <1>1, <1>2, <1>3 DEF Top
<1>6. ASSUME NEW m \in 1..(Len(q) - 1) PROVE SubSeq(q, 1, m) \in Above(p)
  <2>1. m \in 1..n /\ m \in 1..(Len(p) - 1)
    BY <1>1, <1>2, <1>6
  <2>2. SubSeq(q, 1, m) = SubSeq(p, 1, m)
    <3>1. SubSeq(SubSeq(p, 1, n), 1, m) = SubSeq(p, 1 + 1 - 1, 1 + m - 1)
      BY <1>1, <2>1, SubSeqOfSubSeq
    <3>. QED BY <2>1, <3>1
  <2>. QED BY <2>1, <2>2 DEF Above
<1>7. Above(q) \subseteq Above(p)
  <2>. HIDE DEF q
  <2>. QED BY <1>6 DEF Above
<1>. QED BY <1>2, <1>4, <1>5, <1>7

(* The steps to a path: from the top, and from each directory above it. *)
LEMMA StepsLemma ==
  ASSUME NEW p, IsPath(p)
  PROVE  /\ <<Top, p[1]>> \in Steps(p)
         /\ \A d \in Above(p) : <<d, p[Len(d) + 1]>> \in Steps(p)
         /\ \A s \in Steps(p) : s = <<s[1], s[2]>>
         /\ \A d, n : <<d, n>> \in Steps(p) =>
              \/ d = Top /\ n = p[1]
              \/ d \in Above(p) /\ n = p[Len(d) + 1]
<1>1. p \in Seq(Word) /\ Len(p) \in Nat /\ p[1] # "."
  BY DEF IsPath
<1>2. Steps(p) = {<<SubSeq(p, 1, n), p[n + 1]>> : n \in 1..(Len(p) - 1)} \cup {<<Top, p[1]>>}
  BY <1>1 DEF Steps
<1>3. \A n \in 1..(Len(p) - 1) : Len(SubSeq(p, 1, n)) = n
  BY <1>1, SubSeqProperties
<1>4. ASSUME NEW d \in Above(p) PROVE <<d, p[Len(d) + 1]>> \in Steps(p)
  BY <1>2, <1>3, <1>4 DEF Above
<1>5. ASSUME NEW d, NEW n, <<d, n>> \in Steps(p)
      PROVE  (d = Top /\ n = p[1]) \/ (d \in Above(p) /\ n = p[Len(d) + 1])
  <2>1. CASE <<d, n>> = <<Top, p[1]>>
    BY <2>1
  <2>2. CASE \E m \in 1..(Len(p) - 1) : <<d, n>> = <<SubSeq(p, 1, m), p[m + 1]>>
    <3>1. PICK m \in 1..(Len(p) - 1) : <<d, n>> = <<SubSeq(p, 1, m), p[m + 1]>>
      BY <2>2
    <3>2. d = SubSeq(p, 1, m) /\ n = p[m + 1]
      BY <3>1
    <3>3. Len(d) = m /\ d \in Above(p)
      BY <1>3, <3>2 DEF Above
    <3>. QED BY <3>2, <3>3
  <2>. QED BY <1>2, <1>5, <2>1, <2>2
<1>6. \A s \in Steps(p) : s = <<s[1], s[2]>>
  BY <1>2
<1>. QED BY <1>2, <1>4, <1>5, <1>6

(* With "./" in front they lead through the top and what is no path in the tree. *)
LEMMA DottedLemma ==
  ASSUME NEW p, IsPath(p)
  PROVE  /\ ~IsPath(Top \o p) /\ Top \o p # Top
         /\ \A s \in Steps(Top \o p) : s = <<s[1], s[2]>> /\ ~IsPath(s[1])
         /\ \A n : <<Top, n>> \in Steps(Top \o p) => n = p[1]
<1> DEFINE w == Top \o p
<1>p. p \in Seq(Word) /\ Len(p) \in Nat \ {0}
  <2>1. p \in Seq(Word) /\ p # <<>>
    BY DEF IsPath
  <2>. QED BY <2>1, EmptySeq
<1>1. Top \in Seq(Word) /\ Len(Top) = 1 /\ Top[1] = "."
  BY DEF Top, Word
<1>2. w \in Seq(Word) /\ Len(w) = Len(p) + 1 /\ w[1] = "." /\ w[2] = p[1]
  <2>1. /\ Top \o p \in Seq(Word) /\ Len(Top \o p) = Len(Top) + Len(p)
        /\ \A i \in 1..(Len(Top) + Len(p)) :
             (Top \o p)[i] = IF i <= Len(Top) THEN Top[i] ELSE p[i - Len(Top)]
    BY <1>p, <1>1, ConcatProperties
  <2>2. 1 \in 1..(1 + Len(p)) /\ 2 \in 1..(1 + Len(p))
    BY <1>p
  <2>. QED BY <1>p, <1>1, <2>1, <2>2
<1>. HIDE DEF w
<1>3. ~IsPath(w) /\ w # Top
  BY <1>1, <1>2 DEF IsPath
<1>4. Steps(w) = {<<SubSeq(w, 1, n), w[n + 1]>> : n \in 1..(Len(w) - 1)}
  BY <1>2 DEF Steps
<1>5. ASSUME NEW n \in 1..(Len(w) - 1)
      PROVE  SubSeq(w, 1, n)[1] = "." /\ Len(SubSeq(w, 1, n)) = n
  <2>1. n \in 1..Len(w)
    BY <1>2
  <2>2. Len(SubSeq(w, 1, n)) = n /\ \A i \in 1..n : SubSeq(w, 1, n)[i] = w[i]
    BY <1>2, <2>1, SubSeqProperties
  <2>. QED BY <1>2, <2>2
<1>6. ASSUME NEW s \in Steps(w) PROVE s = <<s[1], s[2]>> /\ ~IsPath(s[1])
  <2>1. PICK n \in 1..(Len(w) - 1) : s = <<SubSeq(w, 1, n), w[n + 1]>>
    BY <1>4
  <2>. QED BY <1>5, <2>1 DEF IsPath
<1>7. ASSUME NEW n, <<Top, n>> \in Steps(w) PROVE n = p[1]
  <2>1. PICK m \in 1..(Len(w) - 1) : <<Top, n>> = <<SubSeq(w, 1, m), w[m + 1]>>
    BY <1>4, <1>7
  <2>2. Top = SubSeq(w, 1, m) /\ n = w[m + 1]
    BY <2>1
  <2>3. m = 1
    BY <1>1, <1>5, <2>2
  <2>. QED BY <1>2, <2>2, <2>3
<1>. QED BY <1>3, <1>6, <1>7 DEF w

FilesIn(r) == {q \in DOMAIN r : r[q].file}

(* The directories that lead to a path become such, with one name more; all else
   is as it was. *)
LEMMA AddToParentsLemma ==
  ASSUME NEW r, NEW p, \A s \in Steps(p) : s = <<s[1], s[2]>>
  PROVE  /\ \A q : q \in FilesIn(AddToParents(r, p)) <=> q \in FilesIn(r) /\ ~\E n : <<q, n>> \in Steps(p)
         /\ \A q, n : n \in Names(AddToParents(r, p), q) <=> n \in Names(r, q) \/ <<q, n>> \in Steps(p)
<1> DEFINE r2 == AddToParents(r, p)
<1>1. DOMAIN r2 = DOMAIN r \cup {s[1] : s \in Steps(p)}
  BY DEF AddToParents
<1>2. ASSUME NEW q, NEW n, <<q, n>> \in Steps(p)
      PROVE  /\ q \in DOMAIN r2 /\ r2[q].file = FALSE
             /\ \A m : m \in r2[q].names <=> m \in Names(r, q) \/ <<q, m>> \in Steps(p)
  <2>1. \E s \in Steps(p) : s[1] = q
    BY <1>2
  <2>2. q \in DOMAIN r2 /\ r2[q] = Dir(Names(r, q) \cup {s[2] : s \in {t \in Steps(p) : t[1] = q}})
    BY <2>1 DEF AddToParents
  <2>3. \A m : m \in {s[2] : s \in {t \in Steps(p) : t[1] = q}} <=> <<q, m>> \in Steps(p)
    OBVIOUS
  <2>. QED BY <2>2, <2>3 DEF Dir
<1>3. ASSUME NEW q \in DOMAIN r, ~\E n : <<q, n>> \in Steps(p)
      PROVE  q \in DOMAIN r2 /\ r2[q] = r[q]
  <2>1. ~\E s \in Steps(p) : s[1] = q
    <3> SUFFICES ASSUME NEW s \in Steps(p), s[1] = q PROVE FALSE
      OBVIOUS
    <3>1. s = <<q, s[2]>>
      OBVIOUS
    <3>. QED BY <1>3, <3>1
  <2>. QED BY <2>1 DEF AddToParents
<1>4. \A q \in DOMAIN r2 : q \in DOMAIN r \/ \E n : <<q, n>> \in Steps(p)
  BY <1>1
<1>. HIDE DEF r2
<1>5. ASSUME NEW q PROVE q \in FilesIn(r2) <=> q \in FilesIn(r) /\ ~\E n : <<q, n>> \in Steps(p)
  BY <1>2, <1>3, <1>4 DEF FilesIn
<1>6. ASSUME NEW q, NEW n PROVE n \in Names(r2, q) <=> n \in Names(r, q) \/ <<q, n>> \in Steps(p)
  <2>1. CASE \E m : <<q, m>> \in Steps(p)
    BY <1>2, <2>1 DEF Names
  <2>2. CASE ~\E m : <<q, m>> \in Steps(p)
    BY <1>3, <1>4, <2>2 DEF Names
  <2>. QED BY <2>1, <2>2
<1>. QED BY <1>5, <1>6 DEF r2

LEMMA AddFileLemma ==
  ASSUME NEW r, NEW p, IsPath(p)
  PROVE  /\ \A q : q \in FilesIn(AddFile(r, p)) <=> (q = p \/ q \in FilesIn(r)) /\ q \notin Above(p) \cup {Top}
         /\ \A q, n : n \in Names(AddFile(r, p), q) <=> (q # p /\ n \in Names(r, q)) \/ <<q, n>> \in Steps(p)
<1> DEFINE r1 == Put(r, p, File)
<1>1. /\ \A q : q \in FilesIn(r1) <=> q = p \/ q \in FilesIn(r)
      /\ \A q, n : n \in Names(r1, q) <=> q # p /\ n \in Names(r, q)
  BY DEF Put, File, FilesIn, Names
<1>2. AddFile(r, p) = AddToParents(r1, p)
  BY DEF AddFile
<1>. HIDE DEF r1
<1>3. \A q : (\E n : <<q, n>> \in Steps(p)) <=> q \in Above(p) \cup {Top}
  BY StepsLemma
<1>4. /\ \A q : q \in FilesIn(AddToParents(r1, p)) <=> q \in FilesIn(r1) /\ ~\E n : <<q, n>> \in Steps(p)
      /\ \A q, n : n \in Names(AddToParents(r1, p), q) <=> n \in Names(r1, q) \/ <<q, n>> \in Steps(p)
  <2>1. \A s \in Steps(p) : s = <<s[1], s[2]>>
    BY StepsLemma
  <2>. QED BY <2>1, AddToParentsLemma
<1>. QED BY <1>1, <1>2, <1>3, <1>4

LEMMA AddDirLemma ==
  ASSUME NEW r, NEW p, \A s \in Steps(p) : s = <<s[1], s[2]>>
  PROVE  /\ \A q : q \in FilesIn(AddDir(r, p)) <=>
                     q \in FilesIn(r) /\ q # p /\ ~\E n : <<q, n>> \in Steps(p)
         /\ \A q, n : n \in Names(AddDir(r, p), q) <=> n \in Names(r, q) \/ <<q, n>> \in Steps(p)
<1> DEFINE r1 == Put(r, p, Dir(Names(r, p)))
<1>1. \A q : q \in FilesIn(r1) <=> q # p /\ q \in FilesIn(r)
  BY DEF Put, Dir, FilesIn
<1>2. \A q, n : n \in Names(r1, q) <=> n \in Names(r, q)
  BY DEF Put, Dir, Names
<1>3. AddDir(r, p) = AddToParents(r1, p)
  BY DEF AddDir
<1>. HIDE DEF r1
<1>. QED BY <1>1, <1>2, <1>3, AddToParentsLemma

(* The record r of what is in the tree t: paths only, and no file above another;
   the files are those of the tree, the names in a directory lead to something in
   it, and all that lead to a file are there. *)
Matches(t, r) ==
  /\ \A p \in DOMAIN t : IsPath(p) /\ \A q \in Above(p) : q \in DOMAIN t /\ t[q] = "dir"
  /\ FilesIn(r) = {p \in DOMAIN t : t[p] # "dir"}
  /\ \A p \in FilesIn(r) : \A d, n : <<d, n>> \in Steps(p) => n \in Names(r, d)
  /\ \A d, n : n \in Names(r, d) /\ (d = Top \/ IsPath(d)) => \E p \in DOMAIN t : <<d, n>> \in Steps(p)

(* The tree t with a thing of that kind at p. *)
Placed(t, t2, p, kind) ==
  /\ DOMAIN t2 = DOMAIN t \cup Above(p) \cup {p}
  /\ \A q \in DOMAIN t2 : t2[q] = IF q = p THEN kind ELSE IF q \in Above(p) THEN "dir" ELSE t[q]

LEMMA PlacedPaths ==
  ASSUME NEW t, NEW t2, NEW p, NEW kind, IsPath(p), Placed(t, t2, p, kind),
         \A q \in DOMAIN t : IsPath(q) /\ \A o \in Above(q) : o \in DOMAIN t /\ t[o] = "dir",
         p \in DOMAIN t /\ t[p] = "dir" => kind = "dir"
  PROVE  \A q \in DOMAIN t2 : IsPath(q) /\ \A o \in Above(q) : o \in DOMAIN t2 /\ t2[o] = "dir"
<1> SUFFICES ASSUME NEW q \in DOMAIN t2
             PROVE  IsPath(q) /\ \A o \in Above(q) : o \in DOMAIN t2 /\ t2[o] = "dir"
  OBVIOUS
<1>1. CASE q \in Above(p) \cup {p}
  <2>1. IsPath(q) /\ Above(q) \subseteq Above(p) /\ p \notin Above(p)
    BY <1>1, AboveLemma
  <2>. QED BY <2>1 DEF Placed
<1>2. CASE q \in DOMAIN t
  BY <1>2 DEF Placed
<1>. QED BY <1>1, <1>2 DEF Placed

LEMMA FileMatches ==
  ASSUME NEW t, NEW r, NEW t2, NEW p, NEW kind, Matches(t, r), IsPath(p), kind # "dir",
         ~(p \in DOMAIN t /\ t[p] = "dir"), \A q \in Above(p) : q \in DOMAIN t => t[q] = "dir",
         Placed(t, t2, p, kind)
  PROVE  Matches(t2, AddFile(r, p))
<1> DEFINE r2 == AddFile(r, p)
<1>1. /\ \A q : q \in FilesIn(r2) <=> (q = p \/ q \in FilesIn(r)) /\ q \notin Above(p) \cup {Top}
      /\ \A q, n : n \in Names(r2, q) <=> (q # p /\ n \in Names(r, q)) \/ <<q, n>> \in Steps(p)
  BY AddFileLemma
<1>. HIDE DEF r2
<1>2. p \notin Above(p) /\ p # Top /\ ~IsPath(Top)
  BY AboveLemma DEF IsPath, Top
<1>3. \A q \in DOMAIN t2 : IsPath(q) /\ \A o \in Above(q) : o \in DOMAIN t2 /\ t2[o] = "dir"
  BY PlacedPaths DEF Matches
<1>4. FilesIn(r2) = {q \in DOMAIN t2 : t2[q] # "dir"}
  BY <1>1, <1>2 DEF Matches, Placed
<1>5. ASSUME NEW q \in FilesIn(r2), NEW d, NEW n, <<d, n>> \in Steps(q) PROVE n \in Names(r2, d)
  <2>1. CASE q = p
    BY <1>1, <1>5, <2>1
  <2>2. CASE q \in FilesIn(r)
    <3>1. n \in Names(r, d) /\ q \in DOMAIN t /\ IsPath(q)
      BY <1>5, <2>2 DEF Matches
    <3>2. d \in Above(q) \/ d = Top
      BY <1>5, <3>1, StepsLemma
    <3>3. d # p
      BY <1>2, <3>1, <3>2 DEF Matches
    <3>. QED BY <1>1, <3>1, <3>3
  <2>. QED BY <1>1, <2>1, <2>2
<1>6. ASSUME NEW d, NEW n, n \in Names(r2, d), d = Top \/ IsPath(d)
      PROVE  \E q \in DOMAIN t2 : <<d, n>> \in Steps(q)
  BY <1>1, <1>6 DEF Matches, Placed
<1>7. Matches(t2, r2)
  BY <1>3, <1>4, <1>5, <1>6 DEF Matches
<1>. QED BY <1>7 DEF r2

LEMMA DirMatches ==
  ASSUME NEW t, NEW r, NEW t2, NEW p, NEW w, Matches(t, r), IsPath(p), w \in {p, Top \o p},
         p \in DOMAIN t => t[p] = "dir", \A q \in Above(p) : q \in DOMAIN t => t[q] = "dir",
         Placed(t, t2, p, "dir")
  PROVE  Matches(t2, AddDir(r, w))
<1> DEFINE r2 == AddDir(r, w)
<1>1. \A s \in Steps(w) : s = <<s[1], s[2]>>
  BY StepsLemma, DottedLemma
<1>2. /\ \A q : q \in FilesIn(r2) <=> q \in FilesIn(r) /\ q # w /\ ~\E n : <<q, n>> \in Steps(w)
      /\ \A q, n : n \in Names(r2, q) <=> n \in Names(r, q) \/ <<q, n>> \in Steps(w)
  BY <1>1, AddDirLemma
<1>. HIDE DEF r2
<1>3. ~IsPath(Top)
  BY DEF IsPath, Top
<1>4. \A q \in DOMAIN t2 : IsPath(q) /\ \A o \in Above(q) : o \in DOMAIN t2 /\ t2[o] = "dir"
  BY PlacedPaths DEF Matches
<1>5. \A d, n : <<d, n>> \in Steps(w) /\ (d = Top \/ IsPath(d)) => <<d, n>> \in Steps(p)
  <2>1. CASE w = p
    BY <2>1
  <2>2. CASE w = Top \o p
    <3> SUFFICES ASSUME NEW d, NEW n, <<d, n>> \in Steps(w), d = Top \/ IsPath(d)
                 PROVE  <<d, n>> \in Steps(p)
      OBVIOUS
    <3>1. ~IsPath(d)
      <4>1. ~IsPath(<<d, n>>[1])
        BY <2>2, DottedLemma
      <4>. QED BY <4>1
    <3>2. d = Top /\ n = p[1]
      BY <2>2, <3>1, DottedLemma
    <3>. QED BY <3>2, StepsLemma
  <2>. QED BY <2>1, <2>2
<1>6. ASSUME NEW q \in FilesIn(r) PROVE q # w /\ ~\E n : <<q, n>> \in Steps(w)
  <2>1. IsPath(q) /\ q \in DOMAIN t /\ t[q] # "dir"
    BY <1>6 DEF Matches
  <2>2. q # w
    BY <2>1, DottedLemma
  <2>3. ASSUME NEW n, <<q, n>> \in Steps(w) PROVE FALSE
    <3>1. <<q, n>> \in Steps(p)
      BY <1>5, <2>1, <2>3
    <3>2. q \in Above(p)
      BY <1>3, <2>1, <3>1, StepsLemma
    <3>. QED BY <2>1, <3>2
  <2>. QED BY <2>2, <2>3
<1>7. FilesIn(r2) = {q \in DOMAIN t2 : t2[q] # "dir"}
  <2>1. FilesIn(r2) = FilesIn(r)
    BY <1>2, <1>6
  <2>. QED BY <2>1 DEF Matches, Placed
<1>8. ASSUME NEW q \in FilesIn(r2), NEW d, NEW n, <<d, n>> \in Steps(q) PROVE n \in Names(r2, d)
  BY <1>2, <1>8 DEF Matches
<1>9. ASSUME NEW d, NEW n, n \in Names(r2, d), d = Top \/ IsPath(d)
      PROVE  \E q \in DOMAIN t2 : <<d, n>> \in Steps(q)
  BY <1>2, <1>5, <1>9 DEF Matches, Placed
<1>10. Matches(t2, r2)
  BY <1>4, <1>7, <1>8, <1>9 DEF Matches
<1>. QED BY <1>10 DEF r2

(* The directories above p are there, but nothing new at p itself. *)
LEMMA AboveMatches ==
  ASSUME NEW t, NEW r, NEW t2, NEW p, Matches(t, r), IsPath(p),
         \A q \in Above(p) : q \in DOMAIN t => t[q] = "dir",
         DOMAIN t2 = DOMAIN t \cup Above(p),
         \A q \in DOMAIN t2 : t2[q] = IF q \in Above(p) THEN "dir" ELSE t[q]
  PROVE  Matches(t2, r)
<1>1. \A q \in Above(p) : IsPath(q) /\ Above(q) \subseteq Above(p)
  BY AboveLemma
<1>2. \A q \in DOMAIN t2 : IsPath(q) /\ \A o \in Above(q) : o \in DOMAIN t2 /\ t2[o] = "dir"
  BY <1>1 DEF Matches
<1>3. FilesIn(r) = {q \in DOMAIN t2 : t2[q] # "dir"}
  BY DEF Matches
<1>. QED BY <1>2, <1>3 DEF Matches

(* Links are made by a zip only, and stay. *)
LinksStay ==
  /\ DOMAIN to # {} => format = "zip"
  /\ \A q \in DOMAIN to : q \in DOMAIN tree /\ tree[q] = "link"

ArchiveInv == LinksStay /\ (skipped \/ through \/ Matches(tree, rec))

LEMMA MadeLemma ==
  ASSUME NEW p, NEW kind
  PROVE  Placed(tree, Made(p, kind), p, kind)
BY DEF Made, Placed

LEMMA InitArchiveInv == ArchiveInit => ArchiveInv
<1>0. ArchiveInit => LinksStay
  <2>1. DOMAIN <<>> = {}
    OBVIOUS
  <2>2. ArchiveInit => to = <<>>
    BY DEF ArchiveInit
  <2>. QED BY <2>1, <2>2 DEF LinksStay
<1> SUFFICES ASSUME ArchiveInit PROVE Matches(tree, rec)
  BY <1>0 DEF ArchiveInv
<1>1. Matches(<<>>, <<>>)
  BY DEF Matches, FilesIn, Names
<1>2. CASE tree = <<>> /\ rec = <<>>
  BY <1>1, <1>2
<1>3. CASE /\ tree = [p \in {<<"bin">>} |-> "file"]
           /\ rec = AddFile(<<>>, <<"bin">>)
  <2> DEFINE b == <<"bin">>
  <2>1. IsPath(b) /\ Len(b) = 1
    BY DEF IsPath, Word
  <2>2. Above(b) = {}
    BY <2>1 DEF Above
  <2>. HIDE DEF b
  <2>3. Placed(<<>>, tree, b, "file")
    BY <1>3, <2>2 DEF Placed, b
  <2>4. Matches(tree, AddFile(<<>>, b))
    BY <1>1, <2>1, <2>2, <2>3, FileMatches
  <2>. QED BY <1>3, <2>4 DEF b
<1>. QED BY <1>2, <1>3 DEF ArchiveInit

(* Where no link is on the way, the directories above p are the ones made. *)
LEMMA StraightLemma ==
  ASSUME NEW p, IsPath(p), Straight(p), ~Blocked(p)
  PROVE  /\ Where(p) = p
         /\ p \notin DOMAIN to => Follow(p) = p
         /\ \A q \in Above(p) : q \in DOMAIN tree => tree[q] = "dir"
         /\ DOMAIN CreateDirAll(p) = DOMAIN tree \cup Above(p)
         /\ \A q \in DOMAIN CreateDirAll(p) :
              CreateDirAll(p)[q] = IF q \in DOMAIN tree THEN tree[q] ELSE "dir"
<1>1. p \in Seq(Word) /\ Len(p) \in Nat \ {0}
  BY DEF IsPath
<1>2. ASSUME NEW q \in Seq(Word), \A n \in 1..Len(q) : SubSeq(q, 1, n) \notin DOMAIN to
      PROVE  Follow(q) = q
  BY <1>2 DEF Follow
<1>3. ASSUME NEW q \in Above(p) PROVE Follow(q) = q /\ q # <<>>
  <2>1. IsPath(q) /\ q = SubSeq(q, 1, Len(q)) /\ Above(q) \subseteq Above(p)
    BY <1>3, AboveLemma, SubSeqFull DEF IsPath
  <2>2. ASSUME NEW n \in 1..Len(q) PROVE SubSeq(q, 1, n) \in Above(p)
    <3>1. Len(q) \in Nat
      BY <2>1 DEF IsPath
    <3>2. CASE n = Len(q)
      BY <1>3, <2>1, <3>2
    <3>3. CASE n < Len(q)
      <4>1. n \in 1..(Len(q) - 1)
        BY <3>1, <3>3
      <4>2. SubSeq(q, 1, n) \in Above(q)
        BY <4>1 DEF Above
      <4>. QED BY <2>1, <4>2
    <3>. QED BY <3>1, <3>2, <3>3
  <2>. QED BY <1>2, <2>1, <2>2 DEF Straight, IsPath
<1>4. Where(p) = p
  <2>1. Parent(p) \in Seq(Word) /\ Len(Parent(p)) = Len(p) - 1
    <3> DEFINE n == Len(p) - 1
    <3>1. n \in Nat /\ \A i \in 1..n : p[i] \in Word
      BY <1>1
    <3>2. SubSeq(p, 1, n) \in Seq(Word) /\ Len(SubSeq(p, 1, n)) = IF 1 <= n THEN n - 1 + 1 ELSE 0
      <4>. HIDE DEF n
      <4>. QED BY <3>1, SubSeqProperties
    <3>3. Parent(p) = SubSeq(p, 1, n)
      BY DEF Parent
    <3>. HIDE DEF n
    <3>4. Parent(p) \in Seq(Word) /\ Len(Parent(p)) = n
      BY <3>1, <3>2, <3>3
    <3>. QED BY <3>4 DEF n
  <2>2. Follow(Parent(p)) = Parent(p)
    <3>1. CASE Len(p) = 1
      <4>1. 1..Len(Parent(p)) = {}
        BY <2>1, <3>1
      <4>. QED BY <1>2, <2>1, <4>1
    <3>2. CASE Len(p) > 1
      <4>1. Len(p) - 1 \in 1..(Len(p) - 1)
        BY <1>1, <3>2
      <4>2. Parent(p) \in Above(p)
        BY <4>1 DEF Above, Parent
      <4>. QED BY <1>3, <4>2
    <3>3. Len(p) = 1 \/ Len(p) > 1
      <4> DEFINE n == Len(p)
      <4>1. n \in Nat \ {0}
        BY <1>1
      <4>. HIDE DEF n
      <4>2. n = 1 \/ n > 1
        BY <4>1
      <4>. QED BY <4>2 DEF n
    <3>. QED BY <3>1, <3>2, <3>3
  <2>3. Append(SubSeq(p, 1, Len(p) - 1), p[Len(p)]) = p
    BY <1>1
  <2>. QED BY <2>2, <2>3 DEF Where, Parent
<1>5. ASSUME p \notin DOMAIN to PROVE Follow(p) = p
  <2>1. ASSUME NEW n \in 1..Len(p) PROVE SubSeq(p, 1, n) \notin DOMAIN to
    <3>1. CASE n = Len(p)
      <4>1. SubSeq(p, 1, Len(p)) = p
        BY <1>1, SubSeqFull
      <4>. QED BY <1>5, <3>1, <4>1
    <3>2. CASE n < Len(p)
      <4>1. n \in 1..(Len(p) - 1)
        BY <1>1, <3>2
      <4>2. SubSeq(p, 1, n) \in Above(p)
        BY <4>1 DEF Above
      <4>. QED BY <4>2 DEF Straight
    <3>. QED BY <1>1, <3>1, <3>2
  <2>. QED BY <1>1, <1>2, <2>1
<1>6. ASSUME NEW q \in Above(p), q \in DOMAIN tree PROVE tree[q] = "dir"
  BY <1>3, <1>6 DEF Blocked, IsDir
<1>7. {Follow(o) : o \in Above(p)} \ {<<>>} = Above(p)
  BY <1>3
<1>8. CreateDirAll(p) = [q \in DOMAIN tree \cup Above(p) |->
                          IF q \in DOMAIN tree THEN tree[q] ELSE "dir"]
  BY <1>7 DEF CreateDirAll
<1>. QED BY <1>4, <1>5, <1>6, <1>8

(* Nothing that is in place turns into something else where directories are made. *)
LEMMA CreateKeeps == \A p : \A q \in DOMAIN tree : q \in DOMAIN CreateDirAll(p) /\ CreateDirAll(p)[q] = tree[q]
BY DEF CreateDirAll

LEMMA NextLinksStay == LinksStay /\ [ArchiveNext]_allVars => LinksStay'
<1> SUFFICES ASSUME LinksStay, [ArchiveNext]_allVars PROVE LinksStay' OBVIOUS
<1>f. format' = format
  BY DEF ArchiveNext, ThreadStep, WriteChunk, ThreadReturns, UnpackDir, ZipEntry, Around, allVars
<1>1. ASSUME UNCHANGED <<tree, to>> PROVE LinksStay'
  BY <1>f, <1>1 DEF LinksStay
<1>2. ASSUME UNCHANGED files PROVE LinksStay'
  BY <1>1, <1>2 DEF files
<1>3. CASE WriteChunk
  <2>1. CASE UNCHANGED files
    BY <1>2, <2>1
  <2>2. ASSUME NEW p \in Paths, TarEntry(p), UNCHANGED to, format = "tar" PROVE LinksStay'
    <3>1. DOMAIN to = {}
      BY <2>2 DEF LinksStay
    <3>. QED BY <1>f, <2>2, <3>1 DEF LinksStay
  <2>. QED BY <1>3, <2>1, <2>2 DEF WriteChunk
<1>4. ASSUME NEW p \in Paths, UnpackDir(p) PROVE LinksStay'
  <2>1. CASE UNCHANGED files
    BY <1>2, <2>1
  <2>2. CASE /\ p \in DOMAIN tree => IsDir(p)
             /\ ~NoWay(p) /\ tree' = Made(p, "dir") /\ UNCHANGED to
    <3>1. ASSUME NEW q \in DOMAIN to PROVE q \in DOMAIN tree' /\ tree'[q] = "link"
      BY <2>2 DEF LinksStay, Made, NoWay, IsDir
    <3>. QED BY <1>f, <2>2, <3>1 DEF LinksStay
  <2>. QED BY <1>4, <2>1, <2>2 DEF UnpackDir
<1>5. ASSUME NEW p \in Paths, ZipEntry(p) PROVE LinksStay'
  <2> DEFINE t == CreateDirAll(p)
  <2>1. \A q \in DOMAIN to : q \in DOMAIN t /\ t[q] = "link"
    BY CreateKeeps DEF LinksStay
  <2>. HIDE DEF t
  <2>2. format' = "zip"
    BY <1>f, <1>5 DEF ZipEntry
  <2>3. CASE ZipFile(p)
    <3> DEFINE f == Follow(Where(p))
    <3>1. (f \in DOMAIN t => t[f] = "file") /\ tree' = Put(t, f, "file") /\ UNCHANGED to
      BY <2>3 DEF ZipFile, t
    <3>. HIDE DEF f
    <3>2. ASSUME NEW q \in DOMAIN to PROVE q \in DOMAIN tree' /\ tree'[q] = "link"
      BY <2>1, <3>1 DEF Put
    <3>. QED BY <2>2, <3>1, <3>2 DEF LinksStay
  <2>4. CASE ZipLink(p)
    <3> DEFINE w == Where(p)
    <3>1. CASE /\ tree' = [q \in DOMAIN t \ {o \in {w} \cap DOMAIN t : t[o] = "file"} |-> t[q]]
               /\ UNCHANGED to
      <4>1. ASSUME NEW q \in DOMAIN to PROVE q \in DOMAIN tree' /\ tree'[q] = "link"
        BY <2>1, <3>1
      <4>. QED BY <2>2, <3>1, <4>1 DEF LinksStay
    <3>2. ASSUME NEW target, w \in DOMAIN t => t[w] = "file",
                 tree' = Put(t, w, "link"), to' = Put(to, w, target)
          PROVE  LinksStay'
      <4>1. ASSUME NEW q \in DOMAIN to' PROVE q \in DOMAIN tree' /\ tree'[q] = "link"
        BY <2>1, <3>2, <4>1 DEF Put
      <4>. QED BY <2>2, <4>1 DEF LinksStay
    <3>. QED BY <2>4, <3>1, <3>2 DEF ZipLink, t
  <2>5. CASE ZipDirectory(p)
    BY <2>1, <2>2, <2>5 DEF ZipDirectory, LinksStay, t
  <2>. QED BY <1>5, <2>3, <2>4, <2>5 DEF ZipEntry
<1>6. CASE ThreadReturns
  BY <1>2, <1>6 DEF ThreadReturns
<1>7. CASE Around
  BY <1>2, <1>7 DEF Around
<1>8. CASE UNCHANGED allVars
  BY <1>2, <1>8 DEF allVars
<1>. QED BY <1>3, <1>4, <1>5, <1>6, <1>7, <1>8 DEF ArchiveNext, ThreadStep

LEMMA NextArchiveInv == ArchiveInv /\ [ArchiveNext]_allVars => ArchiveInv'
<1> SUFFICES ASSUME ArchiveInv, [ArchiveNext]_allVars PROVE (skipped \/ through \/ Matches(tree, rec))'
  BY NextLinksStay DEF ArchiveInv
<1>s. /\ skipped \/ through \/ Matches(tree, rec)
      /\ Matches(tree', rec') => Matches(tree, rec)'
  BY DEF ArchiveInv, Matches, FilesIn, Names
<1>1. ASSUME UNCHANGED <<tree, rec, skipped, through>> PROVE (skipped \/ through \/ Matches(tree, rec))'
  BY <1>s, <1>1 DEF Matches, FilesIn, Names
<1>2. ASSUME NEW p \in Paths
      PROVE  IsPath(p) /\ (~NoWay(p) => \A q \in Above(p) : q \in DOMAIN tree => tree[q] = "dir")
  <2>1. p \in Seq(STRING) /\ p # <<>> /\ p[1] # "."
    BY <1>2, PathsAssumption
  <2>2. p \in Seq(Word)
    BY <2>1 DEF Word
  <2>. QED BY <2>1, <2>2 DEF IsPath, NoWay, IsDir
<1>3. ASSUME NEW p \in Paths, NEW kind, kind # "dir", ~IsDir(p),
             \A q \in Above(p) : q \in DOMAIN tree => tree[q] = "dir",
             Placed(tree, tree', p, kind), rec' = AddFile(rec, p), Matches(tree, rec)
      PROVE  (skipped \/ through \/ Matches(tree, rec))'
  <2>1. Matches(tree', rec')
    BY <1>2, <1>3, FileMatches DEF IsDir
  <2>. QED BY <1>s, <2>1
<1>4. CASE WriteChunk
  <2>1. CASE UNCHANGED files
    BY <1>1, <2>1 DEF files
  <2>2. ASSUME NEW p \in Paths, TarEntry(p), UNCHANGED <<skipped, through>>
        PROVE  (skipped \/ through \/ Matches(tree, rec))'
    <3>1. CASE ~IsDir(p) /\ ~NoWay(p) /\ tree' = Made(p, "file") /\ rec' = AddFile(rec, p)
      <4>1. Placed(tree, tree', p, "file")
        BY <3>1, MadeLemma
      <4>. HIDE DEF Placed
      <4>. QED BY <1>s, <1>2, <1>3, <2>2, <3>1, <4>1
    <3>2. CASE UNCHANGED <<tree, rec>>
      BY <1>1, <2>2, <3>2
    <3>. QED BY <2>2, <3>1, <3>2 DEF TarEntry
  <2>. QED BY <1>4, <2>1, <2>2 DEF WriteChunk
<1>5. ASSUME NEW p \in Paths, UnpackDir(p) PROVE (skipped \/ through \/ Matches(tree, rec))'
  <2>1. CASE UNCHANGED files
    BY <1>1, <2>1 DEF files
  <2>2. CASE /\ p \in DOMAIN tree => IsDir(p)
             /\ ~NoWay(p)
             /\ tree' = Made(p, "dir")
             /\ rec' = AddDir(rec, IF dotted THEN Top \o p ELSE p)
             /\ UNCHANGED <<skipped, through>>
    <3> DEFINE w == IF dotted THEN Top \o p ELSE p
    <3>1. Placed(tree, tree', p, "dir") /\ w \in {p, Top \o p} /\ rec' = AddDir(rec, w)
      BY <2>2, MadeLemma
    <3>. HIDE DEF w
    <3>2. ASSUME Matches(tree, rec) PROVE Matches(tree', rec')
      BY <1>2, <2>2, <3>1, <3>2, DirMatches DEF IsDir
    <3>. QED BY <1>s, <2>2, <3>2
  <2>. QED BY <1>5, <2>1, <2>2 DEF UnpackDir
<1>6. ASSUME NEW p \in Paths, ZipEntry(p), Matches(tree, rec), ~skipped', ~through'
      PROVE  Matches(tree, rec)'
  <2> DEFINE t == CreateDirAll(p)
             f == Follow(Where(p))
  <2>1. IsPath(p) /\ Straight(p) /\ ~Blocked(p)
    BY <1>2, <1>6 DEF ZipEntry, ZipFile, ZipLink, ZipDirectory
  <2>2. /\ Where(p) = p /\ (p \notin DOMAIN to => f = p)
        /\ \A q \in Above(p) : q \in DOMAIN tree => tree[q] = "dir"
        /\ DOMAIN t = DOMAIN tree \cup Above(p)
        /\ \A q \in DOMAIN t : t[q] = IF q \in DOMAIN tree THEN tree[q] ELSE "dir"
    BY <2>1, StraightLemma
  <2>3. p \notin Above(p)
    BY <2>1, AboveLemma
  <2>. HIDE DEF t
  <2>4. ASSUME NEW kind, kind # "dir", ~IsDir(p), Placed(tree, tree', p, kind), rec' = AddFile(rec, p)
        PROVE  Matches(tree, rec)'
    BY <1>3, <1>6, <2>2, <2>4
  <2>5. CASE ZipFile(p)
    <3>1. /\ f \in DOMAIN t => t[f] = "file"
          /\ tree' = Put(t, f, "file") /\ rec' = AddFile(rec, p)
          /\ f = p \/ f \in DOMAIN tree
      BY <1>6, <2>5 DEF ZipFile, t
    <3>2. CASE f = p
      <4>1. Placed(tree, tree', p, "file")
        BY <2>2, <2>3, <3>1, <3>2 DEF Placed, Put
      <4>2. ~IsDir(p)
        BY <2>2, <3>1, <3>2 DEF IsDir
      <4>. QED BY <2>4, <3>1, <4>1, <4>2
    <3>3. CASE f # p
      <4>1. p \in DOMAIN tree /\ tree[p] = "link"
        BY <2>2, <3>3 DEF ArchiveInv, LinksStay
      <4>2. f \in DOMAIN tree /\ tree[f] = "file"
        BY <2>2, <3>1, <3>3
      <4>. HIDE DEF f
      <4>3. Placed(tree, tree', p, "link")
        BY <2>2, <2>3, <3>1, <4>1, <4>2 DEF Placed, Put
      <4>. QED BY <2>4, <3>1, <4>1, <4>3 DEF IsDir
    <3>. QED BY <3>2, <3>3
  <2>6. CASE ZipLink(p)
    <3>1. /\ p \in DOMAIN t => t[p] = "file"
          /\ tree' = Put(t, p, "link") /\ rec' = AddFile(rec, p)
      BY <1>6, <2>2, <2>6 DEF ZipLink, t
    <3>2. Placed(tree, tree', p, "link") /\ ~IsDir(p)
      BY <2>2, <2>3, <3>1 DEF Placed, Put, IsDir
    <3>. QED BY <2>4, <3>1, <3>2
  <2>7. CASE ZipDirectory(p)
    <3>1. tree' = t /\ rec' = rec
      BY <2>7 DEF ZipDirectory, t
    <3>2. \A q \in DOMAIN tree' : tree'[q] = IF q \in Above(p) THEN "dir" ELSE tree[q]
      BY <2>2, <3>1
    <3>3. Matches(tree', rec)
      BY <1>6, <2>1, <2>2, <3>1, <3>2, AboveMatches
    <3>. QED BY <1>s, <3>1, <3>3
  <2>. QED BY <1>6, <2>5, <2>6, <2>7 DEF ZipEntry
<1>7. ASSUME NEW p \in Paths, ZipEntry(p) PROVE (skipped \/ through \/ Matches(tree, rec))'
  <2>1. (skipped => skipped') /\ (through => through')
    <3>1. CASE ZipFile(p)
      BY <3>1 DEF ZipFile
    <3>2. CASE ZipLink(p)
      <4>1. skipped' = skipped \/ skipped' = TRUE
        BY <3>2 DEF ZipLink
      <4>2. through' = (through \/ ~Straight(p))
        BY <3>2 DEF ZipLink
      <4>3. skipped => skipped'
        BY <4>1
      <4>. QED BY <4>2, <4>3
    <3>3. CASE ZipDirectory(p)
      BY <3>3 DEF ZipDirectory
    <3>. QED BY <1>7, <3>1, <3>2, <3>3 DEF ZipEntry
  <2>. QED BY <1>s, <1>6, <1>7, <2>1
<1>8. CASE ThreadReturns
  BY <1>1, <1>8 DEF ThreadReturns, files
<1>9. CASE Around
  BY <1>1, <1>9 DEF Around, files
<1>10. CASE UNCHANGED allVars
  BY <1>1, <1>10 DEF allVars, files
<1>. QED BY <1>4, <1>5, <1>7, <1>8, <1>9, <1>10 DEF ArchiveNext, ThreadStep

LEMMA ArchiveInvMatch == ArchiveInv => RecordsExact
<1> SUFFICES ASSUME Matches(tree, rec) PROVE RecordsExact
  BY DEF ArchiveInv, RecordsExact
<1> DEFINE Kept == {p \in DOMAIN tree : ~IsDir(p)}
           Under(d, p) == IF d = Top THEN p ELSE SubSeq(p, Len(d) + 1, Len(p))
           In(d) == {p \in DOMAIN tree : d = Top \/ d \in Above(p)}
<1>1. {p \in DOMAIN rec : rec[p].file} = Kept
  BY DEF Matches, FilesIn, IsDir
<1>2. ASSUME NEW p \in DOMAIN tree, NEW d \in Above(p)
      PROVE  d # Top /\ SubSeq(p, Len(d) + 1, Len(p))[1] = p[Len(d) + 1]
  <2>1. IsPath(p)
    BY DEF Matches
  <2>2. d # Top /\ Len(d) \in 1..(Len(p) - 1)
    BY <2>1, AboveLemma
  <2>3. p \in Seq(Word) /\ Len(p) \in Nat
    BY <2>1 DEF IsPath
  <2>. QED BY <2>2, <2>3, SubSeqProperties
<1>3. ASSUME NEW d \in {Top} \cup {p \in DOMAIN tree : IsDir(p)}
      PROVE  /\ {Under(d, p)[1] : p \in In(d) \cap Kept} \subseteq Names(rec, d)
             /\ Names(rec, d) \subseteq {Under(d, p)[1] : p \in In(d)}
  <2>1. ASSUME NEW p \in In(d) PROVE <<d, Under(d, p)[1]>> \in Steps(p)
    <3>1. IsPath(p) /\ p \in DOMAIN tree
      BY DEF Matches
    <3>2. CASE d = Top
      BY <3>1, <3>2, StepsLemma
    <3>3. CASE d # Top
      BY <1>2, <3>1, <3>3, StepsLemma
    <3>. QED BY <3>2, <3>3
  <2>2. ASSUME NEW p \in In(d) \cap Kept PROVE Under(d, p)[1] \in Names(rec, d)
    <3>1. p \in FilesIn(rec)
      BY DEF Matches, IsDir
    <3>. QED BY <2>1, <3>1 DEF Matches
  <2>3. ASSUME NEW n \in Names(rec, d) PROVE \E p \in In(d) : n = Under(d, p)[1]
    <3>1. d = Top \/ IsPath(d)
      BY <1>3 DEF Matches
    <3>2. PICK p \in DOMAIN tree : <<d, n>> \in Steps(p)
      BY <2>3, <3>1 DEF Matches
    <3>3. IsPath(p)
      BY DEF Matches
    <3>4. \/ d = Top /\ n = p[1]
          \/ d \in Above(p) /\ n = p[Len(d) + 1]
      BY <3>2, <3>3, StepsLemma
    <3>. QED BY <1>2, <3>4
  <2>. QED BY <2>2, <2>3
<1>. QED BY <1>1, <1>3 DEF RecordsExact

(* After a successful extraction the record tells what is on the disk, for any
   archive in which no link points upwards and no entry goes through a link: the
   files and links, and under each directory what leads to them. *)
THEOREM RecordTrue == ArchiveSpec => []RecordsExact
BY InitArchiveInv, NextArchiveInv, ArchiveInvMatch, PTL DEF ArchiveSpec
=============================================================================
