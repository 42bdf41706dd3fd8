---------------------------- MODULE DelayRequest ----------------------------
(***************************************************************************)
(* The HTTP client all tasks share: DelayRequest throttles what the client *)
(* sends (at most num_request requests per period) and waits where a       *)
(* server has asked for a delay; send_request retries what was turned      *)
(* away; head_or_fallback_to_get tries GET where HEAD is refused.          *)
(*                                                                         *)
(* Instants are kept as the ticks still to go, so that nothing grows with  *)
(* time: 0 is "now", Past is "some time ago".                              *)
(***************************************************************************)
EXTENDS Integers

CONSTANTS Requests,      \* send_request (or head_or_fallback_to_get) calls
          Hosts,         \* servers
          Methods,       \* methods of the first request: HEAD may fall back to GET
          NumRequest,    \* num_request at the start
          Per,           \* the period at the start, in ticks
          PerCap,        \* a period this long is not extended any more (700 ms)
          Delays,        \* delays a server may ask for, and the ones for timeouts
          MaxRetryCount, \* MAX_RETRY_COUNT
          CounterCap,    \* bound of the delay that grows with each wait (20)
          NoRequest      \* nobody is inside call_inner

ASSUME LimitsAssumption ==
  /\ NumRequest \in Nat \ {0} /\ Per \in Nat \ {0} /\ PerCap \in Nat
  /\ MaxRetryCount \in Nat \ {0} /\ CounterCap \in Nat
  /\ Methods \subseteq {"HEAD", "GET"} /\ Delays \subseteq Nat /\ NoRequest \notin Requests

VARIABLES
  num,   \* Inner.num_request
  per,   \* Inner.per
  until, \* Inner.until
  rem,   \* rem of State::Ready, 0 for State::Limited
  guard, \* the request inside call_inner, which holds the Inner lock
  delay, \* hosts_to_delay: the deadline per host, Past when there is none
  req,   \* state of each request
  recent \* history: requests sent in each of the last Per ticks

clientVars == <<num, per, until, rem, guard, delay, req, recent>>

Past == -1
Later(t) == IF t = Past THEN Past ELSE t - 1
MaxOf(a, b) == IF a >= b THEN a ELSE b
MinOf(a, b) == IF a <= b THEN a ELSE b

(* A request is over: what it kept is gone. *)
End(f, r, how) == [f EXCEPT ![r] = [@ EXCEPT !.at = how, !.wake = Past, !.counter = 0, !.count = 1]]

Over == {"ok", "failed", "exhausted", "dropped"}
Places == {"calling", "checking", "sending", "sleeping", "in_flight"} \cup Over

(* 200 ms and 100 ms more for each wait of this request: a tick and its counter. *)
AdditionalDelay(counter) == 1 + MinOf(counter, CounterCap)

ClientInit ==
  /\ num = NumRequest /\ per = Per /\ until = Per /\ rem = NumRequest
  /\ guard = NoRequest
  /\ delay = [h \in Hosts |-> Past]
  /\ \E host \in [Requests -> Hosts], method \in [Requests -> Methods] :
       req = [r \in Requests |->
                [at |-> "calling", host |-> host[r], method |-> method[r],
                 wake |-> Past, counter |-> 0, count |-> 1]]
  /\ recent = [t \in 0..(Per - 1) |-> 0]

-----------------------------------------------------------------------------
(* DelayRequest::call_inner, under the lock of Inner *)

(* Mutant: a limited service is reset before its period is over. *)
ResetDueEarly == rem = 0

(* Inner::ready: the period of a limited service is over. *)
ResetDue == rem = 0 /\ until = Past

(* Inner::ready says no: the request sleeps until the period is over. *)
NotReady(r) ==
  /\ req[r].at = "calling" /\ guard = NoRequest
  /\ rem = 0 /\ until # Past
  /\ req' = [req EXCEPT ![r].at = "sleeping", ![r].wake = until]
  /\ UNCHANGED <<num, per, until, rem, guard, delay, recent>>

(* Mutant: the lock is given up between the two checks and the call. *)
ReadyUnguarded(r) ==
  /\ req[r].at = "calling"
  /\ rem > 0 \/ ResetDue
  /\ IF ResetDue THEN until' = per /\ rem' = num ELSE UNCHANGED <<until, rem>>
  /\ req' = [req EXCEPT ![r].at = "checking"]
  /\ UNCHANGED <<num, per, guard, delay, recent>>

(* Inner::ready says yes, after a reset where one is due. *)
Ready(r) ==
  /\ req[r].at = "calling" /\ guard = NoRequest
  /\ rem > 0 \/ ResetDue
  /\ IF ResetDue THEN until' = per /\ rem' = num ELSE UNCHANGED <<until, rem>>
  /\ guard' = r
  /\ req' = [req EXCEPT ![r].at = "checking"]
  /\ UNCHANGED <<num, per, delay, recent>>

Halved(n) == IF n \div 2 = 0 THEN n ELSE n \div 2

(* Inner::inc_rate_limit: half the requests in a period a fifth longer. *)
IncRateLimit ==
  /\ num' = Halved(num)
  /\ rem' = MinOf(rem, num')
  /\ IF per < PerCap THEN per' = per + 1 /\ until' = until + 1 ELSE UNCHANGED <<per, until>>

(* get_delay_until finds a deadline: slow down, and sleep a little longer than
   the server has asked for. *)
HostDelayed(r) ==
  /\ req[r].at = "checking"
  /\ delay[req[r].host] # Past
  /\ IncRateLimit
  /\ req' = [req EXCEPT ![r].at = "sleeping", ![r].counter = @ + 1,
                        ![r].wake = delay[req[r].host] + AdditionalDelay(req[r].counter)]
  /\ guard' = NoRequest
  /\ UNCHANGED <<delay, recent>>

(* There is none, or it has passed and is removed. *)
HostFree(r) ==
  /\ req[r].at = "checking"
  /\ delay[req[r].host] = Past
  /\ req' = [req EXCEPT ![r].at = "sending"]
  /\ UNCHANGED <<num, per, until, rem, guard, delay, recent>>

(* Inner::call: a period that is over is started afresh. *)
RenewalDue(u) == u <= 0

Call(r) ==
  /\ req[r].at = "sending"
  /\ rem > 0 \* otherwise: panic, "service not ready"
  /\ IF RenewalDue(until) THEN until' = per /\ rem' = num - 1
                          ELSE rem' = rem - 1 /\ UNCHANGED until
  /\ req' = [req EXCEPT ![r].at = "in_flight"]
  /\ recent' = [recent EXCEPT ![0] = @ + 1]
  /\ guard' = NoRequest
  /\ UNCHANGED <<num, per, delay>>

(* sleep_until, after which call_inner is tried again. *)
Wake(r) ==
  /\ req[r].at = "sleeping" /\ req[r].wake <= 0
  /\ req' = [req EXCEPT ![r].at = "calling", ![r].wake = Past]
  /\ UNCHANGED <<num, per, until, rem, guard, delay, recent>>

-----------------------------------------------------------------------------
(* do_send_request, send_request_inner and head_or_fallback_to_get *)

(* Mutant: the last delay asked for wins. *)
LastDeadline(old, new) == new

(* add_urls_to_delay keeps the later deadline. *)
LaterDeadline(old, new) == MaxOf(old, new)

OutOfRetries(count) == count >= MaxRetryCount

(* Mutant: the fallback repeats the request as it was. *)
FallBackUnchanged(f, r) == [f EXCEPT ![r].at = "calling", ![r].counter = 0, ![r].count = 1]

(* head_or_fallback_to_get asks for the URL with GET, with all its retries. *)
FallBack(f, r) ==
  [f EXCEPT ![r].at = "calling", ![r].method = "GET", ![r].counter = 0, ![r].count = 1]

(* A rate limit or a timeout: the host asked, and the one it redirected to,
   are left alone for a while and the request is sent again.  The last answer to
   a HEAD may be a refusal as well (a 403 that names a delay). *)
TurnedAway(r) ==
  /\ req[r].at = "in_flight"
  /\ \E d \in Delays, redirect \in Hosts :
       delay' = [h \in Hosts |-> IF h \in {req[r].host, redirect}
                                 THEN LaterDeadline(delay[h], d) ELSE delay[h]]
  /\ \/ /\ ~OutOfRetries(req[r].count)
        /\ req' = [req EXCEPT ![r].at = "calling", ![r].counter = 0, ![r].count = @ + 1]
     \/ /\ OutOfRetries(req[r].count)
        /\ \/ req' = End(req, r, "exhausted")
           \/ req[r].method = "HEAD" /\ req' = FallBack(req, r)
  /\ UNCHANGED <<num, per, until, rem, guard, recent>>

(* HEAD is refused (400, 401, 403, 404, 405, 410). *)
HeadRefused(r) ==
  /\ req[r].at = "in_flight" /\ req[r].method = "HEAD"
  /\ req' = FallBack(req, r)
  /\ UNCHANGED <<num, per, until, rem, guard, delay, recent>>

Answered(r) ==
  /\ req[r].at = "in_flight"
  /\ \E result \in {"ok", "failed"} : req' = End(req, r, result)
  /\ UNCHANGED <<num, per, until, rem, guard, delay, recent>>

(* The task is aborted at an await point. *)
RequestDropped(r) ==
  /\ req[r].at \in {"sleeping", "in_flight"}
  /\ req' = End(req, r, "dropped")
  /\ UNCHANGED <<num, per, until, rem, guard, delay, recent>>

Tick ==
  /\ until' = Later(until)
  /\ delay' = [h \in Hosts |-> Later(delay[h])]
  /\ req' = [r \in Requests |-> [req[r] EXCEPT !.wake = Later(@)]]
  /\ recent' = [t \in 0..(Per - 1) |-> IF t = 0 THEN 0 ELSE recent[t - 1]]
  /\ UNCHANGED <<num, per, rem, guard>>

Step(r) == \/ NotReady(r) \/ Ready(r) \/ HostDelayed(r) \/ HostFree(r) \/ Call(r)
           \/ Wake(r) \/ TurnedAway(r) \/ HeadRefused(r) \/ Answered(r)

ClientNext == Tick \/ \E r \in Requests : Step(r) \/ RequestDropped(r)

ClientSpec == ClientInit /\ [][ClientNext]_clientVars

(* Time passes; a request that can go on does, and a server answers in the end. *)
ClientFairSpec ==
  /\ ClientSpec
  /\ WF_clientVars(Tick)
  /\ \A r \in Requests : WF_clientVars(Step(r))

-----------------------------------------------------------------------------
(* Properties *)

Instant == Nat \cup {Past}

Request ==
  [at : Places, host : Hosts, method : {"HEAD", "GET"}, wake : Int, counter : Nat, count : Nat]

(* Every variable has a value of its kind; a limit never falls to zero, and no
   period or deadline is more than over (Inner, DelayRequest). *)
ClientTypeOK ==
  /\ num \in Nat \ {0} /\ rem \in Nat /\ per \in Nat \ {0} /\ until \in Instant
  /\ delay \in [Hosts -> Instant]
  /\ req \in [Requests -> Request]

(* The service is never called while it is limited: the panic in Inner::call
   cannot be reached, whatever other requests do between ready and call. *)
NeverUnready == \A r \in Requests : req[r].at = "sending" => rem > 0

(* How many requests have been sent in the last k ticks, if f[t] in the t-th last. *)
Sent(f) ==
  LET sent[k \in 0..Per] == IF k = 0 THEN 0 ELSE sent[k - 1] + f[k - 1]
  IN  sent

(* In any Per ticks at most two periods' worth of requests is sent. *)
SlidingBound == Sent(recent)[Per] <= 2 * NumRequest

(* A deadline a server has set is not moved forward by an answer of another
   request; only time brings it nearer. *)
DeadlinesKept == [][\A h \in Hosts : delay'[h] >= Later(delay[h])]_clientVars

(* Every request ends, however often it is delayed and turned away, also one
   that has used up its retries with HEAD and starts afresh with GET. *)
RequestsEnd == \A r \in Requests : <>(req[r].at \in Over)
=============================================================================
