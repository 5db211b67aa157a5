---------------------------- MODULE RateLimiter ----------------------------
(***************************************************************************)
(* src/security/rate_limiter.ts for the requests of one bucket (one tier,  *)
(* route and client): the token bucket in the process's memory, or in      *)
(* Redis, shared by the processes.  A request reads the clock before it    *)
(* reaches the bucket; the script runs atomically, but requests that wait  *)
(* for the connection or come from another process may run it in another   *)
(* order than they read the clock.                                         *)
(*                                                                         *)
(* Tokens are counted in units of which one is refilled per tick, a token  *)
(* is Token of them, and a second is Second ticks.                         *)
(***************************************************************************)
EXTENDS Integers, FiniteSets

CONSTANTS
  Requests,
  Token, Second,
  burstCapacity,      \* units: the refill of BUCKET_WINDOW_SECONDS
  entryTtl,           \* ticks of rest after which Redis drops the bucket
  MaxNow              \* bound

\* The bucket is full again long before Redis drops it (10 s against an hour).
ASSUME RateAssumption ==
  /\ {Token, Second, burstCapacity, entryTtl} \subseteq Nat \ {0} /\ MaxNow \in Nat
  /\ entryTtl >= burstCapacity /\ burstCapacity >= Token /\ IsFiniteSet(Requests)

VARIABLES
  store,      \* "memory" or "redis"
  clock,
  request,    \* each: pc, its reading of the clock, and the Retry-After it was given
  bucket,     \* tokens and last refill; nothing before the first request
  touched,    \* tick of the last EXPIRE
  rewound     \* history: ticks by which the last refill was moved back

rateVars == <<store, clock, request, bucket, touched, rewound>>

NoBucket == [tokens |-> burstCapacity, last |-> -1]

RateTypeOK ==
  /\ store \in {"memory", "redis"} /\ {clock, touched} \subseteq 0..MaxNow
  /\ request \in [Requests -> [pc : {"idle", "waiting", "admitted", "refused", "error"},
                               now : 0..MaxNow, retry : Nat]]
  /\ bucket \in [tokens : 0..burstCapacity, last : -1..MaxNow]
  /\ rewound \in Nat

RateInit ==
  /\ store \in {"memory", "redis"}
  /\ clock = 0 /\ touched = 0 /\ rewound = 0
  /\ request = [r \in Requests |-> [pc |-> "idle", now |-> 0, retry |-> 0]]
  /\ bucket = NoBucket

-----------------------------------------------------------------------------
ceilDiv(a, b) == (a + b - 1) \div b
AtLeastOne(n) == IF n < 1 THEN 1 ELSE n

\* The memory's Retry-After is in seconds; the script divides by the refill of a
\* tick (a millisecond), and the middleware sends the quotient as seconds.
retryAfter(tokens) ==
  IF store = "memory" THEN AtLeastOne(ceilDiv(Token - tokens, Second))
  ELSE AtLeastOne(Token - tokens)

elapsed(now) == IF bucket.last = -1 \/ now < bucket.last THEN 0 ELSE now - bucket.last
refilled(now) ==
  IF bucket.tokens + elapsed(now) > burstCapacity THEN burstCapacity
  ELSE bucket.tokens + elapsed(now)

\* Fault: the refill is credited, the time of the refill is not stored.
taken_KeepsLast(now) ==
  [tokens |-> IF refilled(now) >= Token THEN refilled(now) - Token ELSE refilled(now),
   last |-> IF bucket.last = -1 THEN now ELSE bucket.last]

\* What the bucket holds after a request read the clock at now: the last refill
\* becomes that time, also when it is the earlier one.
taken(now) ==
  [tokens |-> IF refilled(now) >= Token THEN refilled(now) - Token ELSE refilled(now),
   last |-> now]

consume(now) ==
  /\ bucket' = taken(now) /\ touched' = clock
  /\ rewound' = IF now < bucket.last THEN rewound + (bucket.last - now) ELSE rewound

\* next(), or 429 with a Retry-After.
Respond(r, now) ==
  LET allowed == refilled(now) >= Token IN
  request' = [request EXCEPT ![r] =
    [pc |-> IF allowed THEN "admitted" ELSE "refused", now |-> now,
     retry |-> IF allowed THEN 0 ELSE retryAfter(refilled(now))]]

\* The middleware reads the clock; the memory is asked in the same step, Redis
\* after an await.
limit(r) ==
  /\ request[r].pc = "idle"
  /\ IF store = "memory" THEN consume(clock) /\ Respond(r, clock)
     ELSE /\ request' = [request EXCEPT ![r] = [pc |-> "waiting", now |-> clock, retry |-> 0]]
          /\ UNCHANGED <<bucket, touched, rewound>>
  /\ UNCHANGED <<store, clock>>

\* The script runs and answers; or the request ends in an error, whether the script
\* ran or not.
Eval(r) ==
  /\ request[r].pc = "waiting"
  /\ \/ consume(request[r].now) /\ Respond(r, request[r].now)
     \/ /\ request' = [request EXCEPT ![r].pc = "error"]
        /\ consume(request[r].now) \/ UNCHANGED <<bucket, touched, rewound>>
  /\ UNCHANGED <<store, clock>>

\* Redis drops a bucket at rest; no request waits for as long as that.
DropBucket ==
  /\ store = "redis" /\ bucket # NoBucket /\ clock - touched >= entryTtl
  /\ \A r \in Requests : request[r].pc # "waiting"
  /\ bucket' = NoBucket
  /\ UNCHANGED <<store, clock, request, touched, rewound>>

RateTick ==
  /\ clock < MaxNow
  /\ clock' = clock + 1
  /\ UNCHANGED <<store, request, bucket, touched, rewound>>

RateNext == (\E r \in Requests : limit(r) \/ Eval(r)) \/ DropBucket \/ RateTick

-----------------------------------------------------------------------------
Admitted == {r \in Requests : request[r].pc = "admitted"}
AdmittedIn(a, b) == {r \in Admitted : request[r].now \in a..b}

\* Whatever the order in which requests reach the bucket, the requests admitted in
\* any span of time fit into a full bucket and the refill of the span, and what
\* requests that overtook each other had credited twice.  (The spans between two
\* admitted requests are the tightest.)
AdmissionBounded ==
  \A p, q \in Admitted :
    LET a == request[p].now
        b == request[q].now IN
    a <= b => Cardinality(AdmittedIn(a, b)) * Token <= burstCapacity + (b - a) + rewound

\* Waiting as long as Retry-After says is enough, from either store, for a request
\* that nobody overtakes.
RetryIsEnough ==
  \A r \in Requests :
    request[r].pc = "refused" /\ rewound = 0 /\ bucket.last = request[r].now =>
      bucket.tokens + request[r].retry * Second >= Token
=============================================================================
