---------------------------- MODULE PoolIsolation ----------------------------
(***************************************************************************)
(* The PriorityRouter of src/src/database/pool_isolation.ts: an OLTP and   *)
(* an OLAP pool, OLTP queries that spill over to the other pool when a     *)
(* connection does not arrive in time, and the adaptive probe that resizes *)
(* each pool.  The pools themselves are pg's: a FIFO of waiters, a         *)
(* connection opened while there are fewer than max, idle ones reused.     *)
(***************************************************************************)
EXTENDS Naturals, Sequences, FiniteSets, SequencesExt

CONSTANTS
  OltpQueries, OlapQueries,  \* query() calls, as classifyQuery sorts them
  Transactions,              \* transaction() calls
  initialMax,                \* oltpMaxConnections and olapMaxConnections
  minConnections, maxConnections, adjustmentStep

Tiers == {"oltp", "olap"}
Calls == OltpQueries \cup OlapQueries \cup Transactions

ASSUME PoolAssumption ==
  /\ IsFiniteSet(Calls)
  /\ initialMax \in [Tiers -> Nat \ {0}]
  /\ {minConnections, maxConnections, adjustmentStep} \subseteq Nat
  /\ 1 <= minConnections /\ minConnections <= maxConnections

VARIABLES
  pools,    \* by tier: [max, idle, connecting, waiting, out]
  call,     \* by call: "idle", waiting for or using a tier, "done"
  late,     \* calls that spilled over while their OLTP connection was pending
  adaptiveProbe,    \* by tier: the probe's last direction, and whether it has cooled down
  failures  \* connections that could not be opened (bounded by the guard)

poolVars == <<pools, call, late, adaptiveProbe, failures>>

PoolInit ==
  /\ pools = [t \in Tiers |-> [max |-> initialMax[t], idle |-> 0, connecting |-> {},
                               waiting |-> <<>>, out |-> {}]]
  /\ call = [c \in Calls |-> "idle"]
  /\ late = {}
  /\ adaptiveProbe = [t \in Tiers |-> [direction |-> 0, cooled |-> FALSE]]
  /\ failures = 0

PoolTypeOK ==
  /\ pools \in [Tiers -> [max : Nat, idle : Nat, connecting : SUBSET Calls,
                          waiting : BoundedSeq(Calls, Cardinality(Calls)),
                          out : SUBSET Calls]]
  /\ call \in [Calls -> {"idle", "wait oltp", "oltp", "wait olap", "olap", "done"}]
  /\ late \subseteq OltpQueries /\ failures \in 0..1
  /\ adaptiveProbe \in [Tiers -> [direction : {0 - 1, 0, 1}, cooled : BOOLEAN]]

-----------------------------------------------------------------------------
(* pg's pool, as the router uses it. *)

Total(p) == p.idle + Cardinality(p.connecting) + Cardinality(p.out)

Connect(p, c) ==
  IF p.idle > 0 THEN [p EXCEPT !.idle = @ - 1, !.out = @ \cup {c}]
  ELSE IF Total(p) < p.max THEN [p EXCEPT !.connecting = @ \cup {c}]
  ELSE [p EXCEPT !.waiting = Append(@, c)]

\* A released connection goes to the longest waiter, or becomes idle.
Release(p, c) ==
  IF p.waiting = <<>> THEN [p EXCEPT !.out = @ \ {c}, !.idle = @ + 1]
  ELSE [p EXCEPT !.out = (@ \ {c}) \cup {Head(p.waiting)}, !.waiting = Tail(@)]

\* A call that got its connection proceeds, unless it stopped waiting for it.
Proceed(ps) ==
  [c \in Calls |->
     IF call[c] = "wait oltp" /\ c \in ps["oltp"].out THEN "oltp"
     ELSE IF call[c] = "wait olap" /\ c \in ps["olap"].out THEN "olap"
     ELSE call[c]]

Opened(t, c) ==
  /\ c \in pools[t].connecting
  /\ pools' = [pools EXCEPT ![t].connecting = @ \ {c}, ![t].out = @ \cup {c}]
  /\ call' = Proceed(pools')
  /\ UNCHANGED <<late, adaptiveProbe, failures>>

\* The connection is refused: the call fails, and the next waiter gets a try.
OpenFails(t, c) ==
  /\ c \in pools[t].connecting /\ failures < 1 /\ failures' = failures + 1
  /\ LET p == [pools[t] EXCEPT !.connecting = @ \ {c}]
     IN  pools' = [pools EXCEPT ![t] =
           IF p.waiting = <<>> THEN p
           ELSE [p EXCEPT !.connecting = @ \cup {Head(p.waiting)}, !.waiting = Tail(@)]]
  /\ IF t = "oltp" /\ c \in late
       THEN late' = late \ {c} /\ UNCHANGED call
       ELSE call' = [call EXCEPT ![c] = "done"] /\ UNCHANGED late
  /\ UNCHANGED adaptiveProbe

IdleTimeout(t) ==
  /\ pools[t].idle > 0 /\ pools' = [pools EXCEPT ![t].idle = @ - 1]
  /\ UNCHANGED <<call, late, adaptiveProbe, failures>>

-----------------------------------------------------------------------------
(* The router. *)

start(t, c) ==
  /\ call[c] = "idle"
  /\ pools' = [pools EXCEPT ![t] = Connect(@, c)]
  /\ call' = [call EXCEPT ![c] = IF c \in pools'[t].out THEN t
                                 ELSE IF t = "oltp" THEN "wait oltp" ELSE "wait olap"]
  /\ UNCHANGED <<late, adaptiveProbe, failures>>

transaction(c) == c \in Transactions /\ start("oltp", c)
query(c) == start(IF c \in OltpQueries THEN "oltp" ELSE "olap", c) /\ c \notin Transactions

\* spilloverWaitMs have passed without a connection: the query goes to the
\* OLAP pool, and the connection it asked for is released when it arrives.
_execOltpWithSpillover(c) ==
  /\ c \in OltpQueries /\ call[c] = "wait oltp"
  /\ pools' = [pools EXCEPT !["olap"] = Connect(@, c)]
  /\ call' = [call EXCEPT ![c] = IF c \in pools'["olap"].out THEN "olap" ELSE "wait olap"]
  /\ late' = late \cup {c}
  /\ UNCHANGED <<adaptiveProbe, failures>>

\* The connection arrives although nobody waits for it any more.
lateRelease(c) ==
  /\ c \in late /\ c \in pools["oltp"].out
  /\ pools' = [pools EXCEPT !["oltp"] = Release(@, c)]
  /\ call' = Proceed(pools')
  /\ late' = late \ {c}
  /\ UNCHANGED <<adaptiveProbe, failures>>

\* The statement, or the transaction, ends: the connection is released.
_exec(t, c) ==
  /\ call[c] = t
  /\ pools' = [pools EXCEPT ![t] = Release(@, c)]
  /\ call' = [Proceed(pools') EXCEPT ![c] = "done"]
  /\ UNCHANGED <<late, adaptiveProbe, failures>>

-----------------------------------------------------------------------------
(* AdaptivePoolProbe: the controller's verdict is an input. *)

clamp(n) ==
  IF n > maxConnections THEN maxConnections
  ELSE IF n < minConnections THEN minConnections ELSE n

canAdjust(t, d) == adaptiveProbe[t].direction # d \/ adaptiveProbe[t].cooled

evaluate(t, d) ==
  LET m == pools[t].max
      next == IF d = 1 THEN clamp(m + adjustmentStep)
              ELSE clamp(IF m > adjustmentStep THEN m - adjustmentStep ELSE 0)
  IN  /\ canAdjust(t, d) /\ next # m
      /\ pools' = [pools EXCEPT ![t].max = next]
      /\ adaptiveProbe' = [adaptiveProbe EXCEPT ![t] = [direction |-> d, cooled |-> FALSE]]
      /\ UNCHANGED <<call, late, failures>>

CooldownPasses(t) ==
  /\ adaptiveProbe[t].direction # 0 /\ ~adaptiveProbe[t].cooled
  /\ adaptiveProbe' = [adaptiveProbe EXCEPT ![t].cooled = TRUE]
  /\ UNCHANGED <<pools, call, late, failures>>

PoolNext ==
  \/ \E c \in Calls :
       \/ transaction(c) \/ query(c) \/ _execOltpWithSpillover(c) \/ lateRelease(c)
       \/ \E t \in Tiers : _exec(t, c) \/ Opened(t, c) \/ OpenFails(t, c)
  \/ \E t \in Tiers :
       IdleTimeout(t) \/ CooldownPasses(t) \/ \E d \in {0 - 1, 1} : evaluate(t, d)

\* A query's statement has a timeout, the spill-over its timer, connections open or
\* fail, promises are resumed.  Nothing ends a transaction but its fn().
PoolFairness ==
  \A c \in Calls :
    /\ WF_poolVars(lateRelease(c)) /\ WF_poolVars(_execOltpWithSpillover(c))
    /\ \A t \in Tiers :
         /\ WF_poolVars(Opened(t, c) \/ OpenFails(t, c))
         /\ c \notin Transactions => WF_poolVars(_exec(t, c))

-----------------------------------------------------------------------------
(* Properties. *)

\* Whatever a connection is checked out for is under way: a call that has ended
\* or gone to the other pool keeps none, but for the one it waits to give back;
\* and a pool is never resized to nothing.
ConnectionsOwned ==
  /\ \A c \in Calls :
       /\ c \in pools["oltp"].out => call[c] = "oltp" \/ c \in late
       /\ c \in pools["olap"].out => call[c] = "olap"
  /\ \A t \in Tiers : pools[t].max >= 1

\* Every query ends, even when a transaction never gives its connection back: an OLTP
\* query spills over.  If every transaction's fn() settles, every call ends, and every
\* connection it asked for, late ones included, goes back to its pool.
CallsEnd ==
  LET over(c) ==
        call[c] = "done" /\ \A t \in Tiers : c \notin pools[t].out \cup Range(pools[t].waiting)
  IN  /\ \A c \in Calls \ Transactions : call[c] # "idle" ~> call[c] = "done"
      /\ \/ \E x \in Transactions : []<>(call[x] = "oltp")
         \/ \A c \in Calls : call[c] # "idle" ~> over(c)
=============================================================================
