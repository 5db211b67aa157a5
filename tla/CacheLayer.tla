----------------------------- MODULE CacheLayer -----------------------------
(***************************************************************************)
(* src/cache/cache_layer.ts: concurrent get(), set(), delete() and         *)
(* getOrSet() calls over Redis, with the process's own memory behind it.   *)
(* One flag, redisUnavailable, says which of the two is read and written;  *)
(* any failing call, and the client's error event, raise it, and a         *)
(* connection that comes up late lowers it.                                *)
(*                                                                         *)
(* A value is its stamp: the number of the write of its key that made it.  *)
(* Metrics, namespaces and JSON are left out; redisUrl is configured.      *)
(***************************************************************************)
EXTENDS Integers, Sequences, SequencesExt, FiniteSets

CONSTANTS
  CacheCalls,
  CacheKeys,
  maxEntries     \* of the memory

ASSUME CacheAssumption ==
  maxEntries \in Nat \ {0} /\ IsFiniteSet(CacheCalls) /\ CacheKeys # {}

VARIABLES
  memory,            \* entries in the order of the Map: key, stamp, expired
  redis,             \* stamp of each key, 0 when there is none
  redisClient,       \* a connected client is kept
  redisUnavailable,
  call,              \* each call: op, key, stamp and pc
  stamps,            \* writes of each key that have begun
  settled,           \* history: newest write of each key that has returned
  raced,             \* history: keys two writes of which overlapped
  late               \* history: a connection lowered the flag after it was raised

cacheVars == <<memory, redis, redisClient, redisUnavailable, call, stamps, settled, raced, late>>
cacheHistory == <<settled, raced, late>>

Ops == {"get", "set", "delete", "getOrSet"}
CacheOpen(c) == call[c].pc \in {"connect", "command", "load"}

CacheTypeOK ==
  /\ \A i \in 1..Len(memory) : memory[i] \in
       [key : CacheKeys, stamp : 1..Cardinality(CacheCalls), expired : BOOLEAN]
  /\ Len(memory) <= maxEntries
  /\ redis \in [CacheKeys -> 0..Cardinality(CacheCalls)]
  /\ {redisClient, redisUnavailable, late} \subseteq BOOLEAN
  /\ call \in [CacheCalls -> [op : Ops, key : CacheKeys, stamp : 0..Cardinality(CacheCalls),
                              pc : {"idle", "connect", "command", "load", "done", "threw"}]]
  /\ {stamps, settled} \subseteq [CacheKeys -> 0..Cardinality(CacheCalls)]
  /\ raced \subseteq CacheKeys

CacheInit ==
  /\ memory = <<>> /\ redis = [k \in CacheKeys |-> 0]
  /\ redisClient = FALSE /\ redisUnavailable = FALSE
  /\ call = [c \in CacheCalls |->
       [op |-> "get", key |-> CHOOSE k \in CacheKeys : TRUE, stamp |-> 0, pc |-> "idle"]]
  /\ stamps = [k \in CacheKeys |-> 0] /\ settled = [k \in CacheKeys |-> 0]
  /\ raced = {} /\ late = FALSE

-----------------------------------------------------------------------------
Entry(k) == {i \in 1..Len(memory) : memory[i].key = k}

memoryDelete(k) ==
  IF Entry(k) = {} THEN memory ELSE RemoveAt(memory, CHOOSE i \in Entry(k) : TRUE)

\* The live entry of a key, as a set of at most one stamp; an expired one goes.
memoryGet(k) == {memory[i].stamp : i \in {j \in Entry(k) : ~memory[j].expired}}
afterMemoryGet(k) == IF memoryGet(k) = {} THEN memoryDelete(k) ELSE memory

\* The oldest entry makes room, be it of the same key or not; a key that is still
\* there keeps its place.
memorySet(k, s) ==
  LET kept == IF Len(memory) >= maxEntries THEN Tail(memory) ELSE memory
      new == [key |-> k, stamp |-> s, expired |-> FALSE]
  IN  IF \E i \in 1..Len(kept) : kept[i].key = k
      THEN [i \in 1..Len(kept) |-> IF kept[i].key = k THEN new ELSE kept[i]]
      ELSE Append(kept, new)

\* A write takes its stamp when it begins (getOrSet: when it calls the loader).
Stamp(c, k) ==
  /\ stamps' = [stamps EXCEPT ![k] = @ + 1]
  /\ raced' = IF \E d \in CacheCalls \ {c} : CacheOpen(d) /\ call[d].key = k /\ call[d].stamp > 0
              THEN raced \cup {k} ELSE raced

Settle(r) == settled' = [settled EXCEPT ![r.key] = IF r.stamp > @ THEN r.stamp ELSE @]

\* Call c is at label, with the fields of r.
Becomes(c, r, label) == call' = [call EXCEPT ![c] = [r EXCEPT !.pc = label]]

\* What a get or the first half of getOrSet does with its answer: a miss of
\* getOrSet calls the loader and goes on as a set.
Answer(c, r, found) ==
  IF r.op = "getOrSet" /\ ~found
  THEN /\ Becomes(c, [r EXCEPT !.op = "set", !.stamp = stamps[r.key] + 1], "load")
       /\ Stamp(c, r.key)
  ELSE Becomes(c, r, "done") /\ UNCHANGED <<stamps, raced>>

FromMemory(c, r) ==
  memory' = afterMemoryGet(r.key) /\ Answer(c, r, memoryGet(r.key) # {})

\* getRedisClient(): each call that finds no client connects for itself.
ToRedis(c, r) == Becomes(c, r, IF redisClient THEN "command" ELSE "connect")

Fresh(op, k) == [op |-> op, key |-> k, pc |-> "idle",
                 stamp |-> IF op \in {"set", "delete"} THEN stamps[k] + 1 ELSE 0]

cacheGet(c, k) ==
  /\ call[c].pc = "idle"
  /\ \E op \in {"get", "getOrSet"} :
       IF ~redisUnavailable
       THEN ToRedis(c, Fresh(op, k)) /\ UNCHANGED <<memory, stamps, raced>>
       ELSE FromMemory(c, Fresh(op, k))
  /\ UNCHANGED <<redis, redisClient, redisUnavailable, settled, late>>

Write(c, r) ==
  /\ IF ~redisUnavailable
     THEN ToRedis(c, r) /\ UNCHANGED <<memory, settled>>
     ELSE memory' = memorySet(r.key, r.stamp) /\ Becomes(c, r, "done") /\ Settle(r)
  /\ UNCHANGED <<redis, redisClient, redisUnavailable, late>>

cacheSet(c, k) ==
  /\ call[c].pc = "idle"
  /\ Stamp(c, k) /\ Write(c, Fresh("set", k))

\* The loader of getOrSet answers, or throws.
getOrSet(c) ==
  /\ call[c].pc = "load"
  /\ \/ Write(c, call[c])
     \/ Becomes(c, call[c], "threw") /\ UNCHANGED <<memory, redis, redisClient, redisUnavailable, settled, late>>
  /\ UNCHANGED <<stamps, raced>>

\* Fault: the memory is left alone.
cacheDelete_RedisOnly(c, k) ==
  /\ call[c].pc = "idle"
  /\ Stamp(c, k)
  /\ LET r == Fresh("delete", k) IN
     IF ~redisUnavailable THEN ToRedis(c, r) /\ UNCHANGED settled
     ELSE Becomes(c, r, "done") /\ Settle(r)
  /\ UNCHANGED <<memory, redis, redisClient, redisUnavailable, late>>

cacheDelete(c, k) ==
  /\ call[c].pc = "idle"
  /\ Stamp(c, k)
  /\ memory' = memoryDelete(k)
  /\ LET r == Fresh("delete", k) IN
     IF ~redisUnavailable THEN ToRedis(c, r) /\ UNCHANGED settled
     ELSE Becomes(c, r, "done") /\ Settle(r)
  /\ UNCHANGED <<redis, redisClient, redisUnavailable, late>>

\* The connection is up: it is kept, and the flag is lowered whatever raised it.
getRedisClient(c) ==
  /\ call[c].pc = "connect" /\ Becomes(c, call[c], "command")
  /\ redisClient' = TRUE /\ redisUnavailable' = FALSE
  /\ late' = (late \/ redisUnavailable)
  /\ UNCHANGED <<memory, redis, stamps, settled, raced>>

\* The catch clauses: delete() swallows the error; get() and set() fall back to the
\* memory, unless somebody else raised the flag meanwhile: then they throw.
Catch(c) ==
  /\ redisUnavailable' = TRUE
  /\ CASE call[c].op = "delete" ->
            Becomes(c, call[c], "done") /\ Settle(call[c]) /\ UNCHANGED <<memory, stamps, raced>>
       [] call[c].op # "delete" /\ redisUnavailable ->
            Becomes(c, call[c], "threw") /\ UNCHANGED <<memory, stamps, settled, raced>>
       [] call[c].op = "set" /\ ~redisUnavailable ->
            /\ memory' = memorySet(call[c].key, call[c].stamp)
            /\ Becomes(c, call[c], "done") /\ Settle(call[c]) /\ UNCHANGED <<stamps, raced>>
       [] OTHER -> FromMemory(c, call[c]) /\ UNCHANGED settled

ConnectFails(c) ==
  /\ call[c].pc = "connect" /\ Catch(c)
  /\ UNCHANGED <<redis, redisClient, late>>

\* What the command does in Redis.
Apply(c) ==
  redis' = CASE call[c].op = "set" -> [redis EXCEPT ![call[c].key] = call[c].stamp]
             [] call[c].op = "delete" -> [redis EXCEPT ![call[c].key] = 0]
             [] OTHER -> redis

Command(c) ==
  /\ call[c].pc = "command" /\ Apply(c)
  /\ IF call[c].op \in {"set", "delete"}
     THEN Becomes(c, call[c], "done") /\ Settle(call[c]) /\ UNCHANGED <<stamps, raced>>
     ELSE Answer(c, call[c], redis[call[c].key] # 0) /\ UNCHANGED settled
  /\ UNCHANGED <<memory, redisClient, redisUnavailable, late>>

\* The command is rejected; Redis may have run it.
CommandFails(c) ==
  /\ call[c].pc = "command" /\ Catch(c)
  /\ Apply(c) \/ UNCHANGED redis
  /\ UNCHANGED <<redisClient, late>>

\* The client reports an error; it stays.
ErrorEvent ==
  /\ ~redisUnavailable
  /\ redisClient \/ \E c \in CacheCalls : call[c].pc = "connect"
  /\ redisUnavailable' = TRUE
  /\ UNCHANGED <<memory, redis, redisClient, call, stamps, cacheHistory>>

\* A time to live ends.
EntryExpires(k) ==
  /\ \/ /\ redis[k] # 0
        /\ redis' = [redis EXCEPT ![k] = 0] /\ UNCHANGED memory
     \/ /\ memoryGet(k) # {}
        /\ memory' = [i \in 1..Len(memory) |->
                        IF memory[i].key = k THEN [memory[i] EXCEPT !.expired = TRUE] ELSE memory[i]]
        /\ UNCHANGED redis
  /\ UNCHANGED <<redisClient, redisUnavailable, call, stamps, cacheHistory>>

CacheNext ==
  \/ \E c \in CacheCalls :
       \/ \E k \in CacheKeys : cacheGet(c, k) \/ cacheSet(c, k) \/ cacheDelete(c, k)
       \/ getOrSet(c)
       \/ getRedisClient(c) \/ ConnectFails(c) \/ Command(c) \/ CommandFails(c)
  \/ \E k \in CacheKeys : EntryExpires(k)
  \/ ErrorEvent

-----------------------------------------------------------------------------
\* What a get() that begins now would find.
Visible(k) == IF redisUnavailable THEN memoryGet(k) ELSE {redis[k]} \ {0}

\* Through every failure and change of backend, a get() finds no value older than
\* the newest set() or delete() of its key that has returned, unless two writes of
\* the key overlapped, or a late connection brought Redis back after calls had gone
\* to the memory.
NoStaleValue ==
  \A k \in CacheKeys \ raced : ~late => \A s \in Visible(k) : s >= settled[k]
=============================================================================
