----------------------------- MODULE Resources -----------------------------
(***************************************************************************)
(* Counters kept beside the things they count: PluginArena (memory/        *)
(* arena.rs), ObjectPool (memory/pool.rs), PluginCapacityTracker           *)
(* (abi/src/security.rs), and DelayedInitializer (startup.rs).             *)
(*                                                                         *)
(* Every atomic operation and every critical section is a step.  All       *)
(* allocations have the size 1, and an address that was freed may be given *)
(* out again at once.  usize wraps modulo Word.                            *)
(***************************************************************************)
EXTENDS Integers, FiniteSets

CONSTANTS Threads, Addresses, None, Capacity, PoolSize, Word, MaxSteps

VARIABLES used, live, table, \* arena: bytes charged, addresses allocated, allocations_map
          mine,                \* the address a thread's alloc or dealloc is about
          reused,              \* history: addresses allocated again before an old dealloc had removed them
          idle, in_use, out, taken, \* pool: objects kept, counted, borrowed, taken away
          loaded, plugins,     \* tracker: the counter, plugins really loaded
          init, locked, value, initialized, returned, \* DelayedInitializer
          pc, steps,
          reset_live           \* history: reset was called with allocations alive or under way

arena == <<used, live, table, mine, reused, reset_live>>
pool  == <<idle, in_use, out, taken>>
tracker == <<loaded, plugins>>
delayed == <<init, locked, value, initialized, returned>>
vars == <<arena, pool, tracker, delayed, pc, steps>>

Init == /\ used = 0 /\ live = {} /\ table = {} /\ reset_live = FALSE
        /\ mine = [t \in Threads |-> None] /\ reused = {}
        /\ idle = 0 /\ in_use = 0 /\ out = 0 /\ taken = 0
        /\ loaded = 0 /\ plugins = 0
        /\ init = TRUE /\ locked = FALSE /\ value = FALSE /\ initialized = FALSE /\ returned = FALSE
        /\ pc = [t \in Threads |-> "idle"] /\ steps = 0

Begin(t, at) == pc[t] = "idle" /\ steps < MaxSteps /\ steps' = steps + 1 /\ pc' = [pc EXCEPT ![t] = at]
Go(t, from, to) == pc[t] = from /\ pc' = [pc EXCEPT ![t] = to] /\ UNCHANGED steps
At(l) == Cardinality({t \in Threads : pc[t] = l})

-----------------------------------------------------------------------------
Entering(a) == \E t \in Threads : mine[t] = a /\ pc[t] = "enter"
Freeing(a)  == \E t \in Threads : mine[t] = a /\ pc[t] \in {"lower", "remove"}

\* PluginArena::alloc: the check, the memory with its charge, the entry in the
\* map.  Nobody sees the address before it is charged.
alloc(t) == /\ used + 1 <= Capacity
            /\ Begin(t, "charge")
            /\ UNCHANGED <<arena, pool, tracker, delayed>>

Charge(t, a) == /\ a \notin live
                /\ Go(t, "charge", "enter")
                /\ used' = (used + 1) % Word /\ live' = live \cup {a}
                /\ mine' = [mine EXCEPT ![t] = a]
                /\ reused' = IF Freeing(a) THEN reused \cup {a} ELSE reused
                /\ UNCHANGED <<table, reset_live, pool, tracker, delayed>>

OutOfMemory(t) == Go(t, "charge", "idle") /\ UNCHANGED <<arena, pool, tracker, delayed>>

Enter(t) == /\ Go(t, "enter", "idle")
            /\ table' = table \cup {mine[t]} /\ mine' = [mine EXCEPT ![t] = None]
            /\ UNCHANGED <<used, live, reused, reset_live, pool, tracker, delayed>>

\* dealloc of an address whose allocation has returned: the memory goes first,
\* then the charge, then the entry of this address, whosever it is by then.
dealloc(t, a) == /\ a \in live /\ ~Entering(a)
                 /\ Begin(t, "lower")
                 /\ live' = live \ {a} /\ mine' = [mine EXCEPT ![t] = a]
                 /\ UNCHANGED <<used, table, reused, reset_live, pool, tracker, delayed>>

Lower(t) == /\ Go(t, "lower", "remove")
            /\ used' = (used - 1) % Word
            /\ UNCHANGED <<live, table, mine, reused, reset_live, pool, tracker, delayed>>

Remove(t) == /\ Go(t, "remove", "idle")
             /\ table' = table \ {mine[t]} /\ mine' = [mine EXCEPT ![t] = None]
             /\ UNCHANGED <<used, live, reused, reset_live, pool, tracker, delayed>>

Alive == live # {} \/ \E t \in Threads : mine[t] # None \/ pc[t] = "charge"

reset(t) == /\ Begin(t, "clear")
            /\ used' = 0
            /\ reset_live' = (reset_live \/ Alive)
            /\ UNCHANGED <<live, table, mine, reused, pool, tracker, delayed>>

ClearTable(t) == /\ Go(t, "clear", "idle")
                 /\ table' = {}
                 /\ reset_live' = (reset_live \/ Alive)
                 /\ UNCHANGED <<used, live, mine, reused, pool, tracker, delayed>>

-----------------------------------------------------------------------------
\* ObjectPool::get pops or makes an object, then counts it.
get(t) == /\ Begin(t, "count")
          /\ idle' = (IF idle > 0 THEN idle - 1 ELSE 0) /\ out' = out + 1
          /\ UNCHANGED <<in_use, taken, arena, tracker, delayed>>

Count(t) == /\ Go(t, "count", "idle")
            /\ in_use' = in_use + 1
            /\ UNCHANGED <<idle, out, taken, arena, tracker, delayed>>

ReturnAll(t) == /\ out > At("count") /\ Begin(t, "idle")
                /\ idle' = idle + 1
                /\ in_use' = in_use - 1 /\ out' = out - 1
                /\ UNCHANGED <<taken, arena, tracker, delayed>>

\* PooledObject::drop: return_object counts down under the lock.
return_object(t) == /\ out > At("count") /\ Begin(t, "idle")
                    /\ idle' = (IF idle < PoolSize THEN idle + 1 ELSE idle)
                    /\ in_use' = in_use - 1 /\ out' = out - 1
                    /\ UNCHANGED <<taken, arena, tracker, delayed>>

\* PooledObject::take: the object leaves, and stays counted.
take(t) == /\ out > At("count") /\ Begin(t, "idle")
           /\ out' = out - 1 /\ taken' = taken + 1
           /\ UNCHANGED <<idle, in_use, arena, tracker, delayed>>

prefill(t) == /\ Begin(t, "idle")
              /\ \E n \in 1..PoolSize + 1 : idle' = (IF idle + n < PoolSize THEN idle + n ELSE PoolSize)
              /\ UNCHANGED <<in_use, out, taken, arena, tracker, delayed>>

-----------------------------------------------------------------------------
\* PluginCapacityTracker: can_load_locally, and increment after the load.
can_load_locally(t) == /\ loaded < Capacity
                       /\ Begin(t, "increment")
                       /\ UNCHANGED <<arena, pool, tracker, delayed>>

increment(t) == /\ Go(t, "increment", "idle")
                /\ loaded' = (loaded + 1) % Word /\ plugins' = plugins + 1
                /\ UNCHANGED <<arena, pool, delayed>>

decrement(t) == /\ plugins > 0 /\ Begin(t, "idle")
                /\ loaded' = (loaded - 1) % Word /\ plugins' = plugins - 1
                /\ UNCHANGED <<arena, pool, delayed>>

-----------------------------------------------------------------------------
\* DelayedInitializer::get: a caller that finds it not initialized locks the
\* initializer and keeps it locked to the end of the if-let, the write of the
\* value included; who finds the initializer taken has waited for that.
Return(t, l) == Go(t, l, "idle") /\ returned' = (returned \/ ~value)

GetReady(t) == /\ initialized /\ Begin(t, "return")
               /\ UNCHANGED <<arena, pool, tracker, delayed>>

GetWait(t) == /\ ~initialized /\ Begin(t, "lock")
              /\ UNCHANGED <<arena, pool, tracker, delayed>>

LockBriefly(t) == /\ ~locked
                  /\ IF init THEN Go(t, "lock", "write") /\ init' = FALSE
                     ELSE Go(t, "lock", "return") /\ UNCHANGED init
                  /\ UNCHANGED <<locked, value, initialized, returned, arena, pool, tracker>>

Lock(t) == /\ ~locked
           /\ IF init THEN Go(t, "lock", "write") /\ init' = FALSE /\ locked' = TRUE
              ELSE Go(t, "lock", "return") /\ UNCHANGED <<init, locked>>
           /\ UNCHANGED <<value, initialized, returned, arena, pool, tracker>>

WriteValue(t) == /\ Go(t, "write", "mark") /\ value' = TRUE
                 /\ UNCHANGED <<init, locked, initialized, returned, arena, pool, tracker>>

Mark(t) == /\ Go(t, "mark", "return") /\ initialized' = TRUE /\ locked' = FALSE
           /\ UNCHANGED <<init, value, returned, arena, pool, tracker>>

ReturnValue(t) == /\ Return(t, "return")
                  /\ UNCHANGED <<init, locked, value, initialized, arena, pool, tracker>>

-----------------------------------------------------------------------------
Arena(t) == \/ alloc(t) \/ OutOfMemory(t) \/ Enter(t) \/ Lower(t) \/ Remove(t) \/ reset(t) \/ ClearTable(t)
            \/ \E a \in Addresses : Charge(t, a) \/ dealloc(t, a)
Pool(t) == get(t) \/ Count(t) \/ return_object(t) \/ take(t) \/ prefill(t)
Tracker(t) == can_load_locally(t) \/ increment(t) \/ decrement(t)
Delayed(t) == GetReady(t) \/ GetWait(t) \/ Lock(t) \/ WriteValue(t) \/ Mark(t) \/ ReturnValue(t)

Next == \E t \in Threads : Arena(t) \/ Pool(t) \/ Tracker(t) \/ Delayed(t)

Spec == Init /\ [][Next]_vars

-----------------------------------------------------------------------------
\* The map lists what is allocated, up to the operations under way; an address
\* that was allocated again under an old dealloc may have lost its entry to that,
\* but there is never an entry that no allocation and no dealloc accounts for.
TableTrue ==
  \A a \in Addresses :
    /\ a \in table => a \in live \/ Freeing(a)
    /\ a \notin reused => (a \in table <=> (a \in live /\ ~Entering(a)) \/ Freeing(a))

\* The counters tell the truth: the arena charges what is allocated and what is
\* about to be given back, and its map lists it, unless reset forgot live
\* allocations; neither the arena nor the capacity tracker goes further over
\* its limit than one allocation per overlapping caller; the pool keeps no more
\* than its size and counts what is borrowed or taken; and
\* DelayedInitializer::get never returns before the value is there.
CountersTrue ==
  /\ ~reset_live =>
       /\ used = Cardinality(live) + At("lower")
       /\ TableTrue
       /\ used <= Capacity + Cardinality(Threads) - 1
  /\ idle <= PoolSize /\ in_use + At("count") = out + taken
  /\ loaded = plugins /\ loaded <= Capacity + Cardinality(Threads) - 1
  /\ ~returned
=============================================================================
