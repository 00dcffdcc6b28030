------------------------------- MODULE Events -------------------------------
(***************************************************************************)
(* The event system of plugin_manager/events: publication through the      *)
(* filters, the storage and the router, and RequestResponseManager.  Every *)
(* lock is its own; a publication releases one before it takes the next.   *)
(*                                                                         *)
(* Subscribers are those of the router: EventSystem::subscribe fills a map *)
(* that route_event does not look at.  The router of an EventSystem has    *)
(* RoutingConfig::default, in which every flag is FALSE, and routes        *)
(* nothing; one built with with_config is called by route_event directly.  *)
(*                                                                         *)
(* Event types and patterns are tuples of parts; Star is "*", Starred are  *)
(* the parts with a "*" in them, Regexes those that begin with "regex:".   *)
(* Filters are conditions on the event's type.                             *)
(***************************************************************************)
EXTENDS Integers, Sequences, FiniteSets

CONSTANTS Publishers, Subscribers, EventTypes,
          TypesOf,  \* event_types of each subscriber, a sequence of patterns
          Accepts,  \* the event types that the filter of each subscriber lets through
          Star, Starred, Regexes, Filters,
          Requests, \* calls of send_request
          Timeout, MaxPublished, MaxDead, MaxCached, MaxNow

VARIABLES flags,    \* the RoutingConfig, and enable_persistence
          entries,  \* of each subscriber, the event_types the router lists
          adding,   \* the event_type add_subscriber is at, 0 when it is not running
          removed,  \* history: removed, or not added yet, with no addition under way
          filters, published,
          stored, cache, dead, \* EventStorage
          failures, \* history: failed callbacks, counted to MaxDead + 1
          pub,      \* what each publisher is doing
          pending,  \* request -> time of its entry, -1 without one
          request, answered, now

router  == <<flags, entries, adding, removed>>
storage == <<stored, cache, dead, failures>>
calls   == <<pending, request, answered, now>>
vars    == <<router, filters, published, storage, pub, calls>>

Idle == [at |-> "idle"]
Types(s) == DOMAIN TypesOf[s]
IsWildcard(p) == p[1] \notin Regexes /\ \E i \in DOMAIN p : p[i] \in Starred

\* EventSystem::new makes its router with EventRouter::new; only an EventSystem
\* filters and stores.
OfSystem == ~flags.pattern /\ ~flags.wildcard /\ ~flags.dead_letters

Init == /\ flags \in [pattern : BOOLEAN, wildcard : BOOLEAN, dead_letters : BOOLEAN, persist : BOOLEAN]
        /\ flags.persist => OfSystem
        /\ entries = [s \in Subscribers |-> {}]
        /\ adding = [s \in Subscribers |-> 0] /\ removed = Subscribers
        /\ filters = {} /\ published = 0
        /\ stored = {} /\ cache = [e \in EventTypes |-> <<>>] /\ dead = 0 /\ failures = 0
        /\ pub = [t \in Publishers |-> Idle]
        /\ pending = [r \in Requests |-> -1]
        /\ request = [r \in Requests |-> "new"] /\ answered = [r \in Requests |-> 0]
        /\ now = 0

-----------------------------------------------------------------------------
(* The router.                                                             *)

\* One event_type at a time, each under the lock of its table.
add_subscriber(s) ==
  /\ adding[s] = 0 /\ entries[s] = {}
  /\ adding' = [adding EXCEPT ![s] = 1]
  /\ removed' = removed \ {s}
  /\ pub' = [t \in Publishers |->
               IF pub[t] = Idle THEN Idle ELSE [pub[t] EXCEPT !.gone = @ \ {s}]]
  /\ UNCHANGED <<flags, entries, filters, published, storage, calls>>

AddType(s) ==
  /\ adding[s] # 0
  /\ entries' = [entries EXCEPT ![s] = @ \cup {adding[s]}]
  /\ adding' = [adding EXCEPT ![s] = (@ + 1) % (Len(TypesOf[s]) + 1)]
  /\ UNCHANGED <<flags, removed, filters, published, storage, pub, calls>>

RemoveExactOnly(s) ==
  /\ entries' = [entries EXCEPT ![s] = {i \in @ : IsWildcard(TypesOf[s][i])}]
  /\ pub' = [t \in Publishers |->
               IF pub[t] = Idle THEN Idle ELSE [pub[t] EXCEPT !.must = @ \ {s}]]
  /\ removed' = (IF adding[s] = 0 THEN removed \cup {s} ELSE removed)
  /\ UNCHANGED <<flags, adding, filters, published, storage, calls>>

\* Both tables together.  An add_subscriber under way goes on.
remove_subscriber(s) ==
  /\ entries' = [entries EXCEPT ![s] = {}]
  /\ pub' = [t \in Publishers |->
               IF pub[t] = Idle THEN Idle ELSE [pub[t] EXCEPT !.must = @ \ {s}]]
  /\ removed' = (IF adding[s] = 0 THEN removed \cup {s} ELSE removed)
  /\ UNCHANGED <<flags, adding, filters, published, storage, calls>>

Matches(p, e) == Len(p) = Len(e) /\ \A i \in DOMAIN p : p[i] = Star \/ p[i] = e[i]

\* Times s is pushed for e, when its filter lets e through and the table is
\* looked at: once if the text of a pattern in patterns, a regular expression
\* too, is e ...
Exact(s, e) ==
  IF flags.pattern /\ e \in Accepts[s]
  THEN Cardinality({i \in entries[s] : ~IsWildcard(TypesOf[s][i]) /\ TypesOf[s][i] = e}) ELSE 0

\* ... and for each of its entries in wildcards once per matching pattern of
\* event_types, whichever of them made the entry.
Wildcards(s, e) ==
  IF flags.wildcard /\ e \in Accepts[s]
  THEN Cardinality({i \in entries[s] : IsWildcard(TypesOf[s][i])})
       * Cardinality({i \in Types(s) : IsWildcard(TypesOf[s][i]) /\ Matches(TypesOf[s][i], e)})
  ELSE 0

-----------------------------------------------------------------------------
(* EventSystem::publish.                                                   *)

add_filter(f) == /\ OfSystem /\ filters' = filters \cup {f}
                 /\ UNCHANGED <<router, published, storage, pub, calls>>
remove_filter(f) == /\ f \in filters /\ filters' = filters \ {f}
                    /\ UNCHANGED <<router, published, storage, pub, calls>>

\* must and gone are history: who is, and who is not, registered all the time
\* since.
Start(t, e, step) ==
  /\ pub[t] = Idle /\ published < MaxPublished
  /\ published' = published + 1
  /\ pub' = [pub EXCEPT ![t] = [at |-> step, type |-> e, id |-> published + 1,
                                matched |-> [s \in Subscribers |-> 0], due |-> <<>>,
                                must |-> {s \in Subscribers : entries[s] = Types(s)},
                                gone |-> removed]]
  /\ UNCHANGED <<router, filters, storage, calls>>

\* update_statistics.
publish(t, e) == OfSystem /\ Start(t, e, "filter")

\* A call of the router itself.
route_event(t, e) == Start(t, e, "pattern")

\* apply_filters: every filter's condition holds, whatever its action.
apply_filters(t) ==
  /\ pub[t].at = "filter"
  /\ pub' = [pub EXCEPT ![t] = IF \E f \in filters : f # @.type THEN Idle
                               ELSE [@ EXCEPT !.at = IF flags.persist THEN "store" ELSE "pattern"]]
  /\ UNCHANGED <<router, filters, published, storage, calls>>

\* store_event: insert, drop what is older than the retention period (nothing,
\* or everything before this publication), append to the type's cache and keep
\* its first MaxCached.
store_event(t) ==
  /\ pub[t].at = "store"
  /\ stored' \in {stored \cup {pub[t].id}, {i \in stored : i > pub[t].id} \cup {pub[t].id}}
  /\ cache' = [cache EXCEPT ![pub[t].type] =
                 IF Len(@) < MaxCached THEN Append(@, pub[t].id) ELSE @]
  /\ pub' = [pub EXCEPT ![t].at = "pattern"]
  /\ UNCHANGED <<router, filters, published, dead, failures, calls>>

route_by_pattern(t) ==
  /\ pub[t].at = "pattern"
  /\ pub' = [pub EXCEPT ![t].matched = [s \in Subscribers |-> Exact(s, pub[t].type)],
                        ![t].at = "wildcard"]
  /\ UNCHANGED <<router, filters, published, storage, calls>>

route_by_wildcard(t) ==
  /\ pub[t].at = "wildcard"
  /\ LET m == [s \in Subscribers |-> pub[t].matched[s] + Wildcards(s, pub[t].type)]
     IN  pub' = [pub EXCEPT ![t].matched = m, ![t].due = m, ![t].at = "deliver"]
  /\ UNCHANGED <<router, filters, published, storage, calls>>

\* deliver_to_subscribers: the callbacks one after the other; a failed one
\* leaves a dead letter if those are kept, of which the first MaxDead stay.
Deliver(t, s) ==
  /\ pub[t].at = "deliver" /\ pub[t].due[s] > 0
  /\ pub' = [pub EXCEPT ![t].due[s] = @ - 1]
  /\ \E ok \in BOOLEAN : /\ failures' = (IF ok \/ failures > MaxDead THEN failures ELSE failures + 1)
                         /\ dead' = (IF ok \/ ~flags.dead_letters \/ dead = MaxDead THEN dead ELSE dead + 1)
  /\ UNCHANGED <<router, filters, published, stored, cache, calls>>

Published(t) ==
  /\ pub[t].at = "deliver" /\ \A s \in Subscribers : pub[t].due[s] = 0
  /\ pub' = [pub EXCEPT ![t] = Idle]
  /\ UNCHANGED <<router, filters, published, storage, calls>>

clear_dead_letters == /\ dead' = 0 /\ failures' = 0
                      /\ UNCHANGED <<router, filters, published, stored, cache, pub, calls>>

-----------------------------------------------------------------------------
(* RequestResponseManager.                                                 *)

events == <<router, filters, published, storage, pub>>

\* send_request enters the sender before it publishes.
send_request(r) == /\ request[r] = "new"
                   /\ pending' = [pending EXCEPT ![r] = now]
                   /\ request' = [request EXCEPT ![r] = "publish"]
                   /\ UNCHANGED <<events, answered, now>>

\* A publication that fails ends the call and leaves the entry.
PublishRequest(r) == /\ request[r] = "publish"
                     /\ \E ok \in BOOLEAN :
                          request' = [request EXCEPT ![r] = IF ok THEN "wait" ELSE "failed"]
                     /\ UNCHANGED <<events, pending, answered, now>>

\* A response event with this correlation id, first or repeated: whoever takes
\* the sender out of the map uses it.
handle_response(r) == /\ request[r] # "new" /\ pending[r] >= 0
                      /\ pending' = [pending EXCEPT ![r] = -1]
                      /\ answered' = [answered EXCEPT ![r] = @ + 1]
                      /\ UNCHANGED <<events, request, now>>

\* select!: the answer, the sender dropped by cleanup_expired, or the timeout,
\* which leaves the entry.
Receive(r) == /\ request[r] = "wait" /\ pending[r] < 0
              /\ request' = [request EXCEPT ![r] = IF answered[r] > 0 THEN "success" ELSE "canceled"]
              /\ UNCHANGED <<events, pending, answered, now>>

TimeOut(r) == /\ request[r] = "wait" /\ now >= Timeout
              /\ request' = [request EXCEPT ![r] = "timeout"]
              /\ UNCHANGED <<events, pending, answered, now>>

cleanup_expired == /\ \E r \in Requests : pending[r] >= 0
                   /\ pending' = [r \in Requests |->
                        IF pending[r] >= 0 /\ now - pending[r] > Timeout THEN -1 ELSE pending[r]]
                   /\ UNCHANGED <<events, request, answered, now>>

Tick == now < MaxNow /\ now' = now + 1 /\ UNCHANGED <<events, pending, request, answered>>

-----------------------------------------------------------------------------
Publication ==
  \/ \E s \in Subscribers : add_subscriber(s) \/ AddType(s) \/ remove_subscriber(s)
  \/ \E f \in Filters : add_filter(f) \/ remove_filter(f)
  \/ \E t \in Publishers :
       \/ \E e \in EventTypes : publish(t, e) \/ route_event(t, e)
       \/ apply_filters(t) \/ store_event(t) \/ route_by_pattern(t) \/ route_by_wildcard(t)
       \/ \E s \in Subscribers : Deliver(t, s)
       \/ Published(t)
  \/ clear_dead_letters

RequestResponse ==
  \/ \E r \in Requests : \/ send_request(r) \/ PublishRequest(r) \/ handle_response(r)
                         \/ Receive(r) \/ TimeOut(r)
  \/ cleanup_expired \/ Tick

-----------------------------------------------------------------------------
\* Times a subscriber with all its entries hears of an event, by the flags f.
Full(f, s, e) ==
  LET wild  == {i \in Types(s) : IsWildcard(TypesOf[s][i])}
      exact == {i \in Types(s) \ wild : TypesOf[s][i] = e}
      fit   == {i \in wild : Matches(TypesOf[s][i], e)}
  IN  IF e \in Accepts[s]
      THEN (IF f.pattern THEN Cardinality(exact) ELSE 0)
           + (IF f.wildcard THEN Cardinality(wild) * Cardinality(fit) ELSE 0)
      ELSE 0

\* A publication reaches every subscriber that stays registered from its start
\* to its routing and whose filter lets it through, as often as its patterns
\* ask for in the tables the router's flags tell it to look at, and none that
\* had been removed before it and was not being added again, although the two
\* tables are read one after the other; and every failed callback leaves a dead
\* letter while there is room, if dead letters are kept (route_event,
\* router.rs:37).
DeliverySound ==
  /\ \A t \in Publishers : pub[t] # Idle /\ pub[t].at = "deliver" =>
       /\ \A s \in pub[t].must : pub[t].matched[s] = Full(flags, s, pub[t].type)
       /\ \A s \in pub[t].gone : pub[t].matched[s] = 0
  /\ failures <= MaxDead => dead = IF flags.dead_letters THEN failures ELSE 0

\* A request is answered at most once, however many responses come; a caller
\* still waiting has its sender in the map or something to receive, and gets
\* an answer rather than a cancellation if one was sent (handle_response,
\* plugin_comm.rs:125).
RequestsSettle ==
  \A r \in Requests :
    /\ answered[r] <= 1
    /\ request[r] = "success" => answered[r] = 1
    /\ request[r] = "canceled" => answered[r] = 0 /\ now > Timeout
    /\ request[r] = "wait" /\ answered[r] = 1 => pending[r] = -1
=============================================================================
