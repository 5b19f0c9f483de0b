------------------------------ MODULE LRUCache ------------------------------
(***************************************************************************)
(* The cache of lru/lru.go and lru/lru_base.go: a linked list of entries   *)
(* in the order of their last use, and a map from keys to list elements.   *)
(* Every method of Cache holds the cache's mutex from its first to its     *)
(* last statement (or, with WithoutSync, has one caller), so each is one   *)
(* step.  The callback OnEvicted only takes note of its arguments: it runs *)
(* under the mutex, and a callback that uses the cache would not return.   *)
(***************************************************************************)
EXTENDS Integers, FiniteSets, SequencesExt

CONSTANTS
  Keys, Values,
  Size,          \* as given to New: 0 for no limit
  Expires,       \* is Expiry set?
  ExpiryMillis,  \* Expiry / time.Millisecond, 0 for less than a millisecond
  MaxTime,       \* bound: the last reading of the clock
  NoValue        \* the nil that Get returns with false

ASSUME ConstantsAssumption ==
  /\ Size \in Int /\ Expires \in BOOLEAN /\ ExpiryMillis \in Nat /\ MaxTime \in Nat
  /\ NoValue \notin Values /\ IsFiniteSet(Keys)

VARIABLES
  ll,       \* the list: its elements, the most recently used in front
  entry,    \* per element of the list, its entry
  cache,    \* the map
  now,      \* the wall clock, in milliseconds
  reply,    \* what the last call returned
  evicted   \* the calls of OnEvicted during the last call: keys and values

listVars == <<ll, entry, cache>>
vars == <<listVars, now, reply, evicted>>

\* Names for the *list.Element pointers: one more than there are keys.
Elements == 0 .. Cardinality(Keys)
Entry    == [key : Keys, value : Values, timeInsert : Nat]

Init ==
  /\ ll = <<>> /\ entry = <<>> /\ cache = <<>>
  /\ now \in 0 .. MaxTime
  /\ reply = NoValue /\ evicted = <<>>

\* An assignment to a map: m[k] = x.
Put(m, k, x) == [j \in DOMAIN m \cup {k} |-> IF j = k THEN x ELSE m[j]]

epochNow == IF Expires THEN now ELSE 0

\* container/list: an element is in the list once, and is taken out of its place.
Position(list, e) == CHOOSE i \in DOMAIN list : list[i] = e
Unlink(list, e)   == RemoveAt(list, Position(list, e))

\* Mutation: leaves the element where it is.
MoveToFront_Not(e) == ll

MoveToFront(e) == <<e>> \o Unlink(ll, e)

\* Mutation: the map keeps the key.
RemoveElement_KeepsKey(e, list, ent, map) ==
  /\ ll' = Unlink(list, e)
  /\ entry' = Restrict(ent, DOMAIN ent \ {e})
  /\ cache' = map
  /\ evicted' = <<<<ent[e].key, ent[e].value>>>>

\* removeElement, on the list, entries and map as they are at that point.
RemoveElement(e, list, ent, map) ==
  /\ ll' = Unlink(list, e)
  /\ entry' = Restrict(ent, DOMAIN ent \ {e})
  /\ cache' = Restrict(map, DOMAIN map \ {ent[e].key})
  /\ evicted' = <<<<ent[e].key, ent[e].value>>>>

AddExisting(k, v) ==
  /\ k \in DOMAIN cache
  /\ ll' = MoveToFront(cache[k])
  /\ entry' = [entry EXCEPT ![cache[k]].value = v, ![cache[k]].timeInsert = epochNow]
  /\ evicted' = <<>> /\ reply' = NoValue
  /\ UNCHANGED <<cache, now>>

AddNew(k, v) ==
  /\ k \notin DOMAIN cache
  /\ LET e    == CHOOSE x \in Elements : x \notin DOMAIN entry
         list == <<e>> \o ll
         ent  == Put(entry, e, [key |-> k, value |-> v, timeInsert |-> epochNow])
         map  == Put(cache, k, e)
     IN  IF Size # 0 /\ Len(list) > Size
           THEN RemoveElement(Last(list), list, ent, map)
           ELSE ll' = list /\ entry' = ent /\ cache' = map /\ evicted' = <<>>
  /\ reply' = NoValue /\ UNCHANGED now

Expired(e) == Expires /\ now - entry[e].timeInsert > ExpiryMillis

GetHit(k) ==
  /\ k \in DOMAIN cache /\ ~Expired(cache[k])
  /\ ll' = MoveToFront(cache[k])
  /\ reply' = entry[cache[k]].value /\ evicted' = <<>>
  /\ UNCHANGED <<entry, cache, now>>

GetExpired(k) ==
  /\ k \in DOMAIN cache /\ Expired(cache[k])
  /\ RemoveElement(cache[k], ll, entry, cache)
  /\ reply' = NoValue /\ UNCHANGED now

\* Calls that find nothing: Get, UpdateElement and Remove of a key that is not
\* there, RemoveOldest of an empty cache.
Miss(k) ==
  /\ k \notin DOMAIN cache
  /\ reply' = NoValue /\ evicted' = <<>>
  /\ UNCHANGED <<listVars, now>>

UpdateElement(k, v) ==
  /\ k \in DOMAIN cache
  /\ entry' = [entry EXCEPT ![cache[k]].value = v]
  /\ reply' = NoValue /\ evicted' = <<>>
  /\ UNCHANGED <<ll, cache, now>>

RemoveKey(k) ==
  /\ k \in DOMAIN cache
  /\ RemoveElement(cache[k], ll, entry, cache)
  /\ reply' = NoValue /\ UNCHANGED now

RemoveOldest ==
  /\ ll # <<>>
  /\ RemoveElement(Last(ll), ll, entry, cache)
  /\ reply' = NoValue /\ UNCHANGED now

\* Mutation: reports what the list holds after it was emptied.
Clear_ReportsNothing ==
  /\ ll' = <<>> /\ entry' = <<>> /\ cache' = <<>>
  /\ evicted' = <<>>
  /\ reply' = NoValue /\ UNCHANGED now

\* Goes over the map, in any order, then empties the list.
Clear ==
  /\ \E order \in SetToSeqs({cache[k] : k \in DOMAIN cache}) :
       evicted' = [i \in DOMAIN order |-> <<entry[order[i]].key, entry[order[i]].value>>]
  /\ ll' = <<>> /\ entry' = <<>> /\ cache' = <<>>
  /\ reply' = NoValue /\ UNCHANGED now

\* UnixNano is a wall-clock reading: it goes on, and may be set back.
ClockMoves ==
  /\ now' \in 0 .. MaxTime
  /\ UNCHANGED <<listVars, reply, evicted>>

Next ==
  \/ \E k \in Keys, v \in Values : AddExisting(k, v) \/ AddNew(k, v) \/ UpdateElement(k, v)
  \/ \E k \in Keys : GetHit(k) \/ GetExpired(k) \/ Miss(k) \/ RemoveKey(k)
  \/ RemoveOldest \/ Clear \/ ClockMoves

Spec == Init /\ [][Next]_vars

-----------------------------------------------------------------------------
\* Every variable has its type.
TypeOK ==
  /\ ll \in Seq(Elements)
  /\ DOMAIN entry \subseteq Elements /\ entry \in [DOMAIN entry -> Entry]
  /\ DOMAIN cache \subseteq Keys /\ cache \in [DOMAIN cache -> Elements]
  /\ now \in 0 .. MaxTime
  /\ reply \in Values \cup {NoValue}
  /\ evicted \in Seq(Keys \X Values)

\* The list and the map, which only the code keeps together, hold the same
\* entries: every key of the map leads to the one element of the list with
\* that key, and there are never more than Size.
ListMatchesMap ==
  /\ ToSet(ll) = {cache[k] : k \in DOMAIN cache} /\ IsInjective(ll)
  /\ \A k \in DOMAIN cache : entry[cache[k]].key = k
  /\ Size > 0 => Len(ll) <= Size

\* OnEvicted is called once for every entry that leaves the cache, with the
\* last value of its key, and for no other (a negative Size also has it called for
\* entries that never stay).
NotifiedOnce ==
  [][Size >= 0 /\ (evicted' # evicted \/ cache' # cache) =>
       LET gone == DOMAIN cache \ DOMAIN cache' IN
       /\ Len(evicted') = Cardinality(gone)
       /\ ToSet(evicted') = {<<k, entry[cache[k]].value>> : k \in gone}]_vars

\* The cache implements RecencyCache: the entry that makes room is the least
\* recently used one, by Add and Get but not by UpdateElement, and no expired
\* value is returned.
Recency == INSTANCE RecencyCache WITH
  held   <- [k \in Keys |-> IF k \in DOMAIN cache THEN entry[cache[k]].value ELSE NoValue],
  since  <- [k \in Keys |-> IF k \in DOMAIN cache THEN entry[cache[k]].timeInsert ELSE 0],
  newer  <- {<<entry[ll[p[1]]].key, entry[ll[p[2]]].key>> :
               p \in {q \in (DOMAIN ll) \X (DOMAIN ll) : q[1] < q[2]}},
  purged <- ToSet(evicted)

ImplementsRecencyCache == Recency!Spec
=============================================================================
