---------------------------- MODULE RecencyCache ----------------------------
(***************************************************************************)
(* What the cache of lru/ promises, without its list and its index: a key  *)
(* holds the value last stored for it until it is removed, it is the least *)
(* recently used of more than Size keys, or it is read too late.           *)
(***************************************************************************)
EXTENDS Integers, FiniteSets

CONSTANTS Keys, Values, Size, Expires, ExpiryMillis, NoValue

VARIABLES
  held,    \* per key, its value or NoValue
  since,   \* per key that is held, when it was added (0 if nothing expires)
  newer,   \* pairs of held keys: the first was used more recently
  now,     \* the wall clock, in milliseconds
  reply,   \* what the last call returned: a value, or NoValue
  purged   \* keys and values the last call purged and reported

cacheVars == <<held, since, newer, now, reply, purged>>

Present == {k \in Keys : held[k] # NoValue}

Init ==
  /\ held = [k \in Keys |-> NoValue] /\ since = [k \in Keys |-> 0]
  /\ newer = {} /\ now \in Nat /\ reply = NoValue /\ purged = {}

Without(k, pairs) == {p \in pairs : p[1] # k /\ p[2] # k}
Newest(k) == Without(k, newer) \cup {<<k, j>> : j \in Present \ {k}}

\* The key of S that no other key of S is older than.
Oldest(S, pairs) == CHOOSE k \in S : \A j \in S : <<k, j>> \notin pairs

Purge(S, h, s, pairs) ==
  /\ held' = [k \in Keys |-> IF k \in S THEN NoValue ELSE h[k]]
  /\ since' = [k \in Keys |-> IF k \in S THEN 0 ELSE s[k]]
  /\ newer' = {p \in pairs : p[1] \notin S /\ p[2] \notin S}
  /\ purged' = {<<k, h[k]>> : k \in S}

Add(k, v) ==
  LET all  == Present \cup {k}
      over == Size # 0 /\ Cardinality(all) > Size
  IN  /\ Purge(IF over THEN {Oldest(all, Newest(k))} ELSE {},
               [held EXCEPT ![k] = v],
               [since EXCEPT ![k] = IF Expires THEN now ELSE 0],
               Newest(k))
      /\ reply' = NoValue /\ UNCHANGED now

TooOld(k) == Expires /\ now - since[k] > ExpiryMillis

Get(k) ==
  /\ IF k \in Present /\ ~TooOld(k)
       THEN Purge({}, held, since, Newest(k)) /\ reply' = held[k]
       ELSE Purge({k} \cap Present, held, since, newer) /\ reply' = NoValue
  /\ UNCHANGED now

\* A new value, for a key that stays as old as it is.
UpdateElement(k, v) ==
  /\ Purge({}, IF k \in Present THEN [held EXCEPT ![k] = v] ELSE held, since, newer)
  /\ reply' = NoValue /\ UNCHANGED now

Remove(S) ==
  /\ Purge(S, held, since, newer)
  /\ reply' = NoValue /\ UNCHANGED now

RemoveOldest == Remove(IF Present = {} THEN {} ELSE {Oldest(Present, newer)})

PassTime == now' \in Nat /\ UNCHANGED <<held, since, newer, reply, purged>>

Next ==
  \/ \E k \in Keys : Get(k) \/ Remove({k} \cap Present)
  \/ \E k \in Keys, v \in Values : Add(k, v) \/ UpdateElement(k, v)
  \/ RemoveOldest \/ Remove(Present) \/ PassTime

Spec == Init /\ [][Next]_cacheVars
=============================================================================
