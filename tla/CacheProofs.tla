----------------------------- MODULE CacheProofs -----------------------------
(***************************************************************************)
(* Proofs about LRUCache, for any keys, values, capacity and times: that   *)
(* list and map agree, what OnEvicted is told, and that the cache          *)
(* implements RecencyCache.                                                *)
(***************************************************************************)
EXTENDS LRUCache, SequenceTheorems, FiniteSetTheorems, FunctionTheorems, TLAPS

\* A list in which no element is twice, and what taking one out leaves.
LEMMA UnlinkProperties ==
  ASSUME NEW E, NEW list \in Seq(E), IsInjective(list), NEW e \in ToSet(list)
  PROVE  /\ Unlink(list, e) \in Seq(E) /\ Len(Unlink(list, e)) = Len(list) - 1
         /\ IsInjective(Unlink(list, e))
         /\ ToSet(Unlink(list, e)) = ToSet(list) \ {e}
         /\ Position(list, e) \in 1..Len(list) /\ list[Position(list, e)] = e
         /\ \A i \in 1..(Len(list) - 1) :
              Unlink(list, e)[i] = IF i < Position(list, e) THEN list[i] ELSE list[i + 1]
<1> DEFINE p == Position(list, e)
           u == Unlink(list, e)
<1>1. p \in 1..Len(list) /\ list[p] = e /\ Len(list) \in Nat
  BY DEF Position, ToSet
<1> HIDE DEF p
<1> DEFINE a == SubSeq(list, 1, p - 1)
           b == SubSeq(list, p + 1, Len(list))
<1>2. /\ a \in Seq(E) /\ Len(a) = p - 1 /\ \A i \in 1..(p - 1) : a[i] = list[i]
      /\ b \in Seq(E) /\ Len(b) = Len(list) - p
      /\ \A i \in 1..(Len(list) - p) : b[i] = list[p + i]
  <2>1. 1 \in 1..(Len(list) + 1) /\ p - 1 \in 0..Len(list) /\ p + 1 \in 1..(Len(list) + 1)
    BY <1>1
  <2>2. a \in Seq(E) /\ Len(a) = p - 1 /\ \A i \in 1..(p - 1) : a[i] = list[1 + i - 1]
    BY <1>1, <2>1, SubSeqProperties
  <2>3. b \in Seq(E) /\ Len(b) = Len(list) - p
        /\ \A i \in 1..(Len(list) - p) : b[i] = list[p + 1 + i - 1]
    BY <1>1, <2>1, SubSeqProperties
  <2> HIDE DEF a, b
  <2> QED
    BY <1>1, <2>2, <2>3
<1>3. u = a \o b
  BY DEF Unlink, RemoveAt, p
<1> HIDE DEF a, b, u
<1>4. /\ u \in Seq(E) /\ Len(u) = Len(list) - 1
      /\ \A i \in 1..(Len(list) - 1) : u[i] = IF i < p THEN a[i] ELSE b[i - (p - 1)]
  <2>1. /\ a \o b \in Seq(E) /\ Len(a \o b) = Len(a) + Len(b)
        /\ \A i \in 1..(Len(a) + Len(b)) :
             (a \o b)[i] = IF i <= Len(a) THEN a[i] ELSE b[i - Len(a)]
    BY <1>2, ConcatProperties
  <2>2. Len(a) + Len(b) = Len(list) - 1
    BY <1>1, <1>2
  <2> QED
    BY <1>1, <1>2, <1>3, <2>1, <2>2
<1>5. \A i \in 1..(Len(list) - 1) : u[i] = IF i < p THEN list[i] ELSE list[i + 1]
  <2> SUFFICES ASSUME NEW i \in 1..(Len(list) - 1)
               PROVE  u[i] = IF i < p THEN list[i] ELSE list[i + 1]
    OBVIOUS
  <2>1. CASE i < p
    BY <1>1, <1>2, <1>4, <2>1
  <2>2. CASE i >= p
    <3>1. i - (p - 1) \in 1..(Len(list) - p) /\ p + (i - (p - 1)) = i + 1
      BY <1>1, <2>2
    <3>2. b[i - (p - 1)] = list[p + (i - (p - 1))]
      BY <1>2, <3>1
    <3> QED
      BY <1>1, <1>4, <2>2, <3>1, <3>2
  <2> QED
    BY <1>1, <2>1, <2>2
<1>6. DOMAIN u = 1..(Len(list) - 1) /\ DOMAIN list = 1..Len(list)
  BY <1>4
<1>7. IsInjective(u)
  BY <1>1, <1>5, <1>6 DEF IsInjective
<1>8. ToSet(u) = ToSet(list) \ {e}
  <2>1. ASSUME NEW x \in ToSet(u) PROVE x \in ToSet(list) \ {e}
    <3>1. PICK i \in 1..(Len(list) - 1) : x = u[i]
      BY <1>6, <2>1 DEF ToSet
    <3>2. PICK j \in 1..Len(list) : x = list[j] /\ j # p
      BY <1>1, <1>5, <3>1
    <3> QED
      BY <1>1, <1>6, <3>2 DEF ToSet, IsInjective
  <2>2. ASSUME NEW x \in ToSet(list) \ {e} PROVE x \in ToSet(u)
    <3>1. PICK j \in 1..Len(list) : x = list[j] /\ j # p
      BY <1>1, <1>6, <2>2 DEF ToSet
    <3>2. CASE j < p
      <4>1. j \in 1..(Len(list) - 1) /\ u[j] = x
        BY <1>1, <1>5, <3>1, <3>2
      <4> QED
        BY <1>6, <4>1 DEF ToSet
    <3>3. CASE j > p
      <4>1. j - 1 \in 1..(Len(list) - 1) /\ u[j - 1] = x
        BY <1>1, <1>5, <3>1, <3>3
      <4> QED
        BY <1>6, <4>1 DEF ToSet
    <3> QED
      BY <1>1, <3>1, <3>2, <3>3
  <2> QED
    BY <2>1, <2>2
<1> QED
  BY <1>1, <1>4, <1>5, <1>7, <1>8 DEF u, p

\* What putting an element in front does to the list.
LEMMA FrontProperties ==
  ASSUME NEW E, NEW list \in Seq(E), IsInjective(list), NEW e \in E \ ToSet(list)
  PROVE  /\ <<e>> \o list \in Seq(E) /\ Len(<<e>> \o list) = Len(list) + 1
         /\ IsInjective(<<e>> \o list)
         /\ ToSet(<<e>> \o list) = ToSet(list) \cup {e}
         /\ \A i \in 1..(Len(list) + 1) :
              (<<e>> \o list)[i] = IF i = 1 THEN e ELSE list[i - 1]
<1> DEFINE f == <<e>> \o list
<1>1. Len(list) \in Nat /\ DOMAIN list = 1..Len(list)
  OBVIOUS
<1>2. f \in Seq(E) /\ Len(f) = Len(list) + 1
      /\ \A i \in 1..(Len(list) + 1) : f[i] = IF i = 1 THEN e ELSE list[i - 1]
  <2>1. <<e>> \in Seq(E) /\ Len(<<e>>) = 1 /\ <<e>>[1] = e
    OBVIOUS
  <2> QED
    BY <1>1, <2>1, ConcatProperties
<1> HIDE DEF f
<1>3. DOMAIN f = 1..(Len(list) + 1)
  BY <1>1, <1>2
<1>4. IsInjective(f)
  <2> SUFFICES ASSUME NEW i \in 1..(Len(list) + 1), NEW j \in 1..(Len(list) + 1), f[i] = f[j]
               PROVE  i = j
    BY <1>3 DEF IsInjective
  <2>1. i = 1 <=> j = 1
    BY <1>1, <1>2 DEF ToSet
  <2>2. CASE i # 1 /\ j # 1
    <3>1. i - 1 \in DOMAIN list /\ j - 1 \in DOMAIN list /\ list[i - 1] = list[j - 1]
      BY <1>1, <1>2, <2>2
    <3>2. i - 1 = j - 1
      BY <3>1 DEF IsInjective
    <3> QED
      BY <3>2
  <2> QED
    BY <2>1, <2>2
<1>5. ToSet(f) = ToSet(list) \cup {e}
  <2>1. ASSUME NEW x \in ToSet(f) PROVE x \in ToSet(list) \cup {e}
    BY <1>1, <1>2, <1>3, <2>1 DEF ToSet
  <2>2. ASSUME NEW x \in ToSet(list) \cup {e} PROVE x \in ToSet(f)
    <3>1. CASE x = e
      BY <1>1, <1>2, <1>3, <3>1 DEF ToSet
    <3>2. CASE x \in ToSet(list)
      <4>1. PICK j \in 1..Len(list) : x = list[j]
        BY <1>1, <3>2 DEF ToSet
      <4>2. j + 1 \in 1..(Len(list) + 1) /\ f[j + 1] = x
        BY <1>1, <1>2, <4>1
      <4> QED
        BY <1>3, <4>2 DEF ToSet
    <3> QED
      BY <2>2, <3>1, <3>2
  <2> QED
    BY <2>1, <2>2
<1> QED
  BY <1>2, <1>4, <1>5 DEF f

\* The list, the entries of its elements and the map belong together.
Consistent(list, ent, map) ==
  /\ list \in Seq(Elements) /\ IsInjective(list)
  /\ ent \in [ToSet(list) -> Entry]
  /\ DOMAIN map \subseteq Keys /\ map \in [DOMAIN map -> ToSet(list)]
  /\ \A k \in DOMAIN map : ent[map[k]].key = k
  /\ \A e \in ToSet(list) : ent[e].key \in DOMAIN map /\ map[ent[e].key] = e

\* removeElement takes an element out of all three.
LEMMA RemoveConsistent ==
  ASSUME NEW list, NEW ent, NEW map, Consistent(list, ent, map), NEW e \in ToSet(list)
  PROVE  /\ Consistent(Unlink(list, e), Restrict(ent, DOMAIN ent \ {e}),
                       Restrict(map, DOMAIN map \ {ent[e].key}))
         /\ Len(Unlink(list, e)) = Len(list) - 1
<1> DEFINE u   == Unlink(list, e)
           key == ent[e].key
           en  == Restrict(ent, DOMAIN ent \ {e})
           mp  == Restrict(map, DOMAIN map \ {key})
<1>1. list \in Seq(Elements) /\ IsInjective(list)
  BY DEF Consistent
<1>2. /\ u \in Seq(Elements) /\ IsInjective(u) /\ ToSet(u) = ToSet(list) \ {e}
      /\ Len(u) = Len(list) - 1
  BY <1>1, UnlinkProperties
<1>3. /\ DOMAIN en = ToSet(list) \ {e} /\ \A x \in ToSet(list) \ {e} : en[x] = ent[x]
      /\ DOMAIN mp = DOMAIN map \ {key} /\ \A k \in DOMAIN map \ {key} : mp[k] = map[k]
      /\ en \in [ToSet(list) \ {e} -> Entry]
  BY DEF Consistent, Restrict
<1>4. \A k \in DOMAIN map : k # key => map[k] \in ToSet(list) \ {e}
  BY DEF Consistent
<1>5. mp \in [DOMAIN mp -> ToSet(list) \ {e}]
  BY <1>3, <1>4 DEF Restrict
<1>6. \A x \in ToSet(list) \ {e} : ent[x].key # key
  BY DEF Consistent
<1> HIDE DEF u, en, mp, key
<1>7. \A k \in DOMAIN mp : en[mp[k]].key = k
  BY <1>3, <1>4 DEF Consistent
<1>8. \A x \in ToSet(u) : en[x].key \in DOMAIN mp /\ mp[en[x].key] = x
  BY <1>2, <1>3, <1>6 DEF Consistent
<1>9. DOMAIN mp \subseteq Keys
  BY <1>3 DEF Consistent
<1>10. Consistent(u, en, mp)
  BY <1>2, <1>3, <1>5, <1>7, <1>8, <1>9 DEF Consistent
<1> QED
  BY <1>2, <1>10 DEF u, en, mp, key

\* addElement puts one into all three.
LEMMA AddConsistent ==
  ASSUME NEW list, NEW ent, NEW map, Consistent(list, ent, map),
         NEW k \in Keys \ DOMAIN map, NEW e \in Elements \ ToSet(list),
         NEW rec \in Entry, rec.key = k
  PROVE  /\ Consistent(<<e>> \o list, Put(ent, e, rec), Put(map, k, e))
         /\ Len(<<e>> \o list) = Len(list) + 1
         /\ Last(<<e>> \o list) \in ToSet(<<e>> \o list)
         /\ Last(<<e>> \o list) = IF Len(list) = 0 THEN e ELSE list[Len(list)]
<1> DEFINE f  == <<e>> \o list
           en == Put(ent, e, rec)
           mp == Put(map, k, e)
<1>1. list \in Seq(Elements) /\ IsInjective(list) /\ Len(list) \in Nat
  BY DEF Consistent
<1>2. /\ f \in Seq(Elements) /\ IsInjective(f) /\ ToSet(f) = ToSet(list) \cup {e}
      /\ Len(f) = Len(list) + 1
      /\ \A i \in 1..(Len(list) + 1) : f[i] = IF i = 1 THEN e ELSE list[i - 1]
  BY <1>1, FrontProperties
<1>3. /\ DOMAIN en = ToSet(list) \cup {e} /\ en[e] = rec
      /\ \A x \in ToSet(list) : en[x] = ent[x]
      /\ en \in [ToSet(list) \cup {e} -> Entry]
  BY DEF Consistent, Put
<1>4. /\ DOMAIN mp = DOMAIN map \cup {k} /\ mp[k] = e
      /\ \A j \in DOMAIN map : mp[j] = map[j]
      /\ mp \in [DOMAIN map \cup {k} -> ToSet(list) \cup {e}]
  BY DEF Consistent, Put
<1> HIDE DEF f, en, mp
<1>5. \A j \in DOMAIN map : map[j] \in ToSet(list)
  BY DEF Consistent
<1>6. \A j \in DOMAIN mp : en[mp[j]].key = j
  BY <1>3, <1>4, <1>5 DEF Consistent
<1>7. \A x \in ToSet(f) : en[x].key \in DOMAIN mp /\ mp[en[x].key] = x
  BY <1>2, <1>3, <1>4 DEF Consistent
<1>8. Consistent(f, en, mp)
  BY <1>2, <1>3, <1>4, <1>6, <1>7 DEF Consistent
<1>9. Last(f) \in ToSet(f) /\ Last(f) = IF Len(list) = 0 THEN e ELSE list[Len(list)]
  BY <1>1, <1>2 DEF Last, ToSet
<1> QED
  BY <1>2, <1>8, <1>9 DEF f, en, mp

\* There are never more elements than keys, so there is a name for a new one.
LEMMA FreshElement ==
  ASSUME NEW list, NEW ent, NEW map, Consistent(list, ent, map), NEW k \in Keys \ DOMAIN map
  PROVE  \E e \in Elements : e \notin DOMAIN ent
<1> SUFFICES ASSUME Elements \subseteq ToSet(list) PROVE FALSE
  BY DEF Consistent
<1>1. IsFiniteSet(Keys) /\ IsFiniteSet(DOMAIN map) /\ Cardinality(DOMAIN map) <= Cardinality(Keys)
      /\ Cardinality(Keys) \in Nat /\ Cardinality(DOMAIN map) \in Nat
  BY ConstantsAssumption, FS_Subset, FS_CardinalityType DEF Consistent
<1>2. map \in Surjection(DOMAIN map, ToSet(list))
  <2>1. map \in [DOMAIN map -> ToSet(list)]
    BY DEF Consistent
  <2>2. \A e \in ToSet(list) : \E j \in DOMAIN map : map[j] = e
    BY DEF Consistent
  <2> QED
    BY <2>1, <2>2, Fun_IsSurj
<1>3. IsFiniteSet(ToSet(list)) /\ Cardinality(ToSet(list)) <= Cardinality(DOMAIN map)
  BY <1>1, <1>2, FS_Surjection
<1>4. Cardinality(Elements) = Cardinality(Keys) + 1
  BY <1>1, FS_Interval DEF Elements
<1>5. Cardinality(Elements) <= Cardinality(ToSet(list)) /\ Cardinality(ToSet(list)) \in Nat
  BY <1>3, FS_Subset, FS_CardinalityType
<1> QED
  BY <1>1, <1>3, <1>4, <1>5

CacheInv ==
  /\ Consistent(ll, entry, cache)
  /\ (Size > 0 => Len(ll) <= Size) /\ (Size < 0 => Len(ll) = 0)
  /\ now \in 0 .. MaxTime /\ reply \in Values \cup {NoValue} /\ evicted \in Seq(Keys \X Values)

\* A key of the map leads to an element of the list and to its entry.
LEMMA CacheEntry ==
  ASSUME CacheInv, NEW k \in DOMAIN cache
  PROVE  /\ k \in Keys /\ cache[k] \in ToSet(ll) /\ cache[k] \in DOMAIN entry
         /\ entry[cache[k]] \in Entry /\ entry[cache[k]].key = k
BY DEF CacheInv, Consistent

\* The oldest element is one of the list, and so has a key of the map.
LEMMA OldestElement ==
  ASSUME CacheInv, ll # <<>>
  PROVE  /\ Last(ll) \in ToSet(ll) /\ entry[Last(ll)] \in Entry
         /\ entry[Last(ll)].key \in DOMAIN cache /\ cache[entry[Last(ll)].key] = Last(ll)
<1>1. Len(ll) \in Nat \ {0} /\ DOMAIN ll = 1..Len(ll)
  BY EmptySeq DEF CacheInv, Consistent
<1>2. Last(ll) \in ToSet(ll)
  BY <1>1 DEF Last, ToSet
<1> QED
  BY <1>2 DEF CacheInv, Consistent

\* Moving an element to the front keeps what belongs together.
LEMMA MoveConsistent ==
  ASSUME CacheInv, NEW e \in ToSet(ll)
  PROVE  /\ MoveToFront(e) \in Seq(Elements) /\ IsInjective(MoveToFront(e))
         /\ ToSet(MoveToFront(e)) = ToSet(ll) /\ Len(MoveToFront(e)) = Len(ll)
<1>1. ll \in Seq(Elements) /\ IsInjective(ll) /\ e \in Elements /\ Len(ll) \in Nat
  BY DEF CacheInv, Consistent, ToSet
<1> DEFINE u == Unlink(ll, e)
<1>2. u \in Seq(Elements) /\ IsInjective(u) /\ ToSet(u) = ToSet(ll) \ {e} /\ Len(u) = Len(ll) - 1
  BY <1>1, UnlinkProperties
<1>3. MoveToFront(e) = <<e>> \o u
  BY DEF MoveToFront
<1> HIDE DEF u
<1>4. e \in Elements \ ToSet(u)
  BY <1>1, <1>2
<1>5. /\ <<e>> \o u \in Seq(Elements) /\ Len(<<e>> \o u) = Len(u) + 1
      /\ IsInjective(<<e>> \o u) /\ ToSet(<<e>> \o u) = ToSet(u) \cup {e}
  BY <1>2, <1>4, FrontProperties
<1>6. ToSet(u) \cup {e} = ToSet(ll)
  BY <1>2
<1>7. Len(u) + 1 = Len(ll)
  BY <1>1, <1>2
<1> QED
  BY <1>3, <1>5, <1>6, <1>7

\* What OnEvicted is told of the keys that leave.
Leaving  == DOMAIN cache \ DOMAIN cache'
Reported ==
  /\ Len(evicted') = Cardinality(Leaving)
  /\ ToSet(evicted') = {<<k, entry[cache[k]].value>> : k \in Leaving}

\* One step removes and reports the entry of a key.
LEMMA RemoveStep ==
  ASSUME CacheInv, NEW k \in DOMAIN cache, RemoveElement(cache[k], ll, entry, cache),
         UNCHANGED now, reply' = NoValue
  PROVE  CacheInv' /\ Reported
<1>1. /\ cache[k] \in ToSet(ll) /\ entry[cache[k]] \in Entry
      /\ entry[cache[k]].key = k /\ k \in Keys
  BY CacheEntry
<1>2. Consistent(ll, entry, cache)
  BY DEF CacheInv
<1>3. Consistent(ll', entry', cache') /\ Len(ll') = Len(ll) - 1
  BY <1>1, <1>2, RemoveConsistent DEF RemoveElement
<1>4. Len(ll) \in Nat /\ Len(ll') \in Nat
  BY <1>3 DEF CacheInv, Consistent
<1>5. evicted' = <<<<k, entry[cache[k]].value>>>> /\ entry[cache[k]].value \in Values
  BY <1>1 DEF RemoveElement, Entry
<1>6. CacheInv'
  BY <1>1, <1>3, <1>4, <1>5, ConstantsAssumption DEF CacheInv
<1>7. Leaving = {k}
  BY <1>1 DEF Leaving, RemoveElement, Restrict
<1>8. Reported
  <2>1. Cardinality({k}) = 1
    BY FS_Singleton
  <2>2. Len(evicted') = 1 /\ ToSet(evicted') = {<<k, entry[cache[k]].value>>}
    BY <1>5 DEF ToSet
  <2> QED
    BY <1>7, <2>1, <2>2 DEF Reported
<1> QED
  BY <1>6, <1>8

\* A call that removes nothing reports nothing.
LEMMA NothingReported ==
  ASSUME evicted' = <<>>, DOMAIN cache \subseteq DOMAIN cache'
  PROVE  Reported
<1>1. Leaving = {} /\ Cardinality({}) = 0
  BY FS_EmptySet DEF Leaving
<1> QED
  BY <1>1 DEF Reported, ToSet

\* Add of a new key: if it makes the list too long, the oldest entry leaves.
LEMMA AddNewStep ==
  ASSUME CacheInv, NEW k \in Keys, NEW v \in Values, AddNew(k, v)
  PROVE  CacheInv' /\ (Size >= 0 => Reported)
<1> DEFINE e    == CHOOSE x \in Elements : x \notin DOMAIN entry
           rec  == [key |-> k, value |-> v, timeInsert |-> epochNow]
           list == <<e>> \o ll
           ent  == Put(entry, e, rec)
           map  == Put(cache, k, e)
<1>1. Consistent(ll, entry, cache) /\ k \in Keys \ DOMAIN cache /\ now \in Nat /\ reply' = NoValue
      /\ UNCHANGED now /\ Len(ll) \in Nat /\ DOMAIN entry = ToSet(ll)
  BY ConstantsAssumption DEF CacheInv, AddNew, Consistent
<1>2. e \in Elements \ ToSet(ll)
  BY <1>1, FreshElement
<1>3. rec \in Entry /\ rec.key = k
  BY <1>1 DEF Entry, epochNow
<1>4. IF Size # 0 /\ Len(list) > Size
        THEN RemoveElement(Last(list), list, ent, map)
        ELSE ll' = list /\ entry' = ent /\ cache' = map /\ evicted' = <<>>
  BY DEF AddNew
<1>5. /\ DOMAIN map = DOMAIN cache \cup {k} /\ DOMAIN ent = DOMAIN entry \cup {e}
      /\ ent[e] = rec /\ \A x \in DOMAIN entry : x # e => ent[x] = entry[x]
  BY DEF Put
<1> HIDE DEF e, rec
<1>6. /\ Consistent(list, ent, map) /\ Len(list) = Len(ll) + 1 /\ Last(list) \in ToSet(list)
      /\ Last(list) = IF Len(ll) = 0 THEN e ELSE ll[Len(ll)]
  BY <1>1, <1>2, <1>3, AddConsistent
<1> HIDE DEF list, ent, map
<1>7. CASE Size # 0 /\ Len(list) > Size
  <2>1. RemoveElement(Last(list), list, ent, map)
    BY <1>4, <1>7
  <2>2. Consistent(ll', entry', cache') /\ Len(ll') = Len(list) - 1
    BY <1>6, <2>1, RemoveConsistent DEF RemoveElement
  <2> DEFINE old == ent[Last(list)]
  <2>3. old \in Entry
    BY <1>6 DEF Consistent
  <2>4. evicted' = <<<<old.key, old.value>>>> /\ DOMAIN cache' = DOMAIN map \ {old.key}
    BY <2>1 DEF RemoveElement, Restrict
  <2>5. evicted' \in Seq(Keys \X Values)
    BY <2>3, <2>4 DEF Entry
  <2>6. Len(ll') = Len(ll)
    BY <1>1, <1>6, <2>2
  <2>7. CacheInv'
    BY <1>1, <2>2, <2>5, <2>6, ConstantsAssumption DEF CacheInv
  <2>8. ASSUME Size >= 0 PROVE Reported
    <3>1. Len(ll) > 0
      BY <1>1, <1>6, <1>7, <2>8, ConstantsAssumption
    <3>2. Last(list) = Last(ll) /\ ll # <<>>
      BY <1>1, <1>6, <3>1 DEF Last
    <3>3. /\ Last(ll) \in ToSet(ll) /\ entry[Last(ll)].key \in DOMAIN cache
          /\ cache[entry[Last(ll)].key] = Last(ll)
      BY <3>2, OldestElement
    <3>4. old = entry[Last(ll)]
      BY <1>1, <1>2, <1>5, <3>2, <3>3
    <3> DEFINE key == old.key
    <3>5. key \in DOMAIN cache /\ cache[key] = Last(ll) /\ key # k
      BY <1>1, <3>3, <3>4
    <3>6. Leaving = {key}
      BY <1>5, <2>4, <3>5 DEF Leaving
    <3>7. evicted' = <<<<key, entry[cache[key]].value>>>>
      BY <2>4, <3>4, <3>5
    <3> HIDE DEF key, old
    <3>8. Len(evicted') = 1 /\ ToSet(evicted') = {<<key, entry[cache[key]].value>>}
      BY <3>7 DEF ToSet
    <3>9. Cardinality({key}) = 1
      BY FS_Singleton
    <3> QED
      BY <3>6, <3>8, <3>9 DEF Reported
  <2> QED
    BY <2>7, <2>8
<1>8. CASE ~(Size # 0 /\ Len(list) > Size)
  <2>1. ll' = list /\ entry' = ent /\ cache' = map /\ evicted' = <<>>
    BY <1>4, <1>8
  <2>2. (Size > 0 => Len(list) <= Size) /\ ~(Size < 0)
    BY <1>1, <1>6, <1>8, ConstantsAssumption
  <2>3. CacheInv'
    BY <1>1, <1>6, <2>1, <2>2, ConstantsAssumption, EmptySeq DEF CacheInv
  <2> QED
    BY <1>5, <2>1, <2>3, NothingReported
<1> QED
  BY <1>7, <1>8

\* Clear reports every entry once, whatever the order it finds them in.
LEMMA ClearStep ==
  ASSUME CacheInv, Clear
  PROVE  CacheInv' /\ Reported
<1> DEFINE S == {cache[k] : k \in DOMAIN cache}
           n == Cardinality(S)
<1>1. PICK order \in SetToSeqs(S) :
        evicted' = [i \in DOMAIN order |-> <<entry[order[i]].key, entry[order[i]].value>>]
  BY DEF Clear
<1>2. order \in [1..n -> S] /\ \A i, j \in 1..n : i # j => order[i] # order[j]
  BY DEF SetToSeqs
<1>3. ll' = <<>> /\ entry' = <<>> /\ cache' = <<>> /\ reply' = NoValue /\ now' = now
  BY DEF Clear
<1> HIDE DEF S, n
<1>4. /\ IsFiniteSet(DOMAIN cache) /\ \A k \in DOMAIN cache : cache[k] \in S
      /\ \A e \in S : e \in ToSet(ll) /\ \E k \in DOMAIN cache : cache[k] = e
  BY CacheEntry, ConstantsAssumption, FS_Subset DEF S, CacheInv, Consistent
<1>5. cache \in Bijection(DOMAIN cache, S)
  <2>1. cache \in [DOMAIN cache -> S]
    BY <1>4 DEF CacheInv, Consistent
  <2>2. \A j, k \in DOMAIN cache : cache[j] = cache[k] => j = k
    BY DEF CacheInv, Consistent
  <2>3. \A e \in S : \E k \in DOMAIN cache : cache[k] = e
    BY <1>4
  <2> QED
    BY <2>1, <2>2, <2>3, Fun_IsBij
<1>6. IsFiniteSet(S) /\ n = Cardinality(DOMAIN cache) /\ n \in Nat
  <2>1. ExistsBijection(DOMAIN cache, S)
    BY <1>5 DEF ExistsBijection
  <2> QED
    BY <1>4, <2>1, FS_Bijection, FS_CardinalityType DEF n
<1>7. \A e \in S : \E i \in 1..n : order[i] = e
  <2>1. order \in Injection(1..n, S)
    BY <1>2, Fun_IsInj
  <2>2. Cardinality(1..n) = Cardinality(S)
    BY <1>6, FS_Interval DEF n
  <2>3. order \in Surjection(1..n, S)
    BY <1>6, <2>1, <2>2, FS_Injection
  <2> QED
    BY <2>3 DEF Surjection
<1>8. \A e \in S : entry[e] \in Entry /\ entry[e].key \in DOMAIN cache /\ cache[entry[e].key] = e
  BY <1>4 DEF CacheInv, Consistent
<1>9. \A i \in 1..n : order[i] \in S
  BY <1>2
<1>10. /\ evicted' \in Seq(Keys \X Values) /\ Len(evicted') = n /\ DOMAIN evicted' = 1..n
       /\ \A i \in 1..n : evicted'[i] = <<entry[order[i]].key, entry[order[i]].value>>
  <2>1. DOMAIN order = 1..n
    BY <1>2
  <2>2. \A i \in 1..n : <<entry[order[i]].key, entry[order[i]].value>> \in Keys \X Values
    BY <1>8, <1>9 DEF Entry
  <2>3. evicted' \in [1..n -> Keys \X Values]
    BY <1>1, <2>1, <2>2
  <2>4. evicted' \in Seq(Keys \X Values) /\ Len(evicted') = n /\ DOMAIN evicted' = 1..n
    BY <1>6, <2>3
  <2>5. \A i \in 1..n : evicted'[i] = <<entry[order[i]].key, entry[order[i]].value>>
    BY <1>1, <2>1
  <2> QED
    BY <2>4, <2>5
<1>11. Leaving = DOMAIN cache
  BY <1>3 DEF Leaving
<1>12. ToSet(evicted') = {<<k, entry[cache[k]].value>> : k \in DOMAIN cache}
  <2> DEFINE T == {<<k, entry[cache[k]].value>> : k \in DOMAIN cache}
  <2>1. ASSUME NEW x \in ToSet(evicted') PROVE x \in T
    <3>1. PICK i \in 1..n : x = <<entry[order[i]].key, entry[order[i]].value>>
      BY <1>10, <2>1 DEF ToSet
    <3> DEFINE k == entry[order[i]].key
    <3>2. k \in DOMAIN cache /\ cache[k] = order[i]
      BY <1>8, <1>9
    <3>3. x = <<k, entry[cache[k]].value>>
      BY <3>1, <3>2
    <3> QED
      BY <3>2, <3>3
  <2>2. ASSUME NEW k \in DOMAIN cache PROVE <<k, entry[cache[k]].value>> \in ToSet(evicted')
    <3>1. PICK i \in 1..n : order[i] = cache[k]
      BY <1>4, <1>7
    <3>2. entry[cache[k]].key = k
      BY CacheEntry
    <3>3. evicted'[i] = <<k, entry[cache[k]].value>>
      BY <1>10, <3>1, <3>2
    <3> QED
      BY <1>10, <3>3 DEF ToSet
  <2> QED
    BY <2>1, <2>2
<1>13. CacheInv'
  <2>1. ll' \in Seq(Elements) /\ Len(ll') = 0 /\ ToSet(ll') = {} /\ IsInjective(ll')
    BY <1>3, EmptySeq DEF ToSet, IsInjective
  <2>2. DOMAIN cache' = {} /\ DOMAIN entry' = {}
    BY <1>3
  <2>3. entry' \in [{} -> Entry] /\ cache' \in [{} -> {}]
    BY <1>3
  <2>4. Consistent(ll', entry', cache')
    BY <2>1, <2>2, <2>3 DEF Consistent
  <2> QED
    BY <1>3, <1>10, <2>1, <2>4, ConstantsAssumption DEF CacheInv
<1> QED
  BY <1>6, <1>10, <1>11, <1>12, <1>13 DEF Reported

\* The calls that remove nothing.
LEMMA KeepStep ==
  ASSUME CacheInv,
         \/ \E k \in Keys, v \in Values : AddExisting(k, v) \/ UpdateElement(k, v)
         \/ \E k \in Keys : GetHit(k) \/ Miss(k)
  PROVE  CacheInv' /\ Reported
<1>1. Consistent(ll, entry, cache) /\ Len(ll) \in Nat /\ <<>> \in Seq(Keys \X Values)
  BY EmptySeq DEF CacheInv, Consistent
<1>2. ASSUME NEW k \in Keys, NEW v \in Values, AddExisting(k, v)
      PROVE  CacheInv'
  <2>1. cache[k] \in ToSet(ll) /\ entry[cache[k]] \in Entry
    BY <1>2, CacheEntry DEF AddExisting
  <2>2. /\ ll' \in Seq(Elements) /\ IsInjective(ll') /\ ToSet(ll') = ToSet(ll)
        /\ Len(ll') = Len(ll)
    BY <1>2, <2>1, MoveConsistent DEF AddExisting
  <2>3. entry' = [entry EXCEPT ![cache[k]].value = v, ![cache[k]].timeInsert = epochNow]
        /\ epochNow \in Nat /\ UNCHANGED <<cache, now>> /\ evicted' = <<>> /\ reply' = NoValue
    BY <1>2, ConstantsAssumption DEF AddExisting, epochNow, CacheInv
  <2>4. /\ entry' \in [ToSet(ll) -> Entry]
        /\ \A x \in ToSet(ll) : entry'[x].key = entry[x].key
    BY <2>1, <2>3, <1>1 DEF Consistent, Entry
  <2>5. Consistent(ll', entry', cache')
    BY <1>1, <2>2, <2>3, <2>4 DEF Consistent
  <2> QED
    BY <1>1, <2>2, <2>3, <2>5 DEF CacheInv
<1>3. ASSUME NEW k \in Keys, NEW v \in Values, UpdateElement(k, v)
      PROVE  CacheInv'
  <2>1. entry' = [entry EXCEPT ![cache[k]].value = v]
        /\ UNCHANGED <<ll, cache, now>> /\ evicted' = <<>> /\ reply' = NoValue
    BY <1>3 DEF UpdateElement
  <2>2. cache[k] \in ToSet(ll) /\ entry[cache[k]] \in Entry
    BY <1>3, CacheEntry DEF UpdateElement
  <2>3. /\ entry' \in [ToSet(ll) -> Entry]
        /\ \A x \in ToSet(ll) : entry'[x].key = entry[x].key
    BY <2>1, <2>2, <1>1 DEF Consistent, Entry
  <2>4. Consistent(ll', entry', cache')
    BY <1>1, <2>1, <2>3 DEF Consistent
  <2> QED
    BY <1>1, <2>1, <2>4 DEF CacheInv
<1>4. ASSUME NEW k \in Keys, GetHit(k)
      PROVE  CacheInv'
  <2>1. cache[k] \in ToSet(ll) /\ entry[cache[k]] \in Entry
    BY <1>4, CacheEntry DEF GetHit
  <2>2. /\ ll' \in Seq(Elements) /\ IsInjective(ll') /\ ToSet(ll') = ToSet(ll)
        /\ Len(ll') = Len(ll)
    BY <1>4, <2>1, MoveConsistent DEF GetHit
  <2>3. UNCHANGED <<entry, cache, now>> /\ evicted' = <<>> /\ reply' \in Values
    BY <1>4, <2>1 DEF GetHit, Entry
  <2>4. Consistent(ll', entry', cache')
    BY <1>1, <2>2, <2>3 DEF Consistent
  <2> QED
    BY <1>1, <2>2, <2>3, <2>4 DEF CacheInv
<1>5. ASSUME NEW k \in Keys, Miss(k)
      PROVE  CacheInv'
  BY <1>1, <1>5 DEF Miss, CacheInv, listVars
<1>6. evicted' = <<>> /\ cache' = cache
  BY DEF AddExisting, UpdateElement, GetHit, Miss, listVars
<1> QED
  BY <1>2, <1>3, <1>4, <1>5, <1>6, NothingReported

\* Every step but that of the clock, which touches nothing else.
LEMMA CacheStep ==
  ASSUME CacheInv, [Next]_vars
  PROVE  CacheInv' /\ (UNCHANGED <<cache, evicted>> \/ (Size >= 0 => Reported))
<1>1. CASE ClockMoves
  BY <1>1 DEF ClockMoves, CacheInv, listVars
<1>2. CASE UNCHANGED vars
  BY <1>2 DEF vars, CacheInv, listVars
<1>3. CASE RemoveOldest
  <2> DEFINE k == entry[Last(ll)].key
  <2>1. k \in DOMAIN cache /\ cache[k] = Last(ll)
    BY <1>3, OldestElement DEF RemoveOldest
  <2>2. RemoveElement(cache[k], ll, entry, cache) /\ UNCHANGED now /\ reply' = NoValue
    BY <1>3, <2>1 DEF RemoveOldest
  <2> HIDE DEF k
  <2> QED
    BY <2>1, <2>2, RemoveStep
<1>4. ASSUME NEW k \in Keys, GetExpired(k) \/ RemoveKey(k)
      PROVE  CacheInv' /\ Reported
  BY <1>4, RemoveStep DEF GetExpired, RemoveKey
<1> QED
  BY <1>1, <1>2, <1>3, <1>4, AddNewStep, ClearStep, KeepStep DEF Next

\* An empty cache is consistent.
LEMMA CacheInvInit == Init => CacheInv
<1> SUFFICES ASSUME Init PROVE CacheInv
  OBVIOUS
<1>1. ll \in Seq(Elements) /\ Len(ll) = 0 /\ ToSet(ll) = {} /\ IsInjective(ll)
  BY EmptySeq DEF Init, ToSet, IsInjective
<1>2. DOMAIN cache = {} /\ entry \in [{} -> Entry] /\ cache \in [{} -> {}]
  BY DEF Init
<1>3. Consistent(ll, entry, cache)
  BY <1>1, <1>2 DEF Consistent
<1> QED
  BY <1>1, <1>3, EmptySeq, ConstantsAssumption DEF Init, CacheInv

\* What the invariant says of list and map, and of the types.
LEMMA CacheInvMatches == CacheInv => TypeOK /\ ListMatchesMap
<1> SUFFICES ASSUME CacheInv PROVE TypeOK /\ ListMatchesMap
  OBVIOUS
<1>1. ToSet(ll) \subseteq Elements /\ DOMAIN entry = ToSet(ll)
  BY DEF CacheInv, Consistent, ToSet
<1>2. TypeOK
  BY <1>1 DEF CacheInv, Consistent, TypeOK
<1>3. ListMatchesMap
  BY DEF CacheInv, Consistent, ListMatchesMap
<1> QED
  BY <1>2, <1>3

\* The invariant holds always.
LEMMA CacheInvariant == Spec => []CacheInv
BY CacheInvInit, CacheStep, PTL DEF Spec

(* For any keys, size and expiry: the list and the map of the cache lead   *)
(* to the same entries, of which there are at most Size.                   *)
THEOREM ListAndMapAgree == Spec => []ListMatchesMap
BY CacheInvariant, CacheInvMatches, PTL

(* OnEvicted is told once of each entry that leaves, and of no other.      *)
THEOREM EvictionsReported == Spec => NotifiedOnce
<1>1. CacheInv /\ [Next]_vars =>
        [Size >= 0 /\ (evicted' # evicted \/ cache' # cache) =>
           LET gone == DOMAIN cache \ DOMAIN cache' IN
           /\ Len(evicted') = Cardinality(gone)
           /\ ToSet(evicted') = {<<k, entry[cache[k]].value>> : k \in gone}]_vars
  BY CacheStep DEF Reported, Leaving
<1> QED
  BY <1>1, CacheInvariant, PTL DEF Spec, NotifiedOnce

-----------------------------------------------------------------------------
(* The cache implements RecencyCache.                                      *)

\* In a list in which no element is twice, each is at its position.
LEMMA AtPosition ==
  ASSUME NEW list, IsInjective(list), NEW i \in DOMAIN list
  PROVE  Position(list, list[i]) = i
<1>1. Position(list, list[i]) \in DOMAIN list /\ list[Position(list, list[i])] = list[i]
  BY DEF Position
<1> QED
  BY <1>1 DEF IsInjective

\* Taking an element out leaves the others in their order.
LEMMA UnlinkOrder ==
  ASSUME NEW E, NEW list \in Seq(E), IsInjective(list), NEW e \in ToSet(list),
         NEW x \in ToSet(list) \ {e}, NEW y \in ToSet(list) \ {e}
  PROVE  Position(Unlink(list, e), x) < Position(Unlink(list, e), y)
           <=> Position(list, x) < Position(list, y)
<1> DEFINE u == Unlink(list, e)
           p == Position(list, e)
<1>1. /\ u \in Seq(E) /\ Len(u) = Len(list) - 1 /\ IsInjective(u)
      /\ p \in 1..Len(list) /\ list[p] = e
      /\ \A i \in 1..(Len(list) - 1) : u[i] = IF i < p THEN list[i] ELSE list[i + 1]
  BY UnlinkProperties
<1>2. Len(list) \in Nat /\ DOMAIN list = 1..Len(list) /\ DOMAIN u = 1..(Len(list) - 1)
  BY <1>1
<1> HIDE DEF u, p
<1>3. ASSUME NEW z \in ToSet(list) \ {e}
      PROVE  /\ Position(list, z) \in 1..Len(list) /\ Position(list, z) # p
             /\ Position(u, z) = IF Position(list, z) < p THEN Position(list, z)
                                                          ELSE Position(list, z) - 1
  <2>1. PICK j \in 1..Len(list) : z = list[j] /\ j # p
    BY <1>1, <1>2 DEF ToSet
  <2>2. Position(list, z) = j
    BY <1>2, <2>1, AtPosition
  <2>3. CASE j < p
    <3>1. j \in DOMAIN u /\ u[j] = z
      BY <1>1, <1>2, <2>1, <2>3
    <3> QED
      BY <1>1, <2>1, <2>2, <2>3, <3>1, AtPosition
  <2>4. CASE j > p
    <3>1. j - 1 \in DOMAIN u /\ u[j - 1] = z
      BY <1>1, <1>2, <2>1, <2>4
    <3> QED
      BY <1>1, <2>1, <2>2, <2>4, <3>1, AtPosition
  <2> QED
    BY <1>1, <2>1, <2>3, <2>4
<1>4. /\ Position(list, x) \in 1..Len(list) /\ Position(list, x) # p
      /\ Position(u, x) = IF Position(list, x) < p THEN Position(list, x)
                                                   ELSE Position(list, x) - 1
  BY <1>3
<1>5. /\ Position(list, y) \in 1..Len(list) /\ Position(list, y) # p
      /\ Position(u, y) = IF Position(list, y) < p THEN Position(list, y)
                                                   ELSE Position(list, y) - 1
  BY <1>3
<1> QED
  BY <1>1, <1>2, <1>4, <1>5 DEF u

\* An element in front comes before all others, which stay in their order.
LEMMA FrontOrder ==
  ASSUME NEW E, NEW list \in Seq(E), IsInjective(list), NEW e \in E \ ToSet(list),
         NEW x \in ToSet(list)
  PROVE  /\ Position(<<e>> \o list, e) < Position(<<e>> \o list, x)
         /\ \A y \in ToSet(list) : Position(<<e>> \o list, x) < Position(<<e>> \o list, y)
                                     <=> Position(list, x) < Position(list, y)
<1> DEFINE f == <<e>> \o list
<1>1. /\ f \in Seq(E) /\ Len(f) = Len(list) + 1 /\ IsInjective(f)
      /\ \A i \in 1..(Len(list) + 1) : f[i] = IF i = 1 THEN e ELSE list[i - 1]
  BY FrontProperties
<1>2. Len(list) \in Nat /\ DOMAIN list = 1..Len(list) /\ DOMAIN f = 1..(Len(list) + 1)
  BY <1>1
<1> HIDE DEF f
<1>3. Position(f, e) = 1
  <2>1. 1 \in DOMAIN f /\ f[1] = e
    BY <1>1, <1>2
  <2> QED
    BY <1>1, <2>1, AtPosition
<1>4. ASSUME NEW z \in ToSet(list)
      PROVE  Position(list, z) \in 1..Len(list) /\ Position(f, z) = Position(list, z) + 1
  <2>1. PICK j \in 1..Len(list) : z = list[j]
    BY <1>2 DEF ToSet
  <2>2. Position(list, z) = j
    BY <1>2, <2>1, AtPosition
  <2>3. j + 1 \in DOMAIN f /\ f[j + 1] = z
    BY <1>1, <1>2, <2>1
  <2>4. Position(f, z) = j + 1
    BY <1>1, <2>3, AtPosition
  <2> QED
    BY <2>1, <2>2, <2>4
<1>5. Position(list, x) \in 1..Len(list) /\ Position(f, x) = Position(list, x) + 1
  BY <1>4
<1>6. Position(f, e) < Position(f, x)
  BY <1>2, <1>3, <1>5
<1>7. ASSUME NEW y \in ToSet(list)
      PROVE  Position(f, x) < Position(f, y) <=> Position(list, x) < Position(list, y)
  BY <1>2, <1>4, <1>5
<1> QED
  BY <1>6, <1>7 DEF f

\* What list, entries and map are to RecencyCache.
Held(ent, map)  == [k \in Keys |-> IF k \in DOMAIN map THEN ent[map[k]].value ELSE NoValue]
Since(ent, map) == [k \in Keys |-> IF k \in DOMAIN map THEN ent[map[k]].timeInsert ELSE 0]
Newer(list, ent) == {<<ent[list[p[1]]].key, ent[list[p[2]]].key>> :
                       p \in {q \in (DOMAIN list) \X (DOMAIN list) : q[1] < q[2]}}

\* A key is newer than another if its element comes first.
LEMMA NewerByPosition ==
  ASSUME NEW list, NEW ent, NEW map, Consistent(list, ent, map)
  PROVE  /\ \A a, b \in DOMAIN map :
              <<a, b>> \in Newer(list, ent) <=> Position(list, map[a]) < Position(list, map[b])
         /\ \A p \in Newer(list, ent) :
              p = <<p[1], p[2]>> /\ p[1] \in DOMAIN map /\ p[2] \in DOMAIN map
<1>1. /\ list \in Seq(Elements) /\ IsInjective(list) /\ Len(list) \in Nat
      /\ DOMAIN list = 1..Len(list)
  BY DEF Consistent
<1>2. ASSUME NEW i \in DOMAIN list
      PROVE  /\ list[i] \in ToSet(list) /\ ent[list[i]].key \in DOMAIN map
             /\ map[ent[list[i]].key] = list[i] /\ Position(list, map[ent[list[i]].key]) = i
  <2>1. list[i] \in ToSet(list)
    BY DEF ToSet
  <2>2. ent[list[i]].key \in DOMAIN map /\ map[ent[list[i]].key] = list[i]
    BY <2>1 DEF Consistent
  <2> QED
    BY <1>1, <2>1, <2>2, AtPosition
<1>3. ASSUME NEW p \in Newer(list, ent)
      PROVE  /\ p = <<p[1], p[2]>> /\ p[1] \in DOMAIN map /\ p[2] \in DOMAIN map
             /\ Position(list, map[p[1]]) < Position(list, map[p[2]])
  <2>1. PICK q \in (DOMAIN list) \X (DOMAIN list) :
          q[1] < q[2] /\ p = <<ent[list[q[1]]].key, ent[list[q[2]]].key>>
    BY DEF Newer
  <2>2. q[1] \in DOMAIN list /\ q[2] \in DOMAIN list
    OBVIOUS
  <2> QED
    BY <1>2, <2>1, <2>2
<1>4. ASSUME NEW a \in DOMAIN map, NEW b \in DOMAIN map,
             Position(list, map[a]) < Position(list, map[b])
      PROVE  <<a, b>> \in Newer(list, ent)
  <2> DEFINE i == Position(list, map[a])
             j == Position(list, map[b])
  <2>1. map[a] \in ToSet(list) /\ map[b] \in ToSet(list)
        /\ ent[map[a]].key = a /\ ent[map[b]].key = b
    BY DEF Consistent
  <2>2. i \in DOMAIN list /\ j \in DOMAIN list /\ list[i] = map[a] /\ list[j] = map[b]
    BY <2>1 DEF Position, ToSet
  <2>3. i < j
    BY <1>4
  <2> HIDE DEF i, j
  <2>4. <<i, j>> \in {q \in (DOMAIN list) \X (DOMAIN list) : q[1] < q[2]}
    BY <2>2, <2>3
  <2>5. <<a, b>> = <<ent[list[<<i, j>>[1]]].key, ent[list[<<i, j>>[2]]].key>>
    BY <2>1, <2>2
  <2> QED
    BY <2>4, <2>5 DEF Newer
<1>5. ASSUME NEW a \in DOMAIN map, NEW b \in DOMAIN map, <<a, b>> \in Newer(list, ent)
      PROVE  Position(list, map[a]) < Position(list, map[b])
  BY <1>3, <1>5
<1> QED
  BY <1>3, <1>4, <1>5

\* Removing an element removes its key, for RecencyCache, and nothing else.
LEMMA RemovedView ==
  ASSUME NEW list, NEW ent, NEW map, Consistent(list, ent, map), NEW e \in ToSet(list),
         NEW u, NEW en, NEW mp, NEW key,
         key = ent[e].key, u = Unlink(list, e),
         en = Restrict(ent, DOMAIN ent \ {e}), mp = Restrict(map, DOMAIN map \ {key})
  PROVE  /\ Held(en, mp) = [k \in Keys |-> IF k \in {key} THEN NoValue ELSE Held(ent, map)[k]]
         /\ Since(en, mp) = [k \in Keys |-> IF k \in {key} THEN 0 ELSE Since(ent, map)[k]]
         /\ Newer(u, en) = {p \in Newer(list, ent) : p[1] \notin {key} /\ p[2] \notin {key}}
<1>1. Consistent(u, en, mp)
  BY RemoveConsistent
<1>2. /\ DOMAIN mp = DOMAIN map \ {key} /\ \A k \in DOMAIN mp : mp[k] = map[k]
      /\ DOMAIN en = ToSet(list) \ {e} /\ \A x \in DOMAIN en : en[x] = ent[x]
  BY DEF Restrict, Consistent
<1>3. \A k \in DOMAIN mp : map[k] \in ToSet(list) \ {e} /\ en[mp[k]] = ent[map[k]]
  BY <1>2 DEF Consistent
<1>4. Held(en, mp) = [k \in Keys |-> IF k \in {key} THEN NoValue ELSE Held(ent, map)[k]]
  BY <1>2, <1>3 DEF Held
<1>5. Since(en, mp) = [k \in Keys |-> IF k \in {key} THEN 0 ELSE Since(ent, map)[k]]
  BY <1>2, <1>3 DEF Since
<1>6. ASSUME NEW a \in DOMAIN mp, NEW b \in DOMAIN mp
      PROVE  <<a, b>> \in Newer(u, en) <=> <<a, b>> \in Newer(list, ent)
  <2>1. list \in Seq(Elements) /\ IsInjective(list)
    BY DEF Consistent
  <2>2. Position(u, map[a]) < Position(u, map[b])
          <=> Position(list, map[a]) < Position(list, map[b])
    BY <1>3, <2>1, UnlinkOrder
  <2>3. <<a, b>> \in Newer(list, ent) <=> Position(list, map[a]) < Position(list, map[b])
    BY <1>2, NewerByPosition
  <2>4. <<a, b>> \in Newer(u, en) <=> Position(u, map[a]) < Position(u, map[b])
    BY <1>1, <1>2, NewerByPosition
  <2> QED
    BY <2>2, <2>3, <2>4
<1>7. \A p \in Newer(u, en) : p = <<p[1], p[2]>> /\ p[1] \in DOMAIN mp /\ p[2] \in DOMAIN mp
  BY <1>1, NewerByPosition
<1>8. \A p \in Newer(list, ent) :
        p = <<p[1], p[2]>> /\ p[1] \in DOMAIN map /\ p[2] \in DOMAIN map
  BY NewerByPosition
<1>9. Newer(u, en) = {p \in Newer(list, ent) : p[1] \notin {key} /\ p[2] \notin {key}}
  <2>1. ASSUME NEW p \in Newer(u, en)
        PROVE  p \in Newer(list, ent) /\ p[1] # key /\ p[2] # key
    <3>1. p = <<p[1], p[2]>> /\ p[1] \in DOMAIN mp /\ p[2] \in DOMAIN mp
      BY <1>7
    <3>2. <<p[1], p[2]>> \in Newer(list, ent)
      BY <1>6, <3>1
    <3> QED
      BY <1>2, <3>1, <3>2
  <2>2. ASSUME NEW p \in Newer(list, ent), p[1] # key, p[2] # key
        PROVE  p \in Newer(u, en)
    <3>1. p = <<p[1], p[2]>> /\ p[1] \in DOMAIN mp /\ p[2] \in DOMAIN mp
      BY <1>2, <1>8, <2>2
    <3>2. <<p[1], p[2]>> \in Newer(u, en)
      BY <1>6, <3>1
    <3> QED
      BY <3>1, <3>2
  <2> QED
    BY <2>1, <2>2
<1> QED
  BY <1>4, <1>5, <1>9

\* The order in which k comes before all other keys of S.
Renewed(k, pairs, S) ==
  {p \in pairs : p[1] # k /\ p[2] # k} \cup {<<k, j>> : j \in S \ {k}}

\* It is the order of a list with the element of k in front, if the others
\* are in their order.
LEMMA RenewedOrder ==
  ASSUME NEW list, NEW ent, NEW map, Consistent(list, ent, map),
         NEW f, NEW en, NEW mp, Consistent(f, en, mp),
         NEW k, DOMAIN mp = DOMAIN map \cup {k},
         \A a, b \in DOMAIN map \ {k} :
           Position(f, mp[a]) < Position(f, mp[b])
             <=> Position(list, map[a]) < Position(list, map[b]),
         \A a \in DOMAIN map \ {k} : Position(f, mp[k]) < Position(f, mp[a])
  PROVE  Newer(f, en) = Renewed(k, Newer(list, ent), DOMAIN map)
<1>1. /\ \A a, b \in DOMAIN mp :
           <<a, b>> \in Newer(f, en) <=> Position(f, mp[a]) < Position(f, mp[b])
      /\ \A p \in Newer(f, en) : p = <<p[1], p[2]>> /\ p[1] \in DOMAIN mp /\ p[2] \in DOMAIN mp
  BY NewerByPosition
<1>2. /\ \A a, b \in DOMAIN map :
           <<a, b>> \in Newer(list, ent) <=> Position(list, map[a]) < Position(list, map[b])
      /\ \A p \in Newer(list, ent) :
           p = <<p[1], p[2]>> /\ p[1] \in DOMAIN map /\ p[2] \in DOMAIN map
  BY NewerByPosition
<1>3. \A a \in DOMAIN mp : Position(f, mp[a]) \in Int
  <2> SUFFICES ASSUME NEW a \in DOMAIN mp PROVE Position(f, mp[a]) \in Int
    OBVIOUS
  <2>1. mp[a] \in ToSet(f) /\ f \in Seq(Elements)
    BY DEF Consistent
  <2>2. Position(f, mp[a]) \in DOMAIN f
    BY <2>1 DEF Position, ToSet
  <2> QED
    BY <2>1, <2>2
<1>4. ASSUME NEW p \in Newer(f, en) PROVE p \in Renewed(k, Newer(list, ent), DOMAIN map)
  <2> DEFINE a == p[1]
             b == p[2]
  <2>1. /\ p = <<a, b>> /\ a \in DOMAIN mp /\ b \in DOMAIN mp
        /\ Position(f, mp[a]) < Position(f, mp[b])
    <3>1. p = <<a, b>> /\ a \in DOMAIN mp /\ b \in DOMAIN mp
      BY <1>1
    <3>2. <<a, b>> \in Newer(f, en)
      BY <3>1
    <3> HIDE DEF a, b
    <3> QED
      BY <1>1, <3>1, <3>2
  <2>2. Position(f, mp[a]) \in Int /\ Position(f, mp[b]) \in Int
    BY <1>3, <2>1
  <2>3. a # b
    BY <2>1, <2>2
  <2>4. CASE a = k
    BY <2>1, <2>3, <2>4 DEF Renewed
  <2>5. CASE a # k /\ b = k
    BY <2>1, <2>2, <2>5, <1>3
  <2>6. CASE a # k /\ b # k
    <3>1. a \in DOMAIN map /\ b \in DOMAIN map
      BY <2>1, <2>6
    <3>2. Position(list, map[a]) < Position(list, map[b])
      BY <2>1, <2>6, <3>1
    <3> HIDE DEF a, b
    <3>3. <<a, b>> \in Newer(list, ent)
      BY <1>2, <3>1, <3>2
    <3> USE DEF a, b
    <3> QED
      BY <2>1, <2>6, <3>3 DEF Renewed
  <2> QED
    BY <2>4, <2>5, <2>6
<1>5. ASSUME NEW p \in Renewed(k, Newer(list, ent), DOMAIN map) PROVE p \in Newer(f, en)
  <2>1. CASE p \in Newer(list, ent) /\ p[1] # k /\ p[2] # k
    <3> DEFINE a == p[1]
               b == p[2]
    <3>1. p = <<a, b>> /\ a \in DOMAIN map \ {k} /\ b \in DOMAIN map \ {k}
      BY <1>2, <2>1
    <3>2. <<a, b>> \in Newer(list, ent)
      BY <2>1, <3>1
    <3> HIDE DEF a, b
    <3>3. Position(list, map[a]) < Position(list, map[b])
      BY <1>2, <3>1, <3>2
    <3>4. Position(f, mp[a]) < Position(f, mp[b])
      BY <3>1, <3>3
    <3>5. <<a, b>> \in Newer(f, en)
      BY <1>1, <3>1, <3>4
    <3> QED
      BY <3>1, <3>5
  <2>2. CASE \E j \in DOMAIN map \ {k} : p = <<k, j>>
    BY <1>1, <2>2
  <2> QED
    BY <2>1, <2>2 DEF Renewed
<1> QED
  BY <1>4, <1>5

\* A new element in front is a new key that is newer than all others.
LEMMA AddedView ==
  ASSUME NEW list, NEW ent, NEW map, Consistent(list, ent, map),
         NEW k \in Keys \ DOMAIN map, NEW e \in Elements \ ToSet(list),
         NEW rec \in Entry, rec.key = k
  PROVE  /\ Held(Put(ent, e, rec), Put(map, k, e)) = [Held(ent, map) EXCEPT ![k] = rec.value]
         /\ Since(Put(ent, e, rec), Put(map, k, e))
              = [Since(ent, map) EXCEPT ![k] = rec.timeInsert]
         /\ Newer(<<e>> \o list, Put(ent, e, rec)) = Renewed(k, Newer(list, ent), DOMAIN map)
<1> DEFINE f  == <<e>> \o list
           en == Put(ent, e, rec)
           mp == Put(map, k, e)
<1>1. /\ en[e] = rec /\ \A x \in ToSet(list) : en[x] = ent[x]
      /\ DOMAIN mp = DOMAIN map \cup {k} /\ mp[k] = e
      /\ \A j \in DOMAIN map : mp[j] = map[j] /\ map[j] \in ToSet(list)
  BY DEF Consistent, Put
<1>2. Consistent(f, en, mp)
  BY AddConsistent
<1> HIDE DEF f, en, mp
<1>3. \A a, b \in DOMAIN map \ {k} :
        Position(f, mp[a]) < Position(f, mp[b])
          <=> Position(list, map[a]) < Position(list, map[b])
  <2> SUFFICES ASSUME NEW a \in DOMAIN map, NEW b \in DOMAIN map
               PROVE  Position(f, map[a]) < Position(f, map[b])
                        <=> Position(list, map[a]) < Position(list, map[b])
    BY <1>1
  <2>1. list \in Seq(Elements) /\ IsInjective(list)
    BY DEF Consistent
  <2> QED
    BY <1>1, <2>1, FrontOrder DEF f
<1>4. \A a \in DOMAIN map \ {k} : Position(f, mp[k]) < Position(f, mp[a])
  <2> SUFFICES ASSUME NEW a \in DOMAIN map PROVE Position(f, e) < Position(f, map[a])
    BY <1>1
  <2>1. list \in Seq(Elements) /\ IsInjective(list)
    BY DEF Consistent
  <2> QED
    BY <1>1, <2>1, FrontOrder DEF f
<1>5. Newer(f, en) = Renewed(k, Newer(list, ent), DOMAIN map)
  BY <1>1, <1>2, <1>3, <1>4, RenewedOrder
<1>6. Held(en, mp) = [Held(ent, map) EXCEPT ![k] = rec.value]
  BY <1>1 DEF Held
<1>7. Since(en, mp) = [Since(ent, map) EXCEPT ![k] = rec.timeInsert]
  BY <1>1 DEF Since
<1> QED
  BY <1>5, <1>6, <1>7 DEF f, en, mp

\* Moving the element of a key to the front makes the key newer than all others.
LEMMA MovedView ==
  ASSUME CacheInv, NEW k \in DOMAIN cache,
         NEW en, Consistent(MoveToFront(cache[k]), en, cache)
  PROVE  Newer(MoveToFront(cache[k]), en) = Renewed(k, Newer(ll, entry), DOMAIN cache)
<1> DEFINE e == cache[k]
           u == Unlink(ll, e)
           f == MoveToFront(e)
<1>1. /\ ll \in Seq(Elements) /\ IsInjective(ll) /\ e \in ToSet(ll) /\ e \in Elements
      /\ \A j \in DOMAIN cache \ {k} : cache[j] \in ToSet(ll) \ {e}
      /\ Consistent(ll, entry, cache)
  <2>1. Consistent(ll, entry, cache)
    BY DEF CacheInv
  <2>2. ll \in Seq(Elements) /\ IsInjective(ll) /\ e \in ToSet(ll)
    BY <2>1 DEF Consistent
  <2>3. e \in Elements
    BY <2>2 DEF ToSet
  <2>4. ASSUME NEW j \in DOMAIN cache, j # k PROVE cache[j] \in ToSet(ll) \ {e}
    BY <2>1, <2>4 DEF Consistent
  <2> QED
    BY <2>1, <2>2, <2>3, <2>4
<1>2. u \in Seq(Elements) /\ IsInjective(u) /\ ToSet(u) = ToSet(ll) \ {e}
  BY <1>1, UnlinkProperties
<1>3. f = <<e>> \o u
  BY DEF MoveToFront
<1>4. \A a, b \in DOMAIN cache \ {k} :
        Position(f, cache[a]) < Position(f, cache[b])
          <=> Position(ll, cache[a]) < Position(ll, cache[b])
  <2> SUFFICES ASSUME NEW a \in DOMAIN cache \ {k}, NEW b \in DOMAIN cache \ {k}
               PROVE  Position(f, cache[a]) < Position(f, cache[b])
                        <=> Position(ll, cache[a]) < Position(ll, cache[b])
    OBVIOUS
  <2>1. cache[a] \in ToSet(ll) \ {e} /\ cache[b] \in ToSet(ll) \ {e}
    BY <1>1
  <2>2. Position(u, cache[a]) < Position(u, cache[b])
          <=> Position(ll, cache[a]) < Position(ll, cache[b])
    BY <1>1, <2>1, UnlinkOrder
  <2> HIDE DEF u, f, e
  <2>3. Position(f, cache[a]) < Position(f, cache[b])
          <=> Position(u, cache[a]) < Position(u, cache[b])
    BY <1>1, <1>2, <1>3, <2>1, FrontOrder
  <2> QED
    BY <2>2, <2>3
<1>5. \A a \in DOMAIN cache \ {k} : Position(f, cache[k]) < Position(f, cache[a])
  <2> SUFFICES ASSUME NEW a \in DOMAIN cache \ {k} PROVE Position(f, e) < Position(f, cache[a])
    OBVIOUS
  <2>1. cache[a] \in ToSet(ll) \ {e}
    BY <1>1
  <2> HIDE DEF u, f, e
  <2> QED
    BY <1>1, <1>2, <1>3, <2>1, FrontOrder
<1>6. DOMAIN cache = DOMAIN cache \cup {k}
  OBVIOUS
<1>7. Consistent(f, en, cache)
  OBVIOUS
<1> HIDE DEF f
<1>8. Newer(f, en) = Renewed(k, Newer(ll, entry), DOMAIN cache)
  BY <1>1, <1>4, <1>5, <1>6, <1>7, RenewedOrder
<1> QED
  BY <1>8 DEF f

\* The key that RecencyCache calls the oldest is that of the last element.
LEMMA LastIsOldest ==
  ASSUME NEW list, NEW ent, NEW map, Consistent(list, ent, map), list # <<>>
  PROVE  Recency!Oldest(DOMAIN map, Newer(list, ent)) = ent[Last(list)].key
<1> DEFINE S == DOMAIN map
           N == Newer(list, ent)
           o == ent[Last(list)].key
<1>1. /\ list \in Seq(Elements) /\ IsInjective(list) /\ Len(list) \in Nat \ {0}
      /\ DOMAIN list = 1..Len(list)
  BY EmptySeq DEF Consistent
<1>2. Last(list) = list[Len(list)] /\ Len(list) \in DOMAIN list
  BY <1>1 DEF Last
<1>3. Last(list) \in ToSet(list) /\ Position(list, Last(list)) = Len(list)
  BY <1>1, <1>2, AtPosition DEF ToSet
<1>4. o \in S /\ map[o] = Last(list)
  BY <1>3 DEF Consistent
<1>5. ASSUME NEW k \in S
      PROVE  /\ Position(list, map[k]) \in 1..Len(list) /\ list[Position(list, map[k])] = map[k]
             /\ ent[map[k]].key = k
             /\ \A j \in S : <<k, j>> \in N <=> Position(list, map[k]) < Position(list, map[j])
  <2>1. map[k] \in ToSet(list) /\ ent[map[k]].key = k
    BY DEF Consistent
  <2>2. Position(list, map[k]) \in DOMAIN list /\ list[Position(list, map[k])] = map[k]
    BY <2>1 DEF Position, ToSet
  <2> QED
    BY <1>1, <2>1, <2>2, NewerByPosition
<1> HIDE DEF S, N, o
<1>6. \A j \in S : <<o, j>> \notin N
  <2> SUFFICES ASSUME NEW j \in S PROVE <<o, j>> \notin N
    OBVIOUS
  <2>1. Position(list, map[j]) \in 1..Len(list)
    BY <1>5
  <2>2. <<o, j>> \in N <=> Len(list) < Position(list, map[j])
    BY <1>3, <1>4, <1>5
  <2> QED
    BY <1>1, <2>1, <2>2
<1>7. ASSUME NEW k \in S, \A j \in S : <<k, j>> \notin N PROVE k = o
  <2>1. /\ Position(list, map[k]) \in 1..Len(list) /\ list[Position(list, map[k])] = map[k]
        /\ ~(Position(list, map[k]) < Len(list))
    BY <1>3, <1>4, <1>5, <1>7
  <2>2. Position(list, map[k]) = Len(list)
    BY <1>1, <2>1
  <2>3. map[k] = map[o]
    BY <1>2, <1>4, <2>1, <2>2
  <2> QED
    BY <1>4, <1>5, <2>3
<1>8. (CHOOSE k \in S : \A j \in S : <<k, j>> \notin N) = o
  BY <1>4, <1>6, <1>7
<1> QED
  BY <1>8 DEF Recency!Oldest, S, N, o

\* The list is as long as there are keys in the map.
LEMMA LengthCounts ==
  ASSUME NEW list, NEW ent, NEW map, Consistent(list, ent, map)
  PROVE  Cardinality(DOMAIN map) = Len(list)
<1> DEFINE g == [i \in 1..Len(list) |-> ent[list[i]].key]
<1>1. list \in Seq(Elements) /\ IsInjective(list) /\ Len(list) \in Nat /\ DOMAIN list = 1..Len(list)
  BY DEF Consistent
<1>2. ASSUME NEW i \in 1..Len(list)
      PROVE  g[i] \in DOMAIN map /\ map[g[i]] = list[i]
  <2>1. list[i] \in ToSet(list)
    BY <1>1 DEF ToSet
  <2> QED
    BY <2>1 DEF Consistent
<1>3. g \in [1..Len(list) -> DOMAIN map]
  BY <1>2
<1>4. \A i, j \in 1..Len(list) : g[i] = g[j] => i = j
  <2> SUFFICES ASSUME NEW i \in 1..Len(list), NEW j \in 1..Len(list), g[i] = g[j] PROVE i = j
    OBVIOUS
  <2>1. list[i] = list[j]
    BY <1>2
  <2> QED
    BY <1>1, <2>1 DEF IsInjective
<1>5. \A k \in DOMAIN map : \E i \in 1..Len(list) : g[i] = k
  <2> SUFFICES ASSUME NEW k \in DOMAIN map PROVE \E i \in 1..Len(list) : g[i] = k
    OBVIOUS
  <2>1. map[k] \in ToSet(list) /\ ent[map[k]].key = k
    BY DEF Consistent
  <2>2. PICK i \in 1..Len(list) : list[i] = map[k]
    BY <1>1, <2>1 DEF ToSet
  <2> QED
    BY <2>1, <2>2
<1> HIDE DEF g
<1>6. g \in Bijection(1..Len(list), DOMAIN map)
  BY <1>3, <1>4, <1>5, Fun_IsBij
<1>7. ExistsBijection(1..Len(list), DOMAIN map)
  BY <1>6 DEF ExistsBijection
<1>8. IsFiniteSet(1..Len(list)) /\ Cardinality(1..Len(list)) = Len(list)
  BY <1>1, FS_Interval
<1> QED
  BY <1>7, <1>8, FS_Bijection

\* What the state of the cache is to RecencyCache.
LEMMA RecencyState ==
  ASSUME CacheInv
  PROVE  /\ Recency!Present = DOMAIN cache
         /\ \A k : Recency!Newest(k) = Renewed(k, Newer(ll, entry), DOMAIN cache)
         /\ \A k \in DOMAIN cache :
              /\ Held(entry, cache)[k] = entry[cache[k]].value
              /\ Recency!TooOld(k) <=> Expired(cache[k])
<1>1. \A k \in DOMAIN cache : k \in Keys /\ entry[cache[k]].value # NoValue
  BY CacheEntry, ConstantsAssumption DEF Entry
<1>2. Recency!Present = DOMAIN cache
  BY <1>1 DEF Recency!Present
<1>3. ASSUME NEW k PROVE Recency!Newest(k) = Renewed(k, Newer(ll, entry), DOMAIN cache)
  BY <1>2 DEF Recency!Newest, Recency!Without, Renewed, Newer
<1>4. ASSUME NEW k \in DOMAIN cache PROVE Recency!TooOld(k) <=> Expired(cache[k])
  BY <1>1 DEF Recency!TooOld, Expired
<1>5. ASSUME NEW k \in DOMAIN cache PROVE Held(entry, cache)[k] = entry[cache[k]].value
  BY <1>1 DEF Held
<1> QED
  BY <1>2, <1>3, <1>4, <1>5

\* A purge of RecencyCache, in terms of the state before it and after it.
Purges(S, h, s, pairs, h2, s2, pairs2, gone) ==
  /\ h2 = [k \in Keys |-> IF k \in S THEN NoValue ELSE h[k]]
  /\ s2 = [k \in Keys |-> IF k \in S THEN 0 ELSE s[k]]
  /\ pairs2 = {p \in pairs : p[1] \notin S /\ p[2] \notin S}
  /\ gone = {<<k, h[k]>> : k \in S}

\* A step that removes nothing.
LEMMA NothingPurged ==
  ASSUME NEW h, h \in [Keys -> Values \cup {NoValue}], NEW s, s \in [Keys -> Nat], NEW pairs
  PROVE  Purges({}, h, s, pairs, h, s, pairs, {})
BY DEF Purges

\* A step that removes the element of a key from a list, entries and map.
LEMMA OnePurged ==
  ASSUME NEW list, NEW ent, NEW map, Consistent(list, ent, map), NEW e \in ToSet(list),
         RemoveElement(e, list, ent, map)
  PROVE  Purges({ent[e].key}, Held(ent, map), Since(ent, map), Newer(list, ent),
                Held(entry', cache'), Since(entry', cache'), Newer(ll', entry'), ToSet(evicted'))
<1> DEFINE key == ent[e].key
           h   == Held(ent, map)
           s   == Since(ent, map)
           prs == Newer(list, ent)
<1>1. /\ ll' = Unlink(list, e) /\ entry' = Restrict(ent, DOMAIN ent \ {e})
      /\ cache' = Restrict(map, DOMAIN map \ {key}) /\ evicted' = <<<<key, ent[e].value>>>>
  BY DEF RemoveElement
<1>2. /\ Held(entry', cache') = [k \in Keys |-> IF k \in {key} THEN NoValue ELSE h[k]]
      /\ Since(entry', cache') = [k \in Keys |-> IF k \in {key} THEN 0 ELSE s[k]]
      /\ Newer(ll', entry') = {p \in prs : p[1] \notin {key} /\ p[2] \notin {key}}
  BY <1>1, RemovedView
<1>3. key \in Keys /\ key \in DOMAIN map /\ map[key] = e
  BY DEF Consistent
<1>4. h[key] = ent[e].value
  BY <1>3 DEF Held
<1>5. ToSet(evicted') = {<<k, h[k]>> : k \in {key}}
  BY <1>1, <1>4 DEF ToSet
<1> HIDE DEF key, h, s, prs
<1>6. Purges({key}, h, s, prs,
             Held(entry', cache'), Since(entry', cache'), Newer(ll', entry'), ToSet(evicted'))
  BY <1>2, <1>5 DEF Purges
<1> QED
  BY <1>6 DEF key, h, s, prs

\* The entry of one key leaves.
LEMMA KeyLeaves ==
  ASSUME CacheInv, NEW k \in DOMAIN cache, RemoveElement(cache[k], ll, entry, cache)
  PROVE  Purges({k}, Held(entry, cache), Since(entry, cache), Newer(ll, entry),
                Held(entry', cache'), Since(entry', cache'), Newer(ll', entry'), ToSet(evicted'))
<1>1. cache[k] \in ToSet(ll) /\ entry[cache[k]].key = k /\ Consistent(ll, entry, cache)
  BY CacheEntry DEF CacheInv
<1> QED
  BY <1>1, OnePurged

\* Cardinality, by the two ways in which the modules reach it.
LEMMA SameCardinality == ASSUME NEW S PROVE Recency!Cardinality(S) = Cardinality(S)
BY DEF Recency!Cardinality, Cardinality

\* A call of Add, to RecencyCache.
LEMMA AddShown ==
  ASSUME CacheInv, NEW k \in Keys, NEW v \in Values, reply' = NoValue, now' = now,
         NEW S,
         S = IF Size # 0 /\ Cardinality(DOMAIN cache \cup {k}) > Size
               THEN {Recency!Oldest(DOMAIN cache \cup {k},
                                    Renewed(k, Newer(ll, entry), DOMAIN cache))}
               ELSE {},
         Purges(S, [Held(entry, cache) EXCEPT ![k] = v],
                [Since(entry, cache) EXCEPT ![k] = epochNow],
                Renewed(k, Newer(ll, entry), DOMAIN cache),
                Held(entry', cache'), Since(entry', cache'), Newer(ll', entry'), ToSet(evicted'))
  PROVE  Recency!Add(k, v)
<1>1. /\ Recency!Present = DOMAIN cache
      /\ Recency!Newest(k) = Renewed(k, Newer(ll, entry), DOMAIN cache)
  BY RecencyState
<1>2. Purges(IF Size # 0 /\ Recency!Cardinality(Recency!Present \cup {k}) > Size
               THEN {Recency!Oldest(Recency!Present \cup {k}, Recency!Newest(k))} ELSE {},
             [Held(entry, cache) EXCEPT ![k] = v],
             [Since(entry, cache) EXCEPT ![k] = IF Expires THEN now ELSE 0],
             Recency!Newest(k),
             Held(entry', cache'), Since(entry', cache'), Newer(ll', entry'), ToSet(evicted'))
  BY <1>1, SameCardinality DEF epochNow
<1> QED
  BY <1>2, Zenon DEF Recency!Add, Recency!Purge, Purges, Held, Since, Newer

\* The calls that take out one entry.
LEMMA RemovalShown ==
  ASSUME CacheInv, NEW k \in DOMAIN cache, RemoveElement(cache[k], ll, entry, cache),
         reply' = NoValue, now' = now
  PROVE  /\ Recency!Remove({k} \cap Recency!Present)
         /\ Expired(cache[k]) => Recency!Get(k)
         /\ cache[k] = Last(ll) => Recency!RemoveOldest
<1>1. k \in Keys /\ Recency!Present = DOMAIN cache /\ {k} \cap DOMAIN cache = {k}
      /\ (Recency!TooOld(k) <=> Expired(cache[k])) /\ {k} \cap Recency!Present = {k}
  BY RecencyState, CacheEntry
<1>2. Recency!Remove({k} \cap Recency!Present)
  BY <1>1, KeyLeaves DEF Recency!Remove, Recency!Purge, Purges, Held, Since, Newer
<1>3. ASSUME Expired(cache[k]) PROVE Recency!Get(k)
  BY <1>1, <1>3, KeyLeaves
     DEF Recency!Get, Recency!Purge, Purges, Held, Since, Newer
<1>4. ASSUME cache[k] = Last(ll) PROVE Recency!RemoveOldest
  <2>1. Consistent(ll, entry, cache) /\ cache[k] \in ToSet(ll) /\ entry[cache[k]].key = k
    BY CacheEntry DEF CacheInv
  <2>2. ll # <<>>
    BY <2>1 DEF ToSet
  <2>3. Recency!Oldest(DOMAIN cache, Newer(ll, entry)) = k
    BY <1>4, <2>1, <2>2, LastIsOldest
  <2>4. Purges(IF Recency!Present = {} THEN {}
                 ELSE {Recency!Oldest(Recency!Present, Newer(ll, entry))},
               Held(entry, cache), Since(entry, cache), Newer(ll, entry),
               Held(entry', cache'), Since(entry', cache'), Newer(ll', entry'), ToSet(evicted'))
    BY <1>1, <2>3, KeyLeaves
  <2> QED
    BY <2>4 DEF Recency!RemoveOldest, Recency!Remove, Recency!Purge, Purges, Held, Since, Newer
<1> QED
  BY <1>2, <1>3, <1>4

\* The types of what RecencyCache sees.
LEMMA ViewTypes ==
  ASSUME NEW list, NEW ent, NEW map, Consistent(list, ent, map)
  PROVE  /\ Held(ent, map) \in [Keys -> Values \cup {NoValue}]
         /\ Since(ent, map) \in [Keys -> Nat]
<1>1. \A k \in DOMAIN map : ent[map[k]] \in Entry
  BY DEF Consistent
<1>2. \A k \in DOMAIN map : ent[map[k]].value \in Values /\ ent[map[k]].timeInsert \in Nat
  BY <1>1 DEF Entry
<1> QED
  BY <1>2 DEF Held, Since

\* Add of a new key.
LEMMA AddNewShown ==
  ASSUME CacheInv, NEW k \in Keys, NEW v \in Values, AddNew(k, v)
  PROVE  Recency!Add(k, v)
<1> DEFINE e    == CHOOSE x \in Elements : x \notin DOMAIN entry
           rec  == [key |-> k, value |-> v, timeInsert |-> epochNow]
           list == <<e>> \o ll
           ent  == Put(entry, e, rec)
           map  == Put(cache, k, e)
           old  == ent[Last(list)].key
           S    == IF Size # 0 /\ Len(list) > Size THEN {old} ELSE {}
<1>1. /\ Consistent(ll, entry, cache) /\ k \in Keys \ DOMAIN cache /\ now \in Nat
      /\ reply' = NoValue /\ now' = now /\ Len(ll) \in Nat /\ DOMAIN entry = ToSet(ll)
  BY ConstantsAssumption DEF CacheInv, AddNew, Consistent
<1>2. e \in Elements \ ToSet(ll)
  BY <1>1, FreshElement
<1>3. rec \in Entry /\ rec.key = k /\ rec.value = v /\ rec.timeInsert = epochNow
  BY <1>1 DEF Entry, epochNow
<1>4. IF Size # 0 /\ Len(list) > Size
        THEN RemoveElement(Last(list), list, ent, map)
        ELSE ll' = list /\ entry' = ent /\ cache' = map /\ evicted' = <<>>
  BY DEF AddNew
<1>5. DOMAIN map = DOMAIN cache \cup {k}
  BY DEF Put
<1> HIDE DEF e, rec
<1>6. /\ Consistent(list, ent, map) /\ Last(list) \in ToSet(list) /\ Len(list) = Len(ll) + 1
  BY <1>1, <1>2, <1>3, AddConsistent
<1>7. /\ Held(ent, map) = [Held(entry, cache) EXCEPT ![k] = v]
      /\ Since(ent, map) = [Since(entry, cache) EXCEPT ![k] = epochNow]
      /\ Newer(list, ent) = Renewed(k, Newer(ll, entry), DOMAIN cache)
  BY <1>1, <1>2, <1>3, AddedView
<1> HIDE DEF list, ent, map
<1>8. Cardinality(DOMAIN cache \cup {k}) = Len(list)
  BY <1>5, <1>6, LengthCounts
<1>9. Recency!Oldest(DOMAIN cache \cup {k}, Renewed(k, Newer(ll, entry), DOMAIN cache)) = old
  <2>1. list # <<>>
    BY <1>1, <1>6
  <2> QED
    BY <1>5, <1>6, <1>7, <2>1, LastIsOldest
<1>10. Purges(S, Held(ent, map), Since(ent, map), Newer(list, ent),
              Held(entry', cache'), Since(entry', cache'), Newer(ll', entry'), ToSet(evicted'))
  <2>1. CASE Size # 0 /\ Len(list) > Size
    <3>1. RemoveElement(Last(list), list, ent, map) /\ S = {ent[Last(list)].key}
      BY <1>4, <2>1
    <3> QED
      BY <1>6, <3>1, OnePurged
  <2>2. CASE ~(Size # 0 /\ Len(list) > Size)
    <3>1. ll' = list /\ entry' = ent /\ cache' = map /\ evicted' = <<>> /\ S = {}
      BY <1>4, <2>2
    <3>2. ToSet(evicted') = {}
      BY <3>1 DEF ToSet
    <3>3. Purges({}, Held(ent, map), Since(ent, map), Newer(list, ent),
                 Held(ent, map), Since(ent, map), Newer(list, ent), {})
      BY <1>6, ViewTypes, NothingPurged
    <3> QED
      BY <3>1, <3>2, <3>3
  <2> QED
    BY <2>1, <2>2
<1>11. S = IF Size # 0 /\ Cardinality(DOMAIN cache \cup {k}) > Size
             THEN {Recency!Oldest(DOMAIN cache \cup {k},
                                  Renewed(k, Newer(ll, entry), DOMAIN cache))}
             ELSE {}
  BY <1>8, <1>9
<1> HIDE DEF S
<1>12. Purges(S, [Held(entry, cache) EXCEPT ![k] = v],
              [Since(entry, cache) EXCEPT ![k] = epochNow],
              Renewed(k, Newer(ll, entry), DOMAIN cache),
              Held(entry', cache'), Since(entry', cache'), Newer(ll', entry'), ToSet(evicted'))
  BY <1>7, <1>10
<1> QED
  BY <1>1, <1>11, <1>12, AddShown

\* Add of a key that is there.
LEMMA AddExistingShown ==
  ASSUME CacheInv, NEW k \in Keys, NEW v \in Values, AddExisting(k, v)
  PROVE  Recency!Add(k, v)
<1>1. /\ k \in DOMAIN cache /\ ll' = MoveToFront(cache[k])
      /\ entry' = [entry EXCEPT ![cache[k]].value = v, ![cache[k]].timeInsert = epochNow]
      /\ evicted' = <<>> /\ reply' = NoValue /\ cache' = cache /\ now' = now
  BY DEF AddExisting
<1>2. Consistent(ll, entry, cache) /\ Consistent(ll', entry', cache')
  BY KeepStep DEF CacheInv
<1>3. Newer(ll', entry') = Renewed(k, Newer(ll, entry), DOMAIN cache)
  <2>1. Consistent(MoveToFront(cache[k]), entry', cache)
    BY <1>1, <1>2
  <2>2. Newer(MoveToFront(cache[k]), entry') = Renewed(k, Newer(ll, entry), DOMAIN cache)
    BY <1>1, <2>1, MovedView
  <2> QED
    BY <1>1, <2>2
<1>4. /\ \A j \in DOMAIN cache : cache[j] \in DOMAIN entry /\ entry[cache[j]] \in Entry
      /\ \A j \in DOMAIN cache : j # k => cache[j] # cache[k]
  BY <1>1, <1>2 DEF Consistent
<1>5. /\ entry'[cache[k]].value = v /\ entry'[cache[k]].timeInsert = epochNow
      /\ \A j \in DOMAIN cache : j # k => entry'[cache[j]] = entry[cache[j]]
  BY <1>1, <1>4 DEF Entry
<1>6. Held(entry', cache') = [Held(entry, cache) EXCEPT ![k] = v]
      /\ Since(entry', cache') = [Since(entry, cache) EXCEPT ![k] = epochNow]
  <2>1. k \in DOMAIN cache /\ cache' = cache
    BY <1>1
  <2>2. Held(entry', cache') = [Held(entry, cache) EXCEPT ![k] = v]
    BY <1>5, <2>1 DEF Held
  <2>3. Since(entry', cache') = [Since(entry, cache) EXCEPT ![k] = epochNow]
    BY <1>5, <2>1 DEF Since
  <2> QED
    BY <2>2, <2>3
<1>7. ToSet(evicted') = {}
  BY <1>1 DEF ToSet
<1>8. Purges({}, [Held(entry, cache) EXCEPT ![k] = v],
             [Since(entry, cache) EXCEPT ![k] = epochNow],
             Renewed(k, Newer(ll, entry), DOMAIN cache),
             Held(entry', cache'), Since(entry', cache'), Newer(ll', entry'), ToSet(evicted'))
  <2>1. Purges({}, Held(entry', cache'), Since(entry', cache'), Newer(ll', entry'),
               Held(entry', cache'), Since(entry', cache'), Newer(ll', entry'), {})
    BY <1>2, ViewTypes, NothingPurged
  <2> QED
    BY <1>3, <1>6, <1>7, <2>1
<1>9. ~(Size # 0 /\ Cardinality(DOMAIN cache \cup {k}) > Size)
  <2>1. DOMAIN cache \cup {k} = DOMAIN cache /\ Cardinality(DOMAIN cache) = Len(ll)
    BY <1>1, <1>2, LengthCounts
  <2>2. Len(ll) \in Nat
    BY <1>2 DEF Consistent
  <2>3. Len(ll) # 0
    BY <1>1, <1>2 DEF Consistent, ToSet
  <2> QED
    BY <2>1, <2>2, <2>3, ConstantsAssumption DEF CacheInv
<1> QED
  BY <1>1, <1>8, <1>9, AddShown

\* Get of a value.
LEMMA GetHitShown ==
  ASSUME CacheInv, NEW k \in Keys, GetHit(k)
  PROVE  Recency!Get(k)
<1>1. /\ k \in DOMAIN cache /\ ~Expired(cache[k]) /\ ll' = MoveToFront(cache[k])
      /\ reply' = entry[cache[k]].value /\ evicted' = <<>>
      /\ entry' = entry /\ cache' = cache /\ now' = now
  BY DEF GetHit
<1>2. Consistent(ll, entry, cache) /\ Consistent(ll', entry', cache')
  BY KeepStep DEF CacheInv
<1>3. Newer(ll', entry') = Renewed(k, Newer(ll, entry), DOMAIN cache)
  <2>1. Consistent(MoveToFront(cache[k]), entry', cache)
    BY <1>1, <1>2
  <2>2. Newer(MoveToFront(cache[k]), entry') = Renewed(k, Newer(ll, entry), DOMAIN cache)
    BY <1>1, <2>1, MovedView
  <2> QED
    BY <1>1, <2>2
<1>4. /\ Recency!Present = DOMAIN cache /\ ~Recency!TooOld(k)
      /\ Recency!Newest(k) = Renewed(k, Newer(ll, entry), DOMAIN cache)
      /\ Held(entry, cache)[k] = entry[cache[k]].value
  BY <1>1, RecencyState
<1>5. Purges({}, Held(entry, cache), Since(entry, cache), Recency!Newest(k),
             Held(entry', cache'), Since(entry', cache'), Newer(ll', entry'), ToSet(evicted'))
  <2>1. Held(entry', cache') = Held(entry, cache) /\ Since(entry', cache') = Since(entry, cache)
        /\ ToSet(evicted') = {}
    BY <1>1 DEF ToSet
  <2>2. Purges({}, Held(entry, cache), Since(entry, cache), Recency!Newest(k),
               Held(entry, cache), Since(entry, cache), Recency!Newest(k), {})
    BY <1>2, ViewTypes, NothingPurged
  <2> QED
    BY <1>3, <1>4, <2>1, <2>2
<1> QED
  BY <1>1, <1>4, <1>5 DEF Recency!Get, Recency!Purge, Purges, Held, Since, Newer

\* A new value for a key.
LEMMA UpdateShown ==
  ASSUME CacheInv, NEW k \in Keys, NEW v \in Values, UpdateElement(k, v)
  PROVE  Recency!UpdateElement(k, v)
<1>1. /\ k \in DOMAIN cache /\ entry' = [entry EXCEPT ![cache[k]].value = v]
      /\ evicted' = <<>> /\ reply' = NoValue /\ ll' = ll /\ cache' = cache /\ now' = now
  BY DEF UpdateElement
<1>2. Consistent(ll, entry, cache) /\ Consistent(ll', entry', cache')
  BY KeepStep DEF CacheInv
<1>3. /\ \A j \in DOMAIN cache : cache[j] \in DOMAIN entry /\ entry[cache[j]] \in Entry
      /\ \A j \in DOMAIN cache : j # k => cache[j] # cache[k]
      /\ \A i \in DOMAIN ll : ll[i] \in DOMAIN entry /\ entry[ll[i]] \in Entry
  BY <1>1, <1>2 DEF Consistent, ToSet
<1>4. /\ entry'[cache[k]].value = v /\ entry'[cache[k]].timeInsert = entry[cache[k]].timeInsert
      /\ \A j \in DOMAIN cache : j # k => entry'[cache[j]] = entry[cache[j]]
      /\ \A i \in DOMAIN ll : entry'[ll[i]].key = entry[ll[i]].key
  BY <1>1, <1>3 DEF Entry
<1>5. Held(entry', cache') = [Held(entry, cache) EXCEPT ![k] = v]
  <2>1. k \in DOMAIN cache /\ cache' = cache
    BY <1>1
  <2> QED
    BY <1>4, <2>1 DEF Held
<1>6. Since(entry', cache') = Since(entry, cache)
  BY <1>1, <1>4 DEF Since
<1>7. Newer(ll', entry') = Newer(ll, entry)
  BY <1>1, <1>4 DEF Newer
<1>8. Recency!Present = DOMAIN cache
  BY RecencyState
<1>9. Purges({}, IF k \in Recency!Present THEN [Held(entry, cache) EXCEPT ![k] = v]
                 ELSE Held(entry, cache),
             Since(entry, cache), Newer(ll, entry),
             Held(entry', cache'), Since(entry', cache'), Newer(ll', entry'), ToSet(evicted'))
  <2>1. ToSet(evicted') = {}
    BY <1>1 DEF ToSet
  <2>2. Purges({}, Held(entry', cache'), Since(entry', cache'), Newer(ll', entry'),
               Held(entry', cache'), Since(entry', cache'), Newer(ll', entry'), {})
    BY <1>2, ViewTypes, NothingPurged
  <2> QED
    BY <1>1, <1>5, <1>6, <1>7, <1>8, <2>1, <2>2
<1> QED
  BY <1>1, <1>9 DEF Recency!UpdateElement, Recency!Purge, Purges, Held, Since, Newer

\* A call that finds nothing.
LEMMA MissShown ==
  ASSUME CacheInv, NEW k \in Keys, Miss(k)
  PROVE  Recency!Get(k)
<1>1. /\ k \notin DOMAIN cache /\ evicted' = <<>> /\ reply' = NoValue
      /\ ll' = ll /\ entry' = entry /\ cache' = cache /\ now' = now
  BY DEF Miss, listVars
<1>2. Recency!Present = DOMAIN cache /\ Consistent(ll, entry, cache)
  BY RecencyState DEF CacheInv
<1>3. Purges({k} \cap Recency!Present, Held(entry, cache), Since(entry, cache), Newer(ll, entry),
             Held(entry', cache'), Since(entry', cache'), Newer(ll', entry'), ToSet(evicted'))
  <2>1. {k} \cap Recency!Present = {} /\ ToSet(evicted') = {}
    BY <1>1, <1>2 DEF ToSet
  <2>2. Purges({}, Held(entry, cache), Since(entry, cache), Newer(ll, entry),
               Held(entry, cache), Since(entry, cache), Newer(ll, entry), {})
    BY <1>2, ViewTypes, NothingPurged
  <2> QED
    BY <1>1, <2>1, <2>2
<1> QED
  BY <1>1, <1>2, <1>3 DEF Recency!Get, Recency!Purge, Purges, Held, Since, Newer

\* Clear.
LEMMA ClearShown ==
  ASSUME CacheInv, Clear
  PROVE  Recency!Remove(Recency!Present)
<1>1. /\ ll' = <<>> /\ entry' = <<>> /\ cache' = <<>> /\ reply' = NoValue /\ now' = now
      /\ Reported /\ Consistent(ll, entry, cache)
  BY ClearStep DEF Clear, CacheInv
<1>2. /\ Recency!Present = DOMAIN cache
      /\ \A k \in DOMAIN cache : Held(entry, cache)[k] = entry[cache[k]].value
  BY RecencyState
<1>3. ToSet(evicted') = {<<k, Held(entry, cache)[k]>> : k \in DOMAIN cache}
  BY <1>1, <1>2 DEF Reported, Leaving
<1>4. Newer(ll', entry') = {}
  BY <1>1 DEF Newer
<1>5. \A p \in Newer(ll, entry) : p[1] \in DOMAIN cache
  BY <1>1, NewerByPosition
<1>6. Held(entry', cache') = [k \in Keys |-> IF k \in DOMAIN cache THEN NoValue
                                             ELSE Held(entry, cache)[k]]
  BY <1>1 DEF Held
<1>7. Since(entry', cache') = [k \in Keys |-> IF k \in DOMAIN cache THEN 0
                                              ELSE Since(entry, cache)[k]]
  BY <1>1 DEF Since
<1>8. Purges(Recency!Present, Held(entry, cache), Since(entry, cache), Newer(ll, entry),
             Held(entry', cache'), Since(entry', cache'), Newer(ll', entry'), ToSet(evicted'))
  BY <1>2, <1>3, <1>4, <1>5, <1>6, <1>7 DEF Purges
<1> QED
  BY <1>1, <1>8 DEF Recency!Remove, Recency!Purge, Purges, Held, Since, Newer

\* Every step of the cache is one of RecencyCache, or changes nothing of it.
LEMMA RecencyStep ==
  ASSUME CacheInv, [Next]_vars
  PROVE  [Recency!Next]_(Recency!cacheVars)
<1>1. ASSUME NEW k \in Keys, NEW v \in Values, AddExisting(k, v) \/ AddNew(k, v)
      PROVE  Recency!Add(k, v)
  BY <1>1, AddExistingShown, AddNewShown
<1>2. ASSUME NEW k \in Keys, NEW v \in Values, UpdateElement(k, v)
      PROVE  Recency!UpdateElement(k, v)
  BY <1>2, UpdateShown
<1>3. ASSUME NEW k \in Keys, GetHit(k) \/ GetExpired(k) \/ Miss(k)
      PROVE  Recency!Get(k)
  BY <1>3, GetHitShown, MissShown, RemovalShown DEF GetExpired
<1>4. ASSUME NEW k \in Keys, RemoveKey(k)
      PROVE  Recency!Remove({k} \cap Recency!Present)
  BY <1>4, RemovalShown DEF RemoveKey
<1>5. CASE RemoveOldest
  <2> DEFINE k == entry[Last(ll)].key
  <2>1. k \in DOMAIN cache /\ cache[k] = Last(ll)
    BY <1>5, OldestElement DEF RemoveOldest
  <2>2. RemoveElement(cache[k], ll, entry, cache) /\ now' = now /\ reply' = NoValue
    BY <1>5, <2>1 DEF RemoveOldest
  <2> HIDE DEF k
  <2>3. Recency!RemoveOldest
    BY <2>1, <2>2, RemovalShown
  <2> QED
    BY <2>3 DEF Recency!Next
<1>6. CASE ClockMoves
  <2>1. now' \in Nat /\ UNCHANGED <<ll, entry, cache, reply, evicted>>
    BY <1>6, ConstantsAssumption DEF ClockMoves, listVars
  <2> QED
    BY <2>1 DEF Recency!Next, Recency!PassTime
<1>7. CASE UNCHANGED vars
  BY <1>7 DEF vars, listVars, Recency!cacheVars
<1> QED
  BY <1>1, <1>2, <1>3, <1>4, <1>5, <1>6, <1>7, ClearShown DEF Next, Recency!Next

(* The cache implements RecencyCache, for any keys, values, size, expiry   *)
(* and clock: what makes room is the least recently used entry, by Add and *)
(* Get but not by UpdateElement, and no expired value is returned.         *)
THEOREM CacheImplementsRecency == Spec => ImplementsRecencyCache
<1>1. Init => Recency!Init
  <2> SUFFICES ASSUME Init PROVE Recency!Init
    OBVIOUS
  <2>1. ll = <<>> /\ entry = <<>> /\ cache = <<>> /\ evicted = <<>> /\ reply = NoValue
        /\ now \in Nat
    BY ConstantsAssumption DEF Init
  <2>2. ToSet(evicted) = {}
    BY <2>1 DEF ToSet
  <2> QED
    BY <2>1, <2>2 DEF Recency!Init
<1>2. CacheInv /\ [Next]_vars => [Recency!Next]_(Recency!cacheVars)
  BY RecencyStep
<1> QED
  BY <1>1, <1>2, CacheInvariant, PTL DEF Spec, ImplementsRecencyCache, Recency!Spec
=============================================================================
