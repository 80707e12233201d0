-------------------------- MODULE CimdCacheProofs --------------------------
(***************************************************************************)
(* What the methods of cimdCache keep, for every capacity: the lemmas that *)
(* CimdResolverProofs and ClientAssertionProofs rest on.                   *)
(***************************************************************************)
EXTENDS CimdCache, SequenceTheorems, FiniteSetTheorems, TLAPS

\* A new cache is empty and well formed (newCIMDCache).
LEMMA NewCacheWF == CacheWF(newCIMDCache) /\ DOMAIN newCIMDCache.entries = {}
  BY CapacityAssumption DEF CacheWF, newCIMDCache

\* The map has as many entries as the order has places.
LEMMA OrderCounts ==
    ASSUME NEW c, CacheWF(c)
    PROVE  Cardinality(DOMAIN c.entries) = Len(c.order)
<1>1. Len(c.order) \in Nat /\ c.order \in [1 .. Len(c.order) -> DOMAIN c.entries]
  BY LenProperties DEF CacheWF
<1>2. c.order \in Bijection(1 .. Len(c.order), DOMAIN c.entries)
  BY <1>1 DEF CacheWF, Bijection, Injection, Surjection, IsInjective
<1> QED
  BY <1>1, <1>2, FS_CountingElements DEF ExistsBijection

\* Taking a key out of the order closes the gap.
LEMMA RemoveFirstCloses ==
    ASSUME NEW S, NEW s \in Seq(S), NEW i \in 1 .. Len(s),
           \A j \in 1 .. Len(s) : s[j] = s[i] => j = i
    PROVE  Seqs!RemoveFirst(s, s[i]) = SubSeq(s, 1, i - 1) \o SubSeq(s, i + 1, Len(s))
<1> DEFINE I == {j \in 1 .. Len(s) : s[j] = s[i]}
<1>1. I = {i}
  OBVIOUS
<1>2. Seqs!Min(I) = i
  BY <1>1 DEF Seqs!Min
<1>3. Seqs!SelectInSeq(s, LAMBDA v : v = s[i]) = i
  BY <1>1, <1>2 DEF Seqs!SelectInSeq
<1> QED
  BY <1>3 DEF Seqs!RemoveFirst, Seqs!RemoveAt

\* Removing the key at some place of the order, from the map too, keeps the two
\* together.
LEMMA RemoveKeeps ==
    ASSUME NEW c, CacheWF(c), NEW i \in 1 .. Len(c.order)
    PROVE  LET d == [entries |-> delete(c.entries, c.order[i]),
                     order |-> SubSeq(c.order, 1, i - 1) \o SubSeq(c.order, i + 1, Len(c.order))]
           IN  CacheWF(d) /\ Len(d.order) = Len(c.order) - 1
<1> DEFINE n == Len(c.order)
           S == DOMAIN c.entries \ {c.order[i]}
           front == SubSeq(c.order, 1, i - 1)
           back == SubSeq(c.order, i + 1, n)
           d == [entries |-> delete(c.entries, c.order[i]), order |-> front \o back]
<1>1. /\ n \in Nat /\ i \in Int /\ i >= 1 /\ i <= n
      /\ \A j \in 1 .. n : c.order[j] \in DOMAIN c.entries
  BY LenProperties, ElementOfSeq DEF CacheWF
<1>2. \A j \in 1 .. n : j # i => c.order[j] \in S
  BY <1>1 DEF CacheWF
<1>3. /\ front \in Seq(S) /\ Len(front) = i - 1
      /\ \A j \in 1 .. i - 1 : front[j] = c.order[j]
  <2>1. \A j \in 1 .. i - 1 : c.order[j] \in S
    BY <1>1, <1>2
  <2> QED
    BY <1>1, <2>1, SubSeqProperties
<1>4. /\ back \in Seq(S) /\ Len(back) = n - i
      /\ \A j \in 1 .. n - i : back[j] = c.order[j + i]
  <2>1. \A j \in i + 1 .. n : c.order[j] \in S
    BY <1>1, <1>2
  <2>2. /\ back \in Seq(S) /\ Len(back) = IF i + 1 <= n THEN n - (i + 1) + 1 ELSE 0
        /\ \A j \in 1 .. n - (i + 1) + 1 : back[j] = c.order[i + 1 + j - 1]
    <3>1. i + 1 \in Int /\ n \in Int
      BY <1>1
    <3> QED
      BY <2>1, <3>1, SubSeqProperties
  <2> QED
    BY <1>1, <2>2
<1> HIDE DEF front, back
<1>5. /\ front \o back \in Seq(S) /\ Len(front \o back) = n - 1
      /\ \A j \in 1 .. n - 1 :
           (front \o back)[j] = c.order[IF j <= i - 1 THEN j ELSE j + 1]
  <2>1. /\ front \o back \in Seq(S) /\ Len(front \o back) = (i - 1) + (n - i)
        /\ \A j \in 1 .. (i - 1) + (n - i) : (front \o back)[j] =
             IF j <= i - 1 THEN front[j] ELSE back[j - (i - 1)]
    <3> HIDE DEF S, n
    <3>1. /\ front \o back \in Seq(S) /\ Len(front \o back) = Len(front) + Len(back)
          /\ \A j \in 1 .. Len(front) + Len(back) : (front \o back)[j] =
               IF j <= Len(front) THEN front[j] ELSE back[j - Len(front)]
      BY <1>3, <1>4, ConcatProperties
    <3> QED
      BY <1>3, <1>4, <3>1
  <2>2. (i - 1) + (n - i) = n - 1
    BY <1>1
  <2>3. ASSUME NEW j \in 1 .. n - 1
        PROVE  (front \o back)[j] = c.order[IF j <= i - 1 THEN j ELSE j + 1]
    <3>1. (front \o back)[j] = IF j <= i - 1 THEN front[j] ELSE back[j - (i - 1)]
      BY <2>1, <2>2
    <3>2. CASE j <= i - 1
      BY <1>1, <1>3, <3>1, <3>2
    <3>3. CASE ~(j <= i - 1)
      <4>1. j - (i - 1) \in 1 .. n - i /\ (j - (i - 1)) + i = j + 1
        BY <1>1, <3>3
      <4> QED
        BY <1>4, <3>1, <3>3, <4>1
    <3> QED
      BY <3>2, <3>3
  <2> QED
    BY <2>1, <2>2, <2>3
<1>6. /\ DOMAIN d = {"entries", "order"}
      /\ DOMAIN d.entries = S /\ d.order = front \o back
  BY DEF delete
<1> HIDE DEF d
<1>7. ASSUME NEW k \in S
      PROVE  \E j \in 1 .. n - 1 : d.order[j] = k
  <2>1. PICK m \in 1 .. n : c.order[m] = k
    BY <1>7 DEF CacheWF
  <2>2. m # i
    BY <2>1
  <2>3. CASE m < i
    <3>1. m \in 1 .. n - 1 /\ m <= i - 1
      BY <1>1, <2>3
    <3> QED
      BY <1>5, <1>6, <2>1, <3>1
  <2>4. CASE m > i
    <3>1. m - 1 \in 1 .. n - 1 /\ ~(m - 1 <= i - 1) /\ (m - 1) + 1 = m
      BY <1>1, <2>4
    <3>2. d.order[m - 1] = k
      BY <1>5, <1>6, <2>1, <3>1
    <3> QED
      BY <3>1, <3>2
  <2> QED
    BY <1>1, <2>2, <2>3, <2>4
<1>8. ASSUME NEW j \in 1 .. n - 1, NEW l \in 1 .. n - 1, d.order[j] = d.order[l]
      PROVE  j = l
  <2> DEFINE to(x) == IF x <= i - 1 THEN x ELSE x + 1
  <2>1. /\ to(j) \in 1 .. n /\ to(l) \in 1 .. n
        /\ d.order[j] = c.order[to(j)] /\ d.order[l] = c.order[to(l)]
    BY <1>1, <1>5, <1>6
  <2>2. to(j) = to(l)
    BY <1>8, <2>1 DEF CacheWF
  <2> QED
    BY <1>1, <2>2
<1>9. n - 1 <= Capacity
  BY <1>1, CapacityAssumption DEF CacheWF
<1>10. CacheWF(d) /\ Len(d.order) = n - 1
  BY <1>1, <1>5, <1>6, <1>7, <1>8, <1>9 DEF CacheWF
<1> QED
  BY <1>10 DEF d, front, back

\* evictLocked of a key in the cache removes it from the map and from the
\* order, wherever it stands there, and nothing else.
LEMMA EvictKeeps ==
    ASSUME NEW c, CacheWF(c), NEW key \in DOMAIN c.entries
    PROVE  /\ CacheWF(evictLocked(c, key))
           /\ DOMAIN evictLocked(c, key).entries = DOMAIN c.entries \ {key}
           /\ \A k \in DOMAIN c.entries \ {key} : evictLocked(c, key).entries[k] = c.entries[k]
<1>1. PICK i \in 1 .. Len(c.order) : c.order[i] = key
  BY DEF CacheWF
<1>2. \A j \in 1 .. Len(c.order) : c.order[j] = c.order[i] => j = i
  BY DEF CacheWF
<1>3. Seqs!RemoveFirst(c.order, key)
        = SubSeq(c.order, 1, i - 1) \o SubSeq(c.order, i + 1, Len(c.order))
  BY <1>1, <1>2, RemoveFirstCloses DEF CacheWF
<1>4. CacheWF(evictLocked(c, key))
  BY <1>1, <1>3, RemoveKeeps DEF evictLocked
<1> QED
  BY <1>4 DEF evictLocked, delete

\* get leaves a well-formed cache, and takes out at most the key it was asked
\* for, and that only when it has expired.
LEMMA GetKeeps ==
    ASSUME NEW c, CacheWF(c), NEW key, NEW now
    PROVE  /\ CacheWF(afterGet(c, key, now))
           /\ DOMAIN afterGet(c, key, now).entries \subseteq DOMAIN c.entries
           /\ \A k \in DOMAIN afterGet(c, key, now).entries :
                afterGet(c, key, now).entries[k] = c.entries[k]
           /\ \A k \in DOMAIN c.entries \ DOMAIN afterGet(c, key, now).entries :
                expired(c.entries[k], now)
<1>1. CASE present(c, key) /\ expired(c.entries[key], now)
  <2>1. key \in DOMAIN c.entries /\ afterGet(c, key, now) = evictLocked(c, key)
    BY <1>1 DEF afterGet, present
  <2> QED
    BY <1>1, <2>1, EvictKeeps
<1>2. CASE ~(present(c, key) /\ expired(c.entries[key], now))
  <2>1. afterGet(c, key, now) = c
    BY <1>2 DEF afterGet
  <2> QED
    BY <2>1
<1> QED
  BY <1>1, <1>2

\* There is room for one more key, and put's order[0] exists whenever it is
\* taken out; it is the only key that goes.
LEMMA RoomKeeps ==
    ASSUME NEW c, CacheWF(c)
    PROVE  /\ CacheWF(room(c))
           /\ Len(room(c).order) < Capacity
           /\ DOMAIN room(c).entries \subseteq DOMAIN c.entries
           /\ \A k \in DOMAIN room(c).entries : room(c).entries[k] = c.entries[k]
           /\ \A k \in DOMAIN c.entries \ DOMAIN room(c).entries :
                Cardinality(DOMAIN c.entries) = Capacity /\ k = Head(c.order)
<1>1. /\ c.order \in Seq(DOMAIN c.entries) /\ Len(c.order) \in Nat
      /\ Len(c.order) <= Capacity /\ Capacity \in Nat \ {0}
      /\ Cardinality(DOMAIN c.entries) = Len(c.order)
  BY OrderCounts, LenProperties, CapacityAssumption DEF CacheWF
<1>2. CASE Cardinality(DOMAIN c.entries) >= Capacity
  <2>1. 1 \in 1 .. Len(c.order) /\ Len(c.order) = Capacity /\ c.order # <<>>
    BY <1>1, <1>2
  <2>2. Head(c.order) = c.order[1] /\ Tail(c.order) = SubSeq(c.order, 2, Len(c.order))
    BY <1>1, <2>1, TailIsSubSeq
  <2> DEFINE d == [entries |-> delete(c.entries, c.order[1]),
                   order |-> SubSeq(c.order, 1, 1 - 1) \o SubSeq(c.order, 1 + 1, Len(c.order))]
  <2>3. CacheWF(d) /\ Len(d.order) = Len(c.order) - 1
    BY <2>1, RemoveKeeps
  <2>4. d.order = Tail(c.order)
    <3>1. SubSeq(c.order, 1, 1 - 1) = <<>>
      BY SubSeqEmpty
    <3>2. Tail(c.order) \in Seq(DOMAIN c.entries)
      BY <1>1, <2>1, HeadTailProperties
    <3>3. <<>> \o Tail(c.order) = Tail(c.order)
      BY <3>2, ConcatEmptySeq
    <3> QED
      BY <2>2, <3>1, <3>3
  <2>5. room(c) = d
    BY <1>2, <2>2, <2>4 DEF room
  <2>6. Len(room(c).order) < Capacity
    BY <1>1, <2>1, <2>3, <2>5
  <2>7. /\ room(c).entries = delete(c.entries, c.order[1])
        /\ DOMAIN c.entries \ DOMAIN room(c).entries \subseteq {c.order[1]}
    BY <2>5 DEF delete
  <2> QED
    BY <1>1, <2>1, <2>2, <2>3, <2>5, <2>6, <2>7 DEF delete
<1>3. CASE ~(Cardinality(DOMAIN c.entries) >= Capacity)
  <2>1. room(c) = c
    BY <1>3 DEF room
  <2> QED
    BY <1>1, <1>3, <2>1
<1> QED
  BY <1>2, <1>3

\* What put leaves when it does not keep the old entry: the new one under its
\* key, the others as they were except, when a new key comes into a full cache,
\* the oldest.
LEMMA InsertKeeps ==
    ASSUME NEW c, CacheWF(c), NEW key, NEW e
    PROVE  /\ CacheWF(insert(c, key, e))
           /\ key \in DOMAIN insert(c, key, e).entries
           /\ insert(c, key, e).entries[key] = e
           /\ \A k \in DOMAIN insert(c, key, e).entries \ {key} :
                k \in DOMAIN c.entries /\ insert(c, key, e).entries[k] = c.entries[k]
           /\ \A k \in DOMAIN c.entries \ DOMAIN insert(c, key, e).entries :
                /\ key \notin DOMAIN c.entries
                /\ Cardinality(DOMAIN c.entries) = Capacity
                /\ k = Head(c.order)
<1> DEFINE d == insert(c, key, e)
<1>1. CASE present(c, key)
  <2>1. /\ d = [c EXCEPT !.entries = store(c.entries, key, e)]
        /\ DOMAIN c = {"entries", "order"}
    BY <1>1 DEF insert, CacheWF
  <2>2. /\ DOMAIN d = {"entries", "order"}
        /\ d.order = c.order
        /\ d.entries = store(c.entries, key, e)
    BY <2>1
  <2>3. DOMAIN d.entries = DOMAIN c.entries
    BY <1>1, <2>2 DEF store, present
  <2>4. CacheWF(d)
    BY <2>2, <2>3 DEF CacheWF
  <2>5. /\ key \in DOMAIN c.entries /\ d.entries[key] = e
        /\ \A k \in DOMAIN c.entries \ {key} : d.entries[k] = c.entries[k]
    BY <1>1, <2>2 DEF store, present
  <2> QED
    BY <2>3, <2>4, <2>5
<1>2. CASE ~present(c, key)
  <2> DEFINE r == room(c)
  <2>1. /\ DOMAIN d = {"entries", "order"}
        /\ d.entries = store(r.entries, key, e) /\ d.order = Append(r.order, key)
    BY <1>2 DEF insert
  <2>2. /\ CacheWF(r)
        /\ Len(r.order) < Capacity
        /\ DOMAIN r.entries \subseteq DOMAIN c.entries
        /\ \A k \in DOMAIN r.entries : r.entries[k] = c.entries[k]
        /\ \A k \in DOMAIN c.entries \ DOMAIN r.entries :
             Cardinality(DOMAIN c.entries) = Capacity /\ k = Head(c.order)
    BY RoomKeeps
  <2>3. key \notin DOMAIN c.entries /\ key \notin DOMAIN r.entries
    BY <1>2, <2>2 DEF present
  <2> HIDE DEF r
  <2>4. /\ DOMAIN d.entries = DOMAIN r.entries \union {key}
        /\ d.entries[key] = e
        /\ \A k \in DOMAIN r.entries : d.entries[k] = r.entries[k]
    BY <2>1, <2>3 DEF store
  <2> HIDE DEF d
  <2>5. CacheWF(d)
    <3> DEFINE n == Len(r.order)
    <3>1. /\ r.order \in Seq(DOMAIN r.entries) /\ n \in Nat /\ n < Capacity
          /\ \A i \in 1 .. n : r.order[i] \in DOMAIN r.entries
      BY <2>2, LenProperties, ElementOfSeq DEF CacheWF
    <3>2. r.order \in Seq(DOMAIN d.entries)
      BY <2>4, <3>1, SeqMonotonic
    <3>3. /\ d.order \in Seq(DOMAIN d.entries) /\ Len(d.order) = n + 1
          /\ \A i \in 1 .. n : d.order[i] = r.order[i]
          /\ d.order[n + 1] = key
      BY <2>1, <2>4, <3>1, <3>2
    <3>4. \A k \in DOMAIN d.entries : \E i \in 1 .. n + 1 : d.order[i] = k
      <4>1. \A k \in DOMAIN r.entries : \E i \in 1 .. n : d.order[i] = k
        BY <2>2, <3>3 DEF CacheWF
      <4>2. n + 1 \in 1 .. n + 1 /\ 1 .. n \subseteq 1 .. n + 1
        BY <3>1
      <4> QED
        BY <2>4, <3>3, <4>1, <4>2
    <3>5. \A i, j \in 1 .. n + 1 : d.order[i] = d.order[j] => i = j
      <4>1. \A i, j \in 1 .. n : d.order[i] = d.order[j] => i = j
        BY <2>2, <3>3 DEF CacheWF
      <4>2. \A i \in 1 .. n : d.order[i] # d.order[n + 1]
        BY <2>3, <3>1, <3>3
      <4>3. \A i \in 1 .. n + 1 : i \in 1 .. n \/ i = n + 1
        BY <3>1
      <4> QED
        BY <4>1, <4>2, <4>3
    <3>6. n + 1 <= Capacity
      BY <3>1, CapacityAssumption
    <3> QED
      BY <2>1, <3>3, <3>4, <3>5, <3>6 DEF CacheWF
  <2>6. \A k \in DOMAIN c.entries \ DOMAIN d.entries :
          Cardinality(DOMAIN c.entries) = Capacity /\ k = Head(c.order)
    BY <2>2, <2>4
  <2> QED
    BY <2>2, <2>3, <2>4, <2>5, <2>6 DEF d
<1> QED
  BY <1>1, <1>2
=============================================================================
