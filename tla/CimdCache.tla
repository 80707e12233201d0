----------------------------- MODULE CimdCache -----------------------------
(***************************************************************************)
(* cimdCache of cimd.go: a map of bounded size with a FIFO order and a     *)
(* time to live, behind a mutex.  Its methods as functions from a cache    *)
(* value [entries, order] to the next one; each runs under the mutex, so   *)
(* each is one step.                                                       *)
(***************************************************************************)
EXTENDS Integers, Sequences, FiniteSets

Seqs == INSTANCE SequencesExt

CONSTANT Capacity       \* newCIMDCache raises a capacity below 1 to 1

ASSUME CapacityAssumption == Capacity \in Nat \ {0}

newCIMDCache == [entries |-> [k \in {} |-> 0], order |-> <<>>]

present(c, key) == key \in DOMAIN c.entries

delete(entries, key) == [k \in DOMAIN entries \ {key} |-> entries[k]]

store(entries, key, e) == [k \in DOMAIN entries \union {key} |-> IF k = key THEN e ELSE entries[k]]

\* now.After(e.expiresAt)
expired(e, now) == now > e.expiresAt

\* Fault: the entry goes, its place in the order stays.
DeleteEntryOnly(c, key) == [c EXCEPT !.entries = delete(c.entries, key)]

evictLocked(c, key) ==
    [entries |-> delete(c.entries, key), order |-> Seqs!RemoveFirst(c.order, key)]

\* Fault: an expired entry still answers.
AnyEntryHits(c, key, now) == present(c, key)

\* Does get return an entry?
hit(c, key, now) == present(c, key) /\ ~expired(c.entries[key], now)

\* What get leaves behind: an expired entry is evicted.
afterGet(c, key, now) ==
    IF present(c, key) /\ expired(c.entries[key], now) THEN evictLocked(c, key) ELSE c

\* An error does not replace a client that is still good.
keepsPositive(c, key, e, now) ==
    /\ e.err
    /\ present(c, key)
    /\ ~c.entries[key].err
    /\ c.entries[key].expiresAt > now

\* A new key takes the place of the oldest one when the cache is full.
room(c) ==
    IF Cardinality(DOMAIN c.entries) >= Capacity
    THEN [entries |-> delete(c.entries, Head(c.order)), order |-> Tail(c.order)]
    ELSE c

\* A key keeps its place in the order; a new one comes last.
insert(c, key, e) ==
    IF present(c, key) THEN [c EXCEPT !.entries = store(c.entries, key, e)]
    ELSE [entries |-> store(room(c).entries, key, e), order |-> Append(room(c).order, key)]

\* Fault: an error replaces whatever is there.
PutAlways(c, key, e, now) == insert(c, key, e)

\* Fault: the oldest entry makes way even for a key that has a place.
PutMakesRoomFirst(c, key, e, now) ==
    IF keepsPositive(c, key, e, now) THEN c
    ELSE [entries |-> store(room(c).entries, key, e),
          order |-> Append(Seqs!RemoveFirst(room(c).order, key), key)]

put(c, key, e, now) == IF keepsPositive(c, key, e, now) THEN c ELSE insert(c, key, e)

\* The order lists every key of the map once, and the map is bounded; put's
\* order[0] exists whenever the map is full.
CacheWF(c) ==
    /\ DOMAIN c = {"entries", "order"}
    /\ c.order \in Seq(DOMAIN c.entries)
    /\ \A k \in DOMAIN c.entries : \E i \in 1 .. Len(c.order) : c.order[i] = k
    /\ \A i, j \in 1 .. Len(c.order) : c.order[i] = c.order[j] => i = j
    /\ Len(c.order) <= Capacity
=============================================================================
