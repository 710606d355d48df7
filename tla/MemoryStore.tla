----------------------------- MODULE MemoryStore -----------------------------
(***************************************************************************)
(* memoryStore (packages/caching/src/stores): an lru-cache, as a sequence  *)
(* of entries with the most recent first.                                  *)
(***************************************************************************)
EXTENDS Naturals, Sequences, FiniteSets

Has(lru, key) == \E i \in DOMAIN lru : lru[i].key = key

PositionOf(lru, key) == CHOOSE i \in DOMAIN lru : lru[i].key = key

ValueOf(lru, key) == lru[PositionOf(lru, key)].val

Keys(lru) == {lru[i].key : i \in DOMAIN lru}

\* delete: a key has one entry.
Without(lru, key) ==
    LET i == PositionOf(lru, key)
    IN IF Has(lru, key) THEN SubSeq(lru, 1, i - 1) \o SubSeq(lru, i + 1, Len(lru)) ELSE lru

\* set: what does not fit is forgotten, the least recently used first.
Put(lru, key, val, max) ==
    LET all == <<[key |-> key, val |-> val]>> \o Without(lru, key)
    IN SubSeq(all, 1, IF Len(all) < max THEN Len(all) ELSE max)

\* get, and what it does to the order.
Touch(lru, key, max) == IF Has(lru, key) THEN Put(lru, key, ValueOf(lru, key), max) ELSE lru

\* mset of a set of entries into an empty store, in some order: the last of them
\* stay, as many as fit.
Filled(entries, max) ==
    LET size == IF Cardinality(entries) < max THEN Cardinality(entries) ELSE max
    IN {s \in [1 .. size -> entries] : \A i, j \in 1 .. size : s[i] = s[j] => i = j}
=============================================================================
