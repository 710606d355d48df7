--------------------------- MODULE MemoryStoreProofs ---------------------------
(***************************************************************************)
(* What the operations of a memory store promise those that use it: it     *)
(* keeps a key once and no more than it has room for, holds nothing but    *)
(* what was put into it, and with room for all keys forgets none.          *)
(***************************************************************************)
EXTENDS MemoryStore, FiniteSetTheorems, FunctionTheorems, SequenceTheorems, TLAPS

Entries(K, V) == [key : K, val : V]

\* What a memory store holds: no key twice, and no more than it has room for.
LRU(K, V, max) ==
    {s \in Seq(Entries(K, V)) :
        /\ Len(s) <= max
        /\ \A i, j \in DOMAIN s : s[i].key = s[j].key => i = j}

-----------------------------------------------------------------------------
LEMMA LRUFacts ==
    ASSUME NEW K, NEW V, NEW max, NEW lru \in LRU(K, V, max)
    PROVE  /\ lru \in Seq(Entries(K, V))
           /\ Len(lru) \in Nat /\ Len(lru) <= max /\ DOMAIN lru = 1 .. Len(lru)
           /\ \A i \in DOMAIN lru :
                 lru[i] \in Entries(K, V) /\ lru[i].key \in K /\ lru[i].val \in V
           /\ \A i, j \in DOMAIN lru : lru[i].key = lru[j].key => i = j
  <1>1. lru \in Seq(Entries(K, V)) /\ Len(lru) <= max
        /\ \A i, j \in DOMAIN lru : lru[i].key = lru[j].key => i = j
    BY DEF LRU
  <1>2. Len(lru) \in Nat /\ DOMAIN lru = 1 .. Len(lru) BY <1>1
  <1>3. \A i \in DOMAIN lru : lru[i] \in Entries(K, V) BY <1>1, <1>2
  <1>4. \A i \in DOMAIN lru : lru[i].key \in K /\ lru[i].val \in V BY <1>3 DEF Entries
  <1>5. QED BY <1>1, <1>2, <1>3, <1>4

\* A store without a key holds every other entry, and no other.
LEMMA WithoutOne ==
    ASSUME NEW K, NEW V, NEW max \in Nat, NEW lru \in LRU(K, V, max), NEW key
    PROVE  LET w == Without(lru, key)
           IN /\ w \in LRU(K, V, max)
              /\ \A i \in DOMAIN w : w[i].key # key /\ \E j \in DOMAIN lru : w[i] = lru[j]
              /\ \A j \in DOMAIN lru : lru[j].key # key => \E i \in DOMAIN w : w[i] = lru[j]
  <1> DEFINE w == Without(lru, key)
  <1>1. CASE ~Has(lru, key)
    BY <1>1 DEF Has, Without
  <1>2. CASE Has(lru, key)
    <2>0. /\ lru \in Seq(Entries(K, V)) /\ Len(lru) \in Nat /\ Len(lru) <= max
          /\ DOMAIN lru = 1 .. Len(lru)
          /\ \A i \in DOMAIN lru : lru[i] \in Entries(K, V)
          /\ \A i, j \in DOMAIN lru : lru[i].key = lru[j].key => i = j
      BY LRUFacts
    <2>1. PICK p \in 1 .. Len(lru) : p = PositionOf(lru, key) /\ lru[p].key = key
      BY <1>2, <2>0 DEF Has, PositionOf
    <2>2. w = SubSeq(lru, 1, p - 1) \o SubSeq(lru, p + 1, Len(lru))
      BY <1>2, <2>1 DEF Without
    <2>3. /\ w \in Seq(Entries(K, V)) /\ Len(w) = Len(lru) - 1
          /\ \A i \in 1 .. Len(w) : w[i] = IF i < p THEN lru[i] ELSE lru[i + 1]
      <3> HIDE DEF w
      <3>1. /\ SubSeq(lru, 1, p - 1) \in Seq(Entries(K, V))
            /\ SubSeq(lru, p + 1, Len(lru)) \in Seq(Entries(K, V))
            /\ Len(SubSeq(lru, 1, p - 1)) = p - 1
            /\ Len(SubSeq(lru, p + 1, Len(lru))) = Len(lru) - p
            /\ \A i \in 1 .. p - 1 : SubSeq(lru, 1, p - 1)[i] = lru[i]
            /\ \A i \in 1 .. Len(lru) - p : SubSeq(lru, p + 1, Len(lru))[i] = lru[p + i]
        <4>1. /\ \A i \in 1 .. p - 1 : lru[i] \in Entries(K, V)
              /\ \A i \in p + 1 .. Len(lru) : lru[i] \in Entries(K, V)
          BY <2>0
        <4>2. /\ SubSeq(lru, 1, p - 1) \in Seq(Entries(K, V))
              /\ Len(SubSeq(lru, 1, p - 1)) = IF 1 <= p - 1 THEN p - 1 - 1 + 1 ELSE 0
              /\ \A i \in 1 .. p - 1 - 1 + 1 : SubSeq(lru, 1, p - 1)[i] = lru[1 + i - 1]
          BY <4>1, SubSeqProperties
        <4>3. /\ SubSeq(lru, p + 1, Len(lru)) \in Seq(Entries(K, V))
              /\ Len(SubSeq(lru, p + 1, Len(lru))) =
                    IF p + 1 <= Len(lru) THEN Len(lru) - (p + 1) + 1 ELSE 0
              /\ \A i \in 1 .. Len(lru) - (p + 1) + 1 :
                    SubSeq(lru, p + 1, Len(lru))[i] = lru[p + 1 + i - 1]
          BY <2>0, <4>1, SubSeqProperties
        <4>4. PICK n \in Nat : n = Len(lru) BY <2>0
        <4>5. p \in Int /\ 1 <= p /\ p <= n BY <2>0, <4>4
        <4>6. /\ (IF 1 <= p - 1 THEN p - 1 - 1 + 1 ELSE 0) = p - 1
              /\ (IF p + 1 <= n THEN n - (p + 1) + 1 ELSE 0) = n - p
          BY <4>5
        <4>7. p - 1 - 1 + 1 = p - 1 /\ n - (p + 1) + 1 = n - p BY <4>5
        <4>8. \A i \in Nat : 1 + i - 1 = i /\ p + 1 + i - 1 = p + i BY <4>5
        <4>9. /\ Len(SubSeq(lru, 1, p - 1)) = p - 1
              /\ Len(SubSeq(lru, p + 1, Len(lru))) = Len(lru) - p
          BY <4>2, <4>3, <4>4, <4>6
        <4>10. \A i \in 1 .. p - 1 : SubSeq(lru, 1, p - 1)[i] = lru[i]
          BY <4>2, <4>5, <4>7, <4>8
        <4>11. \A i \in 1 .. Len(lru) - p : SubSeq(lru, p + 1, Len(lru))[i] = lru[p + i]
          BY <4>3, <4>4, <4>5, <4>7, <4>8
        <4>12. QED BY <4>2, <4>3, <4>9, <4>10, <4>11
      <3>2. PICK a \in Seq(Entries(K, V)) : a = SubSeq(lru, 1, p - 1)
        BY <3>1
      <3>3. PICK b \in Seq(Entries(K, V)) : b = SubSeq(lru, p + 1, Len(lru))
        BY <3>1
      <3>4. w = a \o b /\ Len(a) = p - 1 /\ Len(b) = Len(lru) - p
            /\ (\A i \in 1 .. p - 1 : a[i] = lru[i])
            /\ \A i \in 1 .. Len(lru) - p : b[i] = lru[p + i]
        BY <2>2, <3>1, <3>2, <3>3
      <3>5. w \in Seq(Entries(K, V)) /\ Len(w) = Len(lru) - 1
            /\ \A i \in 1 .. Len(w) : w[i] = IF i < p THEN a[i] ELSE b[i - p + 1]
        <4>1. /\ w \in Seq(Entries(K, V)) /\ Len(w) = Len(a) + Len(b)
              /\ \A i \in 1 .. Len(a) + Len(b) : w[i] = IF i <= Len(a) THEN a[i] ELSE b[i - Len(a)]
          BY <3>4, ConcatProperties
        <4>2. Len(a) + Len(b) = Len(lru) - 1 BY <2>0, <3>4
        <4>3. \A i \in 1 .. Len(lru) - 1 :
                 (i <= Len(a) <=> i < p) /\ i - Len(a) = i - p + 1
          BY <2>0, <3>4
        <4>4. QED BY <4>1, <4>2, <4>3
      <3>6. ASSUME NEW i \in 1 .. Len(w), ~(i < p)
            PROVE  w[i] = lru[i + 1]
        <4>1. i - p + 1 \in 1 .. Len(lru) - p /\ p + (i - p + 1) = i + 1
          BY <2>0, <3>5, <3>6
        <4>2. QED BY <3>4, <3>5, <3>6, <4>1
      <3>7. QED BY <2>0, <3>4, <3>5, <3>6
    <2> HIDE DEF w
    <2>4. DOMAIN w = 1 .. Len(w) BY <2>3
    <2>5. \A i, j \in DOMAIN w : w[i].key = w[j].key => i = j
      <3> SUFFICES ASSUME NEW i \in DOMAIN w, NEW j \in DOMAIN w, w[i].key = w[j].key
                   PROVE  i = j
        OBVIOUS
      <3>1. PICK x \in DOMAIN lru : x = IF i < p THEN i ELSE i + 1
        BY <2>0, <2>3, <2>4
      <3>2. PICK y \in DOMAIN lru : y = IF j < p THEN j ELSE j + 1
        BY <2>0, <2>3, <2>4
      <3>3. lru[x].key = lru[y].key BY <2>3, <2>4, <3>1, <3>2
      <3>4. x = y BY <2>0, <3>3
      <3>5. QED BY <2>0, <2>3, <2>4, <3>1, <3>2, <3>4
    <2>6. \A i \in DOMAIN w : w[i].key # key /\ \E j \in DOMAIN lru : w[i] = lru[j]
      <3> TAKE i \in DOMAIN w
      <3>1. CASE i < p BY <2>0, <2>1, <2>3, <2>4, <3>1
      <3>2. CASE ~(i < p)
        <4>1. i + 1 \in DOMAIN lru /\ i + 1 # p /\ w[i] = lru[i + 1]
          BY <2>0, <2>3, <2>4, <3>2
        <4>2. QED BY <2>0, <2>1, <4>1
      <3>3. QED BY <3>1, <3>2
    <2>7. \A j \in DOMAIN lru : lru[j].key # key => \E i \in DOMAIN w : w[i] = lru[j]
      <3> SUFFICES ASSUME NEW j \in DOMAIN lru, lru[j].key # key
                   PROVE  \E i \in DOMAIN w : w[i] = lru[j]
        OBVIOUS
      <3>1. CASE j < p
        <4>1. j \in DOMAIN w /\ w[j] = lru[j] BY <2>0, <2>3, <2>4, <3>1
        <4>2. QED BY <4>1
      <3>2. CASE j > p
        <4>1. j - 1 \in DOMAIN w /\ w[j - 1] = lru[j] BY <2>0, <2>3, <2>4, <3>2
        <4>2. QED BY <4>1
      <3>3. QED BY <2>0, <2>1, <3>1, <3>2
    <2>8. w \in LRU(K, V, max)
      BY <2>0, <2>3, <2>5 DEF LRU
    <2>9. QED BY <2>6, <2>7, <2>8 DEF w
  <1>3. QED BY <1>1, <1>2

\* What set makes of a store before it forgets what does not fit.
Front(lru, key, val) == <<[key |-> key, val |-> val]>> \o Without(lru, key)

LEMMA FrontOf ==
    ASSUME NEW K, NEW V, NEW max \in Nat, NEW lru \in LRU(K, V, max), NEW key \in K, NEW val \in V
    PROVE  LET e == [key |-> key, val |-> val]
               all == Front(lru, key, val)
           IN /\ all \in Seq(Entries(K, V))
              /\ \A i, j \in DOMAIN all : all[i].key = all[j].key => i = j
              /\ \A i \in DOMAIN all :
                    all[i] = e \/ \E j \in DOMAIN lru : lru[j].key # key /\ all[i] = lru[j]
              /\ \E i \in DOMAIN all : all[i] = e
              /\ \A j \in DOMAIN lru : lru[j].key # key => \E i \in DOMAIN all : all[i] = lru[j]
  <1>1. PICK e : e = [key |-> key, val |-> val] OBVIOUS
  <1>2. PICK w : w = Without(lru, key) OBVIOUS
  <1>3. /\ w \in LRU(K, V, max)
        /\ \A i \in DOMAIN w : w[i].key # key /\ \E j \in DOMAIN lru : w[i] = lru[j]
        /\ \A j \in DOMAIN lru : lru[j].key # key => \E i \in DOMAIN w : w[i] = lru[j]
    BY <1>2, WithoutOne
  <1>4. /\ w \in Seq(Entries(K, V)) /\ Len(w) \in Nat /\ DOMAIN w = 1 .. Len(w)
        /\ \A i, j \in DOMAIN w : w[i].key = w[j].key => i = j
    BY <1>3, LRUFacts
  <1>5. e \in Entries(K, V) /\ e.key = key BY <1>1 DEF Entries
  <1>6. <<e>> \in Seq(Entries(K, V)) /\ Len(<<e>>) = 1 /\ <<e>>[1] = e BY <1>5
  <1>7. PICK all : all = <<e>> \o w OBVIOUS
  <1>0. all = Front(lru, key, val) BY <1>1, <1>2, <1>7 DEF Front
  <1>8. /\ all \in Seq(Entries(K, V)) /\ Len(all) = 1 + Len(w)
        /\ \A i \in 1 .. 1 + Len(w) : all[i] = IF i <= 1 THEN <<e>>[i] ELSE w[i - 1]
    BY <1>4, <1>6, <1>7, ConcatProperties
  <1>9. DOMAIN all = 1 .. 1 + Len(w) BY <1>8
  <1>10. 1 \in DOMAIN all /\ all[1] = e BY <1>4, <1>6, <1>8, <1>9
  <1>11. \A i \in DOMAIN all : i = 1 \/ (i - 1 \in DOMAIN w /\ all[i] = w[i - 1])
    BY <1>4, <1>8, <1>9
  <1>12. \A i \in DOMAIN w : i + 1 \in DOMAIN all /\ all[i + 1] = w[i]
    BY <1>4, <1>8, <1>9
  <1>13. ASSUME NEW i \in DOMAIN all, NEW j \in DOMAIN all, all[i].key = all[j].key
         PROVE  i = j
    <2>1. i \in Int /\ j \in Int BY <1>9
    <2>2. CASE i = 1 \/ j = 1 BY <1>3, <1>5, <1>10, <1>11, <1>13, <2>2
    <2>3. CASE i # 1 /\ j # 1
      <3>1. i - 1 = j - 1 BY <1>4, <1>11, <1>13, <2>3
      <3>2. QED BY <2>1, <3>1
    <2>4. QED BY <2>2, <2>3
  <1>14. \A i \in DOMAIN all :
            all[i] = e \/ \E j \in DOMAIN lru : lru[j].key # key /\ all[i] = lru[j]
    BY <1>3, <1>10, <1>11
  <1>15. \A j \in DOMAIN lru : lru[j].key # key => \E i \in DOMAIN all : all[i] = lru[j]
    BY <1>3, <1>12
  <1>16. QED BY <1>0, <1>1, <1>8, <1>10, <1>13, <1>14, <1>15

\* set leaves a store with the new entry and others that were in it.
LEMMA PutOne ==
    ASSUME NEW K, NEW V, NEW max \in Nat \ {0}, NEW lru \in LRU(K, V, max),
           NEW key \in K, NEW val \in V
    PROVE  LET e == [key |-> key, val |-> val]
               p == Put(lru, key, val, max)
           IN /\ p \in LRU(K, V, max)
              /\ \A i \in DOMAIN p :
                    p[i] = e \/ \E j \in DOMAIN lru : lru[j].key # key /\ p[i] = lru[j]
  <1>1. PICK e : e = [key |-> key, val |-> val] OBVIOUS
  <1>2. PICK all : all = Front(lru, key, val) OBVIOUS
  <1>3. /\ all \in Seq(Entries(K, V))
        /\ \A i, j \in DOMAIN all : all[i].key = all[j].key => i = j
        /\ \A i \in DOMAIN all :
              all[i] = e \/ \E j \in DOMAIN lru : lru[j].key # key /\ all[i] = lru[j]
    <2>1. max \in Nat OBVIOUS
    <2>2. QED BY <1>1, <1>2, <2>1, FrontOf
  <1>4. PICK m \in Nat : m = IF Len(all) < max THEN Len(all) ELSE max BY <1>3
  <1>5. m <= max /\ m <= Len(all) /\ DOMAIN all = 1 .. Len(all) BY <1>3, <1>4
  <1>6. PICK p : p = SubSeq(all, 1, m) OBVIOUS
  <1>7. \A i \in 1 .. m : all[i] \in Entries(K, V) BY <1>3, <1>5
  <1>8. /\ p \in Seq(Entries(K, V)) /\ Len(p) = IF 1 <= m THEN m - 1 + 1 ELSE 0
        /\ \A i \in 1 .. m - 1 + 1 : p[i] = all[1 + i - 1]
    BY <1>6, <1>7, SubSeqProperties
  <1>9. Len(p) = m /\ DOMAIN p = 1 .. m /\ \A i \in 1 .. m : p[i] = all[i] /\ i \in DOMAIN all
    BY <1>5, <1>8
  <1>10. \A i, j \in DOMAIN p : p[i].key = p[j].key => i = j BY <1>3, <1>9
  <1>11. p \in LRU(K, V, max) BY <1>5, <1>8, <1>9, <1>10 DEF LRU
  <1>12. \A i \in DOMAIN p :
            p[i] = e \/ \E j \in DOMAIN lru : lru[j].key # key /\ p[i] = lru[j]
    BY <1>3, <1>9
  <1>13. p = Put(lru, key, val, max) BY <1>1, <1>2, <1>4, <1>6 DEF Put, Front
  <1>14. QED BY <1>1, <1>11, <1>12, <1>13

\* A sequence of entries with different keys is no longer than there are keys.
LEMMA NotMoreThanKeys ==
    ASSUME NEW K, NEW V, IsFiniteSet(K), NEW s \in Seq(Entries(K, V)),
           \A i, j \in DOMAIN s : s[i].key = s[j].key => i = j
    PROVE  Len(s) <= Cardinality(K)
  <1> DEFINE f == [i \in 1 .. Len(s) |-> s[i].key]
  <1>1. Len(s) \in Nat /\ DOMAIN s = 1 .. Len(s) OBVIOUS
  <1>2. \A i \in DOMAIN s : s[i] \in Entries(K, V) BY <1>1
  <1>3. f \in [1 .. Len(s) -> K] BY <1>1, <1>2 DEF Entries
  <1>4. f \in Injection(1 .. Len(s), K) BY <1>1, <1>3 DEF Injection, IsInjective
  <1>5. Cardinality(1 .. Len(s)) <= Cardinality(K) BY <1>4, FS_Injection
  <1>6. Cardinality(1 .. Len(s)) = Len(s) BY <1>1, FS_Interval
  <1>7. QED BY <1>5, <1>6

\* A store with room for all keys forgets nothing.
LEMMA PutForgetsNothing ==
    ASSUME NEW K, NEW V, NEW max \in Nat \ {0}, NEW lru \in LRU(K, V, max),
           NEW key \in K, NEW val \in V, IsFiniteSet(K), Cardinality(K) <= max
    PROVE  LET p == Put(lru, key, val, max)
           IN /\ \E i \in DOMAIN p : p[i] = [key |-> key, val |-> val]
              /\ \A j \in DOMAIN lru : lru[j].key # key => \E i \in DOMAIN p : p[i] = lru[j]
  <1>1. PICK e : e = [key |-> key, val |-> val] OBVIOUS
  <1>2. PICK all : all = Front(lru, key, val) OBVIOUS
  <1>3. /\ all \in Seq(Entries(K, V))
        /\ \A i, j \in DOMAIN all : all[i].key = all[j].key => i = j
        /\ \E i \in DOMAIN all : all[i] = e
        /\ \A j \in DOMAIN lru : lru[j].key # key => \E i \in DOMAIN all : all[i] = lru[j]
    <2>1. max \in Nat OBVIOUS
    <2>2. QED BY <1>1, <1>2, <2>1, FrontOf
  <1>4. Len(all) \in Nat /\ Cardinality(K) \in Nat /\ Len(all) <= Cardinality(K)
    BY <1>3, NotMoreThanKeys, FS_CardinalityType
  <1>5. (IF Len(all) < max THEN Len(all) ELSE max) = Len(all) BY <1>4
  <1>6. Put(lru, key, val, max) = SubSeq(all, 1, Len(all)) BY <1>1, <1>2, <1>5 DEF Put, Front
  <1>7. SubSeq(all, 1, Len(all)) = all BY <1>3
  <1>8. PICK p : p = Put(lru, key, val, max) OBVIOUS
  <1>9. p = all BY <1>6, <1>7, <1>8
  <1>10. /\ \E i \in DOMAIN p : p[i] = e
         /\ \A j \in DOMAIN lru : lru[j].key # key => \E i \in DOMAIN p : p[i] = lru[j]
    BY <1>3, <1>9
  <1>11. QED BY <1>1, <1>8, <1>10

LEMMA FoundValue ==
    ASSUME NEW K, NEW V, NEW max, NEW lru \in LRU(K, V, max), NEW key, Has(lru, key)
    PROVE  \E i \in DOMAIN lru : lru[i].key = key /\ ValueOf(lru, key) = lru[i].val
  <1>1. PICK i \in DOMAIN lru : i = PositionOf(lru, key) /\ lru[i].key = key BY DEF Has, PositionOf
  <1>2. QED BY <1>1 DEF ValueOf

LEMMA TouchOne ==
    ASSUME NEW K, NEW V, NEW max \in Nat \ {0}, NEW lru \in LRU(K, V, max), NEW key
    PROVE  Touch(lru, key, max) \in LRU(K, V, max)
  <1>1. CASE Has(lru, key)
    <2>1. key \in K /\ ValueOf(lru, key) \in V BY <1>1, FoundValue, LRUFacts
    <2>2. Put(lru, key, ValueOf(lru, key), max) \in LRU(K, V, max) BY <2>1, PutOne
    <2>3. QED BY <1>1, <2>2 DEF Touch
  <1>2. CASE ~Has(lru, key) BY <1>2 DEF Touch
  <1>3. QED BY <1>1, <1>2

LEMMA AsManyEntries ==
    ASSUME NEW S, IsFiniteSet(S), NEW v
    PROVE  LET es == {[key |-> k, val |-> v[k]] : k \in S}
           IN IsFiniteSet(es) /\ Cardinality(es) = Cardinality(S)
  <1> DEFINE es == {[key |-> k, val |-> v[k]] : k \in S}
             f == [k \in S |-> [key |-> k, val |-> v[k]]]
  <1>1. f \in [S -> es] OBVIOUS
  <1>2. \A a, b \in DOMAIN f : f[a] = f[b] => a = b OBVIOUS
  <1>3. \A e \in es : \E k \in S : f[k] = e OBVIOUS
  <1>4. f \in Bijection(S, es)
    BY <1>1, <1>2, <1>3 DEF Bijection, Injection, Surjection, IsInjective
  <1>5. ExistsBijection(S, es) BY <1>4 DEF ExistsBijection
  <1>6. QED BY <1>5, FS_Bijection

EntriesOf(S, v) == {[key |-> k, val |-> v[k]] : k \in S}

\* mset of different keys fills an empty store with their entries, all of them if
\* there is room.
LEMMA FilledEntries ==
    ASSUME NEW S, IsFiniteSet(S), NEW max \in Nat \ {0}, NEW v,
           NEW s \in Filled(EntriesOf(S, v), max)
    PROVE  /\ s \in Seq(EntriesOf(S, v)) /\ Len(s) <= max
           /\ \A i \in DOMAIN s : s[i].key \in S /\ s[i].val = v[s[i].key]
           /\ \A i, j \in DOMAIN s : s[i].key = s[j].key => i = j
           /\ Cardinality(S) <= max => \A k \in S : \E i \in DOMAIN s : s[i].key = k
  <1>1. PICK es : es = {[key |-> k, val |-> v[k]] : k \in S} OBVIOUS
  <1>2. es = EntriesOf(S, v) BY <1>1 DEF EntriesOf
  <1>3. IsFiniteSet(es) /\ Cardinality(es) = Cardinality(S) BY <1>1, AsManyEntries
  <1>4. Cardinality(es) \in Nat BY <1>3, FS_CardinalityType
  <1>5. PICK size \in Nat : size = IF Cardinality(es) < max THEN Cardinality(es) ELSE max
    BY <1>4
  <1>6. s \in [1 .. size -> es] /\ \A i, j \in 1 .. size : s[i] = s[j] => i = j
    BY <1>2, <1>5 DEF Filled
  <1>7. \A e \in es : e.key \in S /\ e.val = v[e.key] /\ e = [key |-> e.key, val |-> v[e.key]]
    BY <1>1
  <1>8. s \in Seq(es) /\ Len(s) = size /\ DOMAIN s = 1 .. size BY <1>6
  <1>9. Len(s) <= max BY <1>4, <1>5, <1>8
  <1>10. \A i, j \in DOMAIN s : s[i].key = s[j].key => i = j BY <1>6, <1>7, <1>8
  <1>11. \A i \in DOMAIN s : s[i].key \in S /\ s[i].val = v[s[i].key] BY <1>6, <1>7, <1>8
  <1>12. ASSUME Cardinality(S) <= max, NEW k \in S PROVE \E i \in DOMAIN s : s[i].key = k
    <2>1. size = Cardinality(es) BY <1>3, <1>4, <1>5, <1>12
    <2>2. s \in Injection(1 .. size, es) BY <1>6 DEF Injection, IsInjective
    <2>3. Cardinality(1 .. size) = size BY FS_Interval
    <2>4. s \in Surjection(1 .. size, es) BY <1>3, <2>1, <2>2, <2>3, FS_Injection
    <2>5. [key |-> k, val |-> v[k]] \in es BY <1>1
    <2>6. PICK i \in 1 .. size : s[i] = [key |-> k, val |-> v[k]] BY <2>4, <2>5 DEF Surjection
    <2>7. QED BY <1>8, <2>6
  <1>13. QED BY <1>2, <1>8, <1>9, <1>10, <1>11, <1>12

LEMMA FilledOne ==
    ASSUME NEW K, IsFiniteSet(K), NEW V, NEW max \in Nat \ {0}, NEW S \in SUBSET K, NEW v,
           \A k \in S : v[k] \in V,
           NEW s \in Filled(EntriesOf(S, v), max)
    PROVE  s \in LRU(K, V, max)
  <1>1. IsFiniteSet(S) BY FS_Subset
  <1>2. EntriesOf(S, v) \subseteq Entries(K, V) BY DEF EntriesOf, Entries
  <1>3. /\ s \in Seq(EntriesOf(S, v)) /\ Len(s) <= max
        /\ \A i, j \in DOMAIN s : s[i].key = s[j].key => i = j
    BY <1>1, FilledEntries
  <1>4. s \in Seq(Entries(K, V)) BY <1>2, <1>3
  <1>5. QED BY <1>3, <1>4 DEF LRU
================================================================================
