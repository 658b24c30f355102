------------------------- MODULE FingerprintProofs -------------------------
(***************************************************************************)
(* What holds of FingerprintSet for every value of its constants and every *)
(* hash function, proved with TLAPS: a search in the table ends, finds a   *)
(* key exactly if it is there, and filling and growing a table lose none.  *)
(***************************************************************************)
EXTENDS FingerprintSet, FiniteSetTheorems, SequenceTheorems, WellFoundedInduction, TLAPS

----------------------------------------------------------------------------
(* Numbers *)

\* A nonempty set of natural numbers has a least element, and Min picks it.
LEMMA MinLeast ==
  ASSUME NEW T \in SUBSET Nat, T # {}
  PROVE  Min(T) \in T /\ \A y \in T : Min(T) <= y
<1> DEFINE R == {ss \in Nat \X Nat : ss[1] < ss[2]}
<1>1. IsWellFoundedOn(R, Nat)
  <2>1. OpToRel(<, Nat) = R
    BY DEF OpToRel
  <2> QED
    BY <2>1, NatLessThanWellFounded
<1>2. \A x, y \in Nat : ~(<<y, x>> \in R) => x <= y
  OBVIOUS
<1> HIDE DEF R
<1>3. \E x \in T : \A y \in T : ~(<<y, x>> \in R)
  BY <1>1, WFMin
<1>4. \E x \in T : \A y \in T : x <= y
  BY <1>2, <1>3
<1> QED
  BY <1>4 DEF Min

\* A set of numbers that holds 0 and with each number the next one holds all.
LEMMA EveryNumber ==
  ASSUME NEW S \in SUBSET Nat, 0 \in S, \A n \in S : n + 1 \in S
  PROVE  S = Nat
<1> SUFFICES ASSUME Nat \ S # {} PROVE FALSE
  OBVIOUS
<1>1. PICK x \in Nat \ S : \A y \in Nat \ S : x <= y
  BY MinLeast
<1>2. x - 1 \in Nat /\ ~(x <= x - 1) /\ (x - 1) + 1 = x
  BY <1>1
<1> QED
  BY <1>1, <1>2

\* The remainder of a division is determined.
LEMMA Remainder ==
  ASSUME NEW n \in Nat \ {0}, NEW q \in Int, NEW r \in 0..(n - 1)
  PROVE  (n * q + r) % n = r
OBVIOUS

\* Going round a table of n slots from anywhere passes every slot.
LEMMA AllSlotsProbed ==
  ASSUME NEW n \in Nat \ {0}, NEW h \in Nat
  PROVE  /\ \A p \in Nat : (h + p) % n \in 0..(n - 1)
         /\ \A s \in 0..(n - 1) : \E p \in 0..(n - 1) : (h + p) % n = s
<1>1. \A p \in Nat : (h + p) % n \in 0..(n - 1)
  OBVIOUS
<1>2. ASSUME NEW s \in 0..(n - 1)
      PROVE  \E p \in 0..(n - 1) : (h + p) % n = s
  <2>1. /\ h \div n \in Int
        /\ h % n \in 0..(n - 1)
        /\ h = n * (h \div n) + (h % n)
    OBVIOUS
  <2> DEFINE q == h \div n
             r == h % n
  <2>2. CASE r <= s
    <3>1. s - r \in 0..(n - 1) /\ h + (s - r) = n * q + s
      BY <2>1, <2>2
    <3> QED
      BY <2>1, <3>1, Remainder
  <2>3. CASE ~(r <= s)
    <3>1. (s - r) + n \in 0..(n - 1) /\ h + ((s - r) + n) = n * q + n + s
      BY <2>1, <2>3
    <3>2. n * q + n = n * (q + 1) /\ q + 1 \in Int
      BY <2>1
    <3> QED
      BY <2>1, <3>1, <3>2, Remainder
  <2> QED
    BY <2>2, <2>3
<1> QED
  BY <1>1, <1>2

----------------------------------------------------------------------------
(* What holds of a table *)

Slots(t) == 0..(t.capacity - 1)

\* The keys in the slots of table t.
Stored(t) == {SlotAt(t, s) : s \in Slots(t)} \ {Free}

TableType ==
  [file : Seq(Fingerprints \cup {Free}), base : Nat, capacity : Nat \ {0}, count : Nat]

\* The slots of a table are the end of its file.
Placed(t) == t \in TableType /\ t.base + t.capacity = Len(t.file)

\* No key is stored twice.
Once(t) ==
  \A s, r \in Slots(t) : SlotAt(t, s) = SlotAt(t, r) /\ SlotAt(t, s) # Free => s = r

\* The search for a stored key passes no free slot on its way to it.
Reached(t) ==
  \A s \in Slots(t) :
    SlotAt(t, s) # Free =>
      \E p \in Slots(t) :
        /\ Probed(t, SlotAt(t, s), p) = s
        /\ \A q \in Slots(t) : q < p => SlotAt(t, Probed(t, SlotAt(t, s), q)) # Free

Counted(t) == IsFiniteSet(Stored(t)) /\ t.count = Cardinality(Stored(t))

Good(t) == Placed(t) /\ Once(t) /\ Reached(t) /\ Counted(t)

HashTyped == hash \in [Fingerprints -> Hashes]

\* Every slot of a table is free or holds a key.
LEMMA SlotsTyped ==
  ASSUME NEW t, Placed(t)
  PROVE  /\ t.capacity \in Nat \ {0} /\ t.base \in Nat /\ t.count \in Nat
         /\ t.file \in Seq(Fingerprints \cup {Free})
         /\ \A s \in Slots(t) : /\ t.base + s + 1 \in 1..Len(t.file)
                                /\ SlotAt(t, s) \in Fingerprints \cup {Free}
         /\ Stored(t) \subseteq Fingerprints
<1>1. /\ t.capacity \in Nat \ {0} /\ t.base \in Nat /\ t.count \in Nat
      /\ t.file \in Seq(Fingerprints \cup {Free})
      /\ Len(t.file) = t.base + t.capacity
  BY DEF Placed, TableType
<1>2. \A s \in Slots(t) : t.base + s + 1 \in 1..Len(t.file)
  BY <1>1 DEF Slots
<1>3. \A s \in Slots(t) : SlotAt(t, s) \in Fingerprints \cup {Free}
  BY <1>1, <1>2, ElementOfSeq DEF SlotAt
<1> QED
  BY <1>1, <1>2, <1>3 DEF Stored

\* The search for a key passes slots of the table, and in the end all of them.
LEMMA ProbedTyped ==
  ASSUME HashTyped, NEW t, Placed(t), NEW key \in Fingerprints
  PROVE  /\ \A p \in Slots(t) : Probed(t, key, p) \in Slots(t)
         /\ \A s \in Slots(t) : \E p \in Slots(t) : Probed(t, key, p) = s
<1>1. t.capacity \in Nat \ {0} /\ hash[key] \in Nat
  BY SlotsTyped, FingerprintAssumption DEF HashTyped
<1> DEFINE n == t.capacity
           h == hash[key]
<1>2. /\ \A p \in Nat : (h + p) % n \in 0..(n - 1)
      /\ \A s \in 0..(n - 1) : \E p \in 0..(n - 1) : (h + p) % n = s
  BY <1>1, AllSlotsProbed
<1>3. 0..(n - 1) \subseteq Nat
  OBVIOUS
<1> QED
  BY <1>2, <1>3, Zenon DEF Probed, Slots

\* A table that holds fewer keys than it has slots has a free one.
LEMMA FreeSlot ==
  ASSUME NEW t, Good(t), t.count < t.capacity
  PROVE  \E s \in Slots(t) : SlotAt(t, s) = Free
<1> SUFFICES ASSUME \A s \in Slots(t) : SlotAt(t, s) # Free PROVE FALSE
  OBVIOUS
<1>1. t.capacity \in Nat \ {0} /\ t.count \in Nat
  BY SlotsTyped DEF Good
<1> DEFINE f == [s \in Slots(t) |-> SlotAt(t, s)]
<1>2. f \in Injection(Slots(t), Stored(t))
  BY DEF Good, Once, Stored, Injection, IsInjective
<1>3. Cardinality(Slots(t)) <= Cardinality(Stored(t))
  BY <1>2, FS_Injection DEF Good, Counted
<1>4. Cardinality(Slots(t)) = t.capacity
  BY <1>1, FS_Interval DEF Slots
<1> QED
  BY <1>1, <1>3, <1>4 DEF Good, Counted

\* The search for a key ends at its slot, or at the first free one of its way.
LEMMA SearchEnds ==
  ASSUME HashTyped, NEW t, Good(t), t.count < t.capacity, NEW key \in Fingerprints
  PROVE  /\ Lookup(t, key) \in Slots(t)
         /\ Found(t, key) <=> key \in Stored(t)
         /\ key \notin Stored(t) =>
              /\ SlotAt(t, Lookup(t, key)) = Free
              /\ \E p \in Slots(t) :
                   /\ Probed(t, key, p) = Lookup(t, key)
                   /\ \A q \in Slots(t) : q < p => SlotAt(t, Probed(t, key, q)) # Free
<1>1. Placed(t) /\ t.capacity \in Nat \ {0} /\ key # Free
  BY SlotsTyped, FingerprintAssumption DEF Good
<1>2. /\ \A p \in Slots(t) : Probed(t, key, p) \in Slots(t)
      /\ \A s \in Slots(t) : \E p \in Slots(t) : Probed(t, key, p) = s
  BY <1>1, ProbedTyped
<1> DEFINE ends == {p \in Slots(t) : SlotAt(t, Probed(t, key, p)) \in {Free, key}}
           m == Min(ends)
<1>3. ends # {} /\ ends \in SUBSET Nat
  <2>1. \E p \in Slots(t) : SlotAt(t, Probed(t, key, p)) = Free
    BY <1>2, FreeSlot
  <2> QED
    BY <1>1, <2>1 DEF Slots
<1>4. m \in ends /\ \A y \in ends : m <= y
  BY <1>3, MinLeast
<1>5. Lookup(t, key) = Probed(t, key, m)
  BY DEF Lookup, Slots
<1> HIDE DEF m
<1>6. m \in Slots(t) /\ Probed(t, key, m) \in Slots(t)
  BY <1>2, <1>4
<1>7. \A q \in Slots(t) : q < m => SlotAt(t, Probed(t, key, q)) \notin {Free, key}
  BY <1>1, <1>4, <1>6 DEF Slots
<1>8. CASE key \in Stored(t)
  <2>1. PICK s \in Slots(t) : SlotAt(t, s) = key
    BY <1>8 DEF Stored
  <2>2. PICK p \in Slots(t) :
          /\ Probed(t, key, p) = s
          /\ \A q \in Slots(t) : q < p => SlotAt(t, Probed(t, key, q)) # Free
    BY <1>1, <2>1 DEF Good, Reached
  <2>3. p \in ends /\ m <= p
    BY <1>4, <2>1, <2>2
  <2>4. m = p \/ m < p
    BY <1>6, <2>3 DEF Slots
  <2>5. SlotAt(t, Probed(t, key, m)) = key
    BY <1>4, <1>6, <2>1, <2>2, <2>4
  <2> QED
    BY <1>5, <1>6, <1>8, <2>5 DEF Found
<1>9. CASE key \notin Stored(t)
  <2>1. SlotAt(t, Probed(t, key, m)) # key
    BY <1>1, <1>6, <1>9 DEF Stored
  <2>2. SlotAt(t, Probed(t, key, m)) = Free
    BY <1>4, <2>1
  <2> QED
    BY <1>5, <1>6, <1>7, <1>9, <2>1, <2>2 DEF Found
<1> QED
  BY <1>8, <1>9

----------------------------------------------------------------------------
(* Writing keys into a table *)

\* A new key takes the slot where its search ended.
LEMMA WriteSlotKeeps ==
  ASSUME HashTyped, NEW t, Good(t), t.count < t.capacity,
         NEW key \in Fingerprints, key \notin Stored(t),
         NEW w, w = WriteSlot(t, Lookup(t, key), key)
  PROVE  /\ Good(w)
         /\ Stored(w) = Stored(t) \cup {key}
         /\ w.capacity = t.capacity
         /\ w.count = t.count + 1
<1> DEFINE l == Lookup(t, key)
<1>1. /\ Placed(t) /\ Once(t) /\ Reached(t) /\ Counted(t)
      /\ key # Free
  BY FingerprintAssumption DEF Good
<1>2. /\ t.capacity \in Nat \ {0} /\ t.base \in Nat /\ t.count \in Nat
      /\ t.file \in Seq(Fingerprints \cup {Free})
      /\ \A s \in Slots(t) : t.base + s + 1 \in 1..Len(t.file)
      /\ Stored(t) \subseteq Fingerprints
  BY <1>1, SlotsTyped
<1>3. /\ l \in Slots(t)
      /\ SlotAt(t, l) = Free
      /\ \E p \in Slots(t) :
           /\ Probed(t, key, p) = l
           /\ \A q \in Slots(t) : q < p => SlotAt(t, Probed(t, key, q)) # Free
  BY SearchEnds
<1> HIDE DEF l
<1>4. w = [t EXCEPT !.file[t.base + l + 1] = key, !.count = @ + 1]
  BY DEF WriteSlot, l
<1>5. t \in TableType
  BY <1>1 DEF Placed
<1>6. /\ w = [file |-> [t.file EXCEPT ![t.base + l + 1] = key], base |-> t.base,
              capacity |-> t.capacity, count |-> t.count + 1]
  BY <1>4, <1>5 DEF TableType
<1>7. /\ w.file \in Seq(Fingerprints \cup {Free})
      /\ Len(w.file) = Len(t.file)
      /\ \A i \in 1..Len(t.file) :
           w.file[i] = IF i = t.base + l + 1 THEN key ELSE t.file[i]
  <2>1. t.base + l + 1 \in 1..Len(t.file)
    BY <1>2, <1>3
  <2>2. w.file = [t.file EXCEPT ![t.base + l + 1] = key]
    BY <1>6
  <2> QED
    BY <1>2, <2>1, <2>2, ExceptSeq
<1>8. Placed(w)
  <2>1. w \in TableType
    BY <1>2, <1>6, <1>7 DEF TableType
  <2> QED
    BY <1>1, <1>6, <1>7, <2>1 DEF Placed
<1>9. Slots(w) = Slots(t) /\ w.capacity = t.capacity /\ w.base = t.base
  BY <1>6 DEF Slots
<1>10. \A s \in Slots(t) : SlotAt(w, s) = IF s = l THEN key ELSE SlotAt(t, s)
  <2>1. \A s \in Slots(t) : t.base + s + 1 = t.base + l + 1 <=> s = l
    BY <1>2, <1>3 DEF Slots
  <2> QED
    BY <1>2, <1>7, <1>9, <2>1 DEF SlotAt
<1>11. \A s \in Slots(t) : SlotAt(t, s) # key
  BY <1>1 DEF Stored
<1>12. Once(w)
  BY <1>1, <1>9, <1>10, <1>11 DEF Once
<1>13. Stored(w) = Stored(t) \cup {key}
  BY <1>1, <1>3, <1>9, <1>10, <1>11 DEF Stored
<1>14. Counted(w)
  BY <1>1, <1>6, <1>13, FS_AddElement DEF Counted
<1>15. \A k, p : Probed(w, k, p) = Probed(t, k, p)
  BY <1>9 DEF Probed
<1>16. Reached(w)
  <2> SUFFICES ASSUME NEW s \in Slots(t), SlotAt(w, s) # Free
               PROVE  \E p \in Slots(t) :
                        /\ Probed(t, SlotAt(w, s), p) = s
                        /\ \A q \in Slots(t) :
                             q < p => SlotAt(w, Probed(t, SlotAt(w, s), q)) # Free
    BY <1>9, <1>15 DEF Reached
  <2>1. PICK p \in Slots(t) :
          /\ Probed(t, SlotAt(w, s), p) = s
          /\ \A q \in Slots(t) : q < p => SlotAt(t, Probed(t, SlotAt(w, s), q)) # Free
    BY <1>1, <1>3, <1>10 DEF Reached
  <2>2. SlotAt(w, s) \in Fingerprints
    BY <1>8, <1>9, SlotsTyped
  <2>3. \A q \in Slots(t) : Probed(t, SlotAt(w, s), q) \in Slots(t)
    BY <1>1, <2>2, ProbedTyped
  <2>4. \A q \in Slots(t) : q < p => SlotAt(w, Probed(t, SlotAt(w, s), q)) # Free
    BY <1>1, <1>10, <2>1, <2>3
  <2> QED
    BY <2>1, <2>4
<1> QED
  BY <1>6, <1>8, <1>9, <1>12, <1>13, <1>14, <1>16 DEF Good

\* A key that is there already is not written again.
LEMMA InsertNewKeeps ==
  ASSUME HashTyped, NEW t, Good(t), t.count < t.capacity, NEW key \in Fingerprints,
         NEW w, w = InsertNew(t, key)
  PROVE  /\ Good(w)
         /\ Stored(w) = Stored(t) \cup {key}
         /\ w.capacity = t.capacity
         /\ w.count <= t.count + 1
<1>1. t.count \in Nat
  BY SlotsTyped DEF Good
<1>2. CASE key \in Stored(t)
  <2>1. w = t
    BY <1>2, SearchEnds DEF InsertNew
  <2> QED
    BY <1>1, <1>2, <2>1
<1>3. CASE key \notin Stored(t)
  <2>1. w = WriteSlot(t, Lookup(t, key), key)
    BY <1>3, SearchEnds DEF InsertNew
  <2>2. /\ Good(w)
        /\ Stored(w) = Stored(t) \cup {key}
        /\ w.capacity = t.capacity
        /\ w.count = t.count + 1
    BY <1>3, <2>1, WriteSlotKeeps
  <2> QED
    BY <1>1, <2>2
<1> QED
  BY <1>2, <1>3

\* The recursive definition of InsertAll defines a function.
LEMMA FilledDefined ==
  ASSUME NEW t, NEW keys \in Seq(Fingerprints \cup {Free})
  PROVE  \E filled :
           /\ InsertAll(t, keys) = filled[Len(keys)]
           /\ filled[0] = t
           /\ \A n \in 1..Len(keys) :
                filled[n] = IF keys[n] = Free THEN filled[n - 1]
                            ELSE InsertNew(filled[n - 1], keys[n])
<1> DEFINE Value(g, n) == IF n = 0 THEN t
                          ELSE IF keys[n] = Free THEN g[n - 1]
                          ELSE InsertNew(g[n - 1], keys[n])
           Defines(g, m) == g = [n \in 0..m |-> Value(g, n)]
           S == {m \in Nat : \E g : Defines(g, m)}
<1>1. 0 \in S
  <2>1. Defines([n \in 0..0 |-> t], 0)
    OBVIOUS
  <2> QED
    BY <2>1
<1>2. ASSUME NEW m \in S
      PROVE  m + 1 \in S
  <2>1. PICK g : Defines(g, m)
    BY <1>2
  <2> DEFINE h == [n \in 0..(m + 1) |-> IF n = m + 1 THEN Value(g, m + 1) ELSE g[n]]
  <2>2. ASSUME NEW n \in 0..(m + 1)
        PROVE  h[n] = Value(h, n)
    <3>1. CASE n = m + 1
      BY <3>1
    <3>2. CASE n # m + 1
      <4>1. n \in 0..m /\ h[n] = g[n]
        BY <3>2
      <4>2. g[n] = Value(g, n)
        BY <2>1, <4>1
      <4>3. n # 0 => h[n - 1] = g[n - 1]
        BY <4>1
      <4> QED
        BY <4>1, <4>2, <4>3
    <3> QED
      BY <3>1, <3>2
  <2>3. Defines(h, m + 1)
    BY <2>2
  <2> HIDE DEF h, Defines
  <2> QED
    BY <2>3
<1> HIDE DEF Defines
<1>3. S = Nat
  <2> HIDE DEF S
  <2>1. S \in SUBSET Nat
    BY DEF S
  <2> QED
    BY <1>1, <1>2, <2>1, EveryNumber
<1>4. Len(keys) \in Nat
  BY LenProperties
<1> DEFINE filled == CHOOSE f : Defines(f, Len(keys))
<1>5. Defines(filled, Len(keys))
  BY <1>3, <1>4
<1>6. InsertAll(t, keys) = filled[Len(keys)]
  BY DEF InsertAll, Defines
<1> HIDE DEF filled
<1>7. \A n \in 0..Len(keys) : filled[n] = Value(filled, n)
  BY <1>5 DEF Defines
<1> QED
  BY <1>4, <1>6, <1>7

\* Filling a table that has room for them stores all the keys.
LEMMA InsertAllKeeps ==
  ASSUME HashTyped, NEW t, Good(t), NEW keys \in Seq(Fingerprints \cup {Free}),
         t.count + Len(keys) <= t.capacity,
         NEW w, w = InsertAll(t, keys)
  PROVE  /\ Good(w)
         /\ Stored(w) = Stored(t) \cup ({keys[i] : i \in 1..Len(keys)} \ {Free})
         /\ w.capacity = t.capacity
<1>1. /\ Len(keys) \in Nat /\ t.count \in Nat /\ t.capacity \in Nat
      /\ \A i \in 1..Len(keys) : keys[i] \in Fingerprints \cup {Free}
  BY LenProperties, ElementOfSeq, SlotsTyped DEF Good
<1>2. PICK filled :
        /\ InsertAll(t, keys) = filled[Len(keys)]
        /\ filled[0] = t
        /\ \A n \in 1..Len(keys) :
             filled[n] = IF keys[n] = Free THEN filled[n - 1]
                         ELSE InsertNew(filled[n - 1], keys[n])
  BY FilledDefined
<1> DEFINE Right(n) ==
             /\ Good(filled[n])
             /\ Stored(filled[n]) = Stored(t) \cup ({keys[i] : i \in 1..n} \ {Free})
             /\ filled[n].capacity = t.capacity
             /\ filled[n].count <= t.count + n
           S == {n \in Nat : n <= Len(keys) => Right(n)}
<1>3. 0 \in S
  <2>1. {keys[i] : i \in 1..0} = {}
    OBVIOUS
  <2> QED
    BY <1>1, <1>2, <2>1
<1>4. ASSUME NEW n \in S
      PROVE  n + 1 \in S
  <2> SUFFICES ASSUME n + 1 <= Len(keys) PROVE Right(n + 1)
    BY <1>4
  <2>1. n \in Nat /\ n + 1 \in 1..Len(keys) /\ (n + 1) - 1 = n
    BY <1>1, <1>4
  <2>2. Right(n)
    BY <1>1, <1>4, <2>1
  <2>3. filled[n + 1] = IF keys[n + 1] = Free THEN filled[n]
                        ELSE InsertNew(filled[n], keys[n + 1])
    BY <1>2, <2>1
  <2>4. {keys[i] : i \in 1..(n + 1)} = {keys[i] : i \in 1..n} \cup {keys[n + 1]}
    <3>1. 1..(n + 1) = (1..n) \cup {n + 1}
      BY <2>1
    <3> QED
      BY <3>1
  <2>5. filled[n].count \in Nat
    BY <2>2, SlotsTyped DEF Good
  <2>6. CASE keys[n + 1] = Free
    BY <1>1, <2>1, <2>2, <2>3, <2>4, <2>5, <2>6
  <2>7. CASE keys[n + 1] # Free
    <3>1. keys[n + 1] \in Fingerprints
      BY <1>1, <2>1, <2>7
    <3>2. filled[n].count < filled[n].capacity
      BY <1>1, <2>1, <2>2, <2>5
    <3>3. /\ Good(filled[n + 1])
          /\ Stored(filled[n + 1]) = Stored(filled[n]) \cup {keys[n + 1]}
          /\ filled[n + 1].capacity = filled[n].capacity
          /\ filled[n + 1].count <= filled[n].count + 1
      BY <2>2, <2>3, <2>7, <3>1, <3>2, InsertNewKeeps
    <3>4. filled[n + 1].count \in Nat
      BY <3>3, SlotsTyped DEF Good
    <3>5. filled[n + 1].count <= t.count + (n + 1)
      BY <1>1, <2>1, <2>2, <2>5, <3>3, <3>4
    <3> QED
      BY <2>2, <2>4, <2>7, <3>3, <3>5
  <2> QED
    BY <2>6, <2>7
<1> HIDE DEF Right
<1>5. S = Nat
  <2> HIDE DEF S
  <2>1. S \in SUBSET Nat
    BY DEF S
  <2> QED
    BY <1>3, <1>4, <2>1, EveryNumber
<1>6. Right(Len(keys))
  BY <1>1, <1>5
<1> QED
  BY <1>2, <1>6 DEF Right

\* A table whose slots are all free is a good one.
LEMMA EmptyGood ==
  ASSUME NEW t, Placed(t), \A s \in Slots(t) : SlotAt(t, s) = Free, t.count = 0
  PROVE  Good(t) /\ Stored(t) = {}
<1>1. Stored(t) = {}
  BY DEF Stored
<1>2. Counted(t)
  BY <1>1, FS_EmptySet DEF Counted
<1> QED
  BY <1>1, <1>2 DEF Good, Once, Reached

\* So is a new table.
LEMMA NewTableGood ==
  /\ Good(NewTable)
  /\ Stored(NewTable) = {}
  /\ NewTable.capacity = InitialSlots
  /\ NewTable.count = 0
<1>1. InitialSlots \in Nat \ {0}
  BY FingerprintAssumption
<1>2. /\ FreeSlots(InitialSlots) \in Seq(Fingerprints \cup {Free})
      /\ Len(FreeSlots(InitialSlots)) = InitialSlots
  BY <1>1 DEF FreeSlots
<1>3. Placed(NewTable)
  BY <1>1, <1>2 DEF NewTable, Placed, TableType
<1>4. \A s \in Slots(NewTable) : SlotAt(NewTable, s) = Free
  BY <1>1 DEF NewTable, FreeSlots, Slots, SlotAt
<1>5. NewTable.capacity = InitialSlots /\ NewTable.count = 0
  BY DEF NewTable
<1> QED
  BY <1>3, <1>4, <1>5, EmptyGood

\* A grown table holds the same keys in twice as many slots.
LEMMA GrowKeeps ==
  ASSUME HashTyped, NEW t, Good(t), NEW w, w = Grow(t)
  PROVE  /\ Good(w)
         /\ Stored(w) = Stored(t)
         /\ w.capacity = 2 * t.capacity
         /\ w.count = t.count
<1>1. /\ Placed(t) /\ Counted(t)
      /\ t.capacity \in Nat \ {0} /\ t.base \in Nat /\ t.count \in Nat
      /\ t.file \in Seq(Fingerprints \cup {Free})
      /\ t.base + t.capacity = Len(t.file)
      /\ \A i \in 1..Len(t.file) : t.file[i] \in Fingerprints \cup {Free}
  BY SlotsTyped, ElementOfSeq DEF Good, Placed
<1> DEFINE more == FreeSlots(2 * t.capacity)
           next == [file |-> t.file \o more, base |-> Len(t.file),
                    capacity |-> 2 * t.capacity, count |-> 0]
           keys == SubSeq(t.file, t.base + 1, t.base + t.capacity)
<1>2. /\ more \in Seq(Fingerprints \cup {Free})
      /\ Len(more) = 2 * t.capacity
      /\ \A i \in 1..(2 * t.capacity) : more[i] = Free
  BY <1>1 DEF FreeSlots
<1> HIDE DEF more
<1>3. /\ t.file \o more \in Seq(Fingerprints \cup {Free})
      /\ Len(t.file \o more) = Len(t.file) + 2 * t.capacity
      /\ \A i \in 1..(Len(t.file) + 2 * t.capacity) :
           (t.file \o more)[i] = IF i <= Len(t.file) THEN t.file[i]
                                 ELSE more[i - Len(t.file)]
  <2> DEFINE f == t.file
  <2>1. f \in Seq(Fingerprints \cup {Free})
    BY <1>1
  <2> HIDE DEF f
  <2>2. /\ f \o more \in Seq(Fingerprints \cup {Free})
        /\ Len(f \o more) = Len(f) + Len(more)
        /\ \A i \in 1..(Len(f) + Len(more)) :
             (f \o more)[i] = IF i <= Len(f) THEN f[i] ELSE more[i - Len(f)]
    BY <1>2, <2>1, ConcatProperties
  <2> QED
    BY <1>2, <2>2 DEF f
<1>4. Placed(next)
  BY <1>1, <1>3 DEF Placed, TableType
<1>5. ASSUME NEW s \in Slots(next)
      PROVE  SlotAt(next, s) = Free
  <2>1. /\ Len(t.file) + s + 1 \in 1..(Len(t.file) + 2 * t.capacity)
        /\ ~(Len(t.file) + s + 1 <= Len(t.file))
        /\ (Len(t.file) + s + 1) - Len(t.file) \in 1..(2 * t.capacity)
    BY <1>1 DEF Slots
  <2> QED
    BY <1>2, <1>3, <2>1 DEF SlotAt
<1>6. Good(next) /\ Stored(next) = {}
  BY <1>4, <1>5, EmptyGood
<1>7. /\ keys \in Seq(Fingerprints \cup {Free})
      /\ Len(keys) = t.capacity
      /\ \A i \in 1..t.capacity : keys[i] = t.file[t.base + i]
  <2> DEFINE f == t.file
             m == t.base + 1
             n == t.base + t.capacity
  <2>1. /\ f \in Seq(Fingerprints \cup {Free})
        /\ m \in Int /\ n \in Int
        /\ \A i \in m..n : f[i] \in Fingerprints \cup {Free}
        /\ m <= n /\ n - m + 1 = t.capacity
        /\ \A i \in 1..t.capacity : m + i - 1 = t.base + i
    BY <1>1
  <2>2. keys = SubSeq(f, m, n)
    OBVIOUS
  <2> HIDE DEF f, m, n, keys
  <2>3. /\ keys \in Seq(Fingerprints \cup {Free})
        /\ Len(keys) = IF m <= n THEN n - m + 1 ELSE 0
        /\ \A i \in 1..(n - m + 1) : keys[i] = f[m + i - 1]
    BY <2>1, <2>2, SubSeqProperties
  <2> QED
    BY <2>1, <2>3 DEF f
<1>8. w = InsertAll(next, keys)
  BY DEF Grow, more
<1> HIDE DEF keys
<1>9. /\ Good(w)
      /\ Stored(w) = {keys[i] : i \in 1..t.capacity} \ {Free}
      /\ w.capacity = 2 * t.capacity
  <2>1. next.count + Len(keys) <= next.capacity
    BY <1>1, <1>7
  <2> HIDE DEF next
  <2>2. /\ Good(w)
        /\ Stored(w) = Stored(next) \cup ({keys[i] : i \in 1..Len(keys)} \ {Free})
        /\ w.capacity = next.capacity
    BY <1>6, <1>7, <1>8, <2>1, InsertAllKeeps
  <2> QED
    BY <1>6, <1>7, <2>2 DEF next
<1>10. {keys[i] : i \in 1..t.capacity} = {SlotAt(t, s) : s \in Slots(t)}
  <2>1. \A s \in Slots(t) : s + 1 \in 1..t.capacity /\ keys[s + 1] = SlotAt(t, s)
    <3>1. \A s \in Slots(t) : s + 1 \in 1..t.capacity /\ t.base + (s + 1) = t.base + s + 1
      BY <1>1 DEF Slots
    <3> QED
      BY <1>7, <3>1 DEF SlotAt
  <2>2. \A i \in 1..t.capacity : i - 1 \in Slots(t) /\ keys[i] = SlotAt(t, i - 1)
    <3>1. \A i \in 1..t.capacity : i - 1 \in Slots(t) /\ t.base + (i - 1) + 1 = t.base + i
      BY <1>1 DEF Slots
    <3> QED
      BY <1>7, <3>1 DEF SlotAt
  <2> QED
    BY <2>1, <2>2
<1>11. Stored(w) = Stored(t)
  BY <1>9, <1>10 DEF Stored
<1> QED
  BY <1>1, <1>9, <1>11 DEF Good, Counted

\* What the table of a set always is: good, and never too full.
Roomy(t) == Good(t) /\ t.count * 10 <= t.capacity * 7

\* Adding a key keeps a table so, and loses none.
LEMMA AddedKeeps ==
  ASSUME HashTyped, NEW t, Roomy(t), NEW key \in Fingerprints
  PROVE  /\ Found(t, key) <=> key \in Stored(t)
         /\ Roomy(Added(t, key))
         /\ Stored(Added(t, key)) = Stored(t) \cup {key}
<1>1. /\ Good(t)
      /\ t.capacity \in Nat \ {0} /\ t.count \in Nat
      /\ t.count * 10 <= t.capacity * 7
  BY SlotsTyped DEF Roomy, Good
<1>2. t.count < t.capacity
  BY <1>1
<1>3. Found(t, key) <=> key \in Stored(t)
  BY <1>1, <1>2, SearchEnds
<1>4. CASE key \in Stored(t)
  <2>1. Added(t, key) = t
    BY <1>3, <1>4 DEF Added
  <2> QED
    BY <1>3, <1>4, <2>1
<1>5. CASE key \notin Stored(t)
  <2> DEFINE room == IF Crowded(t) THEN Grow(t) ELSE t
  <2>1. /\ Good(room)
        /\ Stored(room) = Stored(t)
        /\ room.count = t.count
        /\ room.capacity = IF Crowded(t) THEN 2 * t.capacity ELSE t.capacity
    BY <1>1, GrowKeeps
  <2>2. Added(t, key) = WriteSlot(room, Lookup(room, key), key)
    BY <1>3, <1>5 DEF Added
  <2> HIDE DEF room
  <2>3. (room.count + 1) * 10 <= room.capacity * 7
    BY <1>1, <2>1 DEF Crowded
  <2>4. room.capacity \in Nat \ {0} /\ room.count \in Nat
    BY <2>1, SlotsTyped DEF Good
  <2>5. room.count < room.capacity
    BY <2>3, <2>4
  <2> DEFINE w == Added(t, key)
  <2>6. /\ Good(w)
        /\ Stored(w) = Stored(t) \cup {key}
        /\ w.capacity = room.capacity
        /\ w.count = room.count + 1
    BY <1>5, <2>1, <2>2, <2>5, WriteSlotKeeps
  <2>7. w.count * 10 <= w.capacity * 7
    BY <2>3, <2>6
  <2> QED
    BY <1>3, <2>6, <2>7 DEF Roomy
<1> QED
  BY <1>4, <1>5

\* The map goes into the new table in whatever order it comes.
LEMMA SpillKeeps ==
  ASSUME HashTyped, entries \in SUBSET Fingerprints, IsFiniteSet(entries),
         Cardinality(entries) <= MemoryLimit,
         NEW order \in SetToSeqs(entries), NEW w, w = InsertAll(NewTable, order)
  PROVE  Roomy(w) /\ Stored(w) = entries
<1> DEFINE n == Cardinality(entries)
<1>1. n \in Nat /\ MemoryLimit \in Nat /\ InitialSlots \in Nat
      /\ n * 10 <= InitialSlots * 7
  BY FS_CardinalityType, FingerprintAssumption
<1>2. order \in [1..n -> entries] /\ \A i, j \in 1..n : i # j => order[i] # order[j]
  BY DEF SetToSeqs
<1>3. order \in Injection(1..n, entries)
  BY <1>2 DEF Injection, IsInjective
<1>4. Cardinality(1..n) = n
  BY <1>1, FS_Interval
<1>5. order \in Surjection(1..n, entries)
  BY <1>3, <1>4, FS_Injection
<1>6. {order[i] : i \in 1..n} = entries
  BY <1>2, <1>5 DEF Surjection
<1>7. order \in Seq(Fingerprints \cup {Free}) /\ Len(order) = n
  BY <1>1, <1>2
<1>8. /\ Good(w)
      /\ Stored(w) = entries \ {Free}
      /\ w.capacity = InitialSlots
  <2>1. NewTable.count + Len(order) <= NewTable.capacity
    BY <1>1, <1>7, NewTableGood
  <2> QED
    BY <1>6, <1>7, <2>1, NewTableGood, InsertAllKeeps
<1>9. Stored(w) = entries
  BY <1>8, FingerprintAssumption
<1>10. w.count = n
  BY <1>8, <1>9 DEF Good, Counted
<1> QED
  BY <1>1, <1>8, <1>9, <1>10 DEF Roomy

----------------------------------------------------------------------------
(* The set *)

\* The map or the table holds exactly what was added, and the table has room.
SetInv ==
  /\ TypeOK
  /\ IsFiniteSet(entries)
  /\ Roomy(table)
  /\ mode = "memory" => members = entries
  /\ mode = "table" => members = Stored(table)

\* The table stays as it should be where the step puts one that is.
LEMMA RoomyNext ==
  ASSUME hash' = hash, Roomy(table')
  PROVE  Roomy(table)' /\ Stored(table)' = Stored(table')
<1>1. Stored(table)' = Stored(table')
  BY DEF Stored, Slots, SlotAt
<1>2. Reached(table)' <=> Reached(table')
  BY DEF Reached, Slots, SlotAt, Probed
<1>3. Placed(table)' /\ Once(table)' /\ Counted(table)'
  BY DEF Roomy, Good, Placed, TableType, Once, Counted, Stored, Slots, SlotAt
<1> QED
  BY <1>1, <1>2, <1>3 DEF Roomy, Good

\* A new table has room.
LEMMA NewTableRoomy == Roomy(NewTable)
<1>1. 0 * 10 <= InitialSlots * 7
  BY FingerprintAssumption
<1> QED
  BY <1>1, NewTableGood DEF Roomy

\* The file of a table that is as it should be has the type of its slots.
LEMMA RoomyTyped ==
  ASSUME NEW t, Roomy(t)
  PROVE  t.file \in Seq(Fingerprints \cup {Free}) /\ t.base + t.capacity = Len(t.file)
BY SlotsTyped DEF Roomy, Good, Placed

\* The set starts empty.
LEMMA SetInvInit == Init => SetInv
<1> SUFFICES ASSUME Init PROVE SetInv
  OBVIOUS
<1>1. Roomy(table) /\ IsFiniteSet(entries) /\ Cardinality(entries) = 0
  BY NewTableRoomy, FS_EmptySet DEF Init
<1>2. 0 <= MemoryLimit
  BY FingerprintAssumption
<1>3. answer \in BOOLEAN /\ failed \in BOOLEAN
  BY DEF Init
<1>4. TypeOK
  BY <1>1, <1>2, <1>3, RoomyTyped DEF Init, TypeOK
<1> QED
  BY <1>1, <1>4 DEF Init, SetInv

\* What a step that answers has in common.
LEMMA AnswerTyped ==
  ASSUME TypeOK, NEW key \in Fingerprints, NEW isNew \in BOOLEAN, Answer(key, isNew)
  PROVE  /\ HashTyped
         /\ hash' = hash
         /\ hash' \in [Fingerprints -> Hashes]
         /\ asked' \in Fingerprints \cup {Free}
         /\ answer' \in BOOLEAN
         /\ failed' \in BOOLEAN
         /\ members' \in SUBSET Fingerprints
         /\ members' = members \cup {key}
<1>1. answer' \in BOOLEAN
  BY DEF Answer
<1>2. failed' \in BOOLEAN
  BY DEF TypeOK, Answer
<1> QED
  BY <1>1, <1>2 DEF TypeOK, Answer, HashTyped

\* An addition keeps the set exact, and says whether the fingerprint was new.
LEMMA AddKeeps ==
  ASSUME SetInv, NEW key \in Fingerprints,
         AddInMemory(key) \/ SpillAndAdd(key) \/ AddInTable(key)
  PROVE  SetInv' /\ answer' = (asked' \notin members)
<1>1. TypeOK /\ HashTyped
  BY DEF SetInv, TypeOK, HashTyped
<1>2. ASSUME NEW t, Roomy(t), Stored(t) = members, mode' = "table",
             entries' = entries \/ entries' = {},
             table' = Added(t, key), Answer(key, ~Found(t, key))
      PROVE  SetInv' /\ answer' = (asked' \notin members)
  <2>1. /\ Found(t, key) <=> key \in members
        /\ Roomy(table')
        /\ Stored(table') = members \cup {key}
    BY <1>1, <1>2, AddedKeeps
  <2>2. /\ hash' = hash
        /\ hash' \in [Fingerprints -> Hashes]
        /\ asked' \in Fingerprints \cup {Free}
        /\ answer' \in BOOLEAN
        /\ failed' \in BOOLEAN
        /\ members' \in SUBSET Fingerprints
        /\ members' = members \cup {key}
    BY <1>1, <1>2, AnswerTyped
  <2>3. Roomy(table)' /\ Stored(table)' = members'
    BY <2>1, <2>2, RoomyNext
  <2>4. /\ IsFiniteSet(entries')
        /\ Cardinality(entries') <= MemoryLimit
        /\ entries' \in SUBSET Fingerprints
    <3>1. IsFiniteSet({}) /\ Cardinality({}) <= MemoryLimit
      BY FS_EmptySet, FingerprintAssumption
    <3> QED
      BY <1>1, <1>2, <3>1 DEF SetInv, TypeOK
  <2>5. table'.file \in Seq(Fingerprints \cup {Free})
        /\ table'.base + table'.capacity = Len(table'.file)
    BY <2>1, RoomyTyped
  <2>6. TypeOK'
    BY <1>2, <2>2, <2>4, <2>5 DEF TypeOK
  <2>7. answer' = (asked' \notin members)
    BY <1>2, <2>1 DEF Answer
  <2> QED
    BY <1>2, <2>3, <2>4, <2>6, <2>7 DEF SetInv
<1>3. CASE AddInMemory(key)
  <2>1. mode = "memory" /\ mode' = mode /\ table' = table /\ entries' = entries \cup {key}
    BY <1>3 DEF AddInMemory
  <2>2. Answer(key, key \notin entries)
    BY <1>3 DEF AddInMemory
  <2>3. /\ hash' = hash
        /\ hash' \in [Fingerprints -> Hashes]
        /\ asked' \in Fingerprints \cup {Free}
        /\ answer' \in BOOLEAN
        /\ failed' \in BOOLEAN
        /\ members' \in SUBSET Fingerprints
        /\ members' = members \cup {key}
    BY <1>1, <2>2, AnswerTyped
  <2>4. /\ IsFiniteSet(entries')
        /\ Cardinality(entries') = IF key \in entries THEN Cardinality(entries)
                                   ELSE Cardinality(entries) + 1
        /\ Cardinality(entries) \in Nat
    BY <2>1, FS_AddElement, FS_CardinalityType DEF SetInv
  <2>5. Cardinality(entries') <= MemoryLimit
    BY <1>1, <1>3, <2>4, FingerprintAssumption DEF AddInMemory, TypeOK
  <2>6. Roomy(table)'
    BY <2>1, <2>3, RoomyNext DEF SetInv
  <2>7. TypeOK'
    BY <1>1, <2>1, <2>3, <2>5 DEF TypeOK
  <2>8. members' = entries'
    BY <2>1, <2>3 DEF SetInv
  <2>9. answer' = (asked' \notin members)
    BY <2>1, <2>2 DEF Answer, SetInv
  <2> QED
    BY <2>1, <2>4, <2>6, <2>7, <2>8, <2>9 DEF SetInv
<1>4. CASE SpillAndAdd(key)
  <2>1. PICK order \in SetToSeqs(entries) :
          /\ table' = Added(InsertAll(NewTable, order), key)
          /\ Answer(key, ~Found(InsertAll(NewTable, order), key))
    BY <1>4 DEF SpillAndAdd
  <2> DEFINE t == InsertAll(NewTable, order)
  <2>2. Roomy(t) /\ Stored(t) = members
    BY <1>1, <1>4, SpillKeeps DEF SpillAndAdd, MustSpill, SetInv, TypeOK
  <2>3. mode' = "table" /\ entries' = {}
    BY <1>4 DEF SpillAndAdd
  <2> HIDE DEF t
  <2>4. table' = Added(t, key) /\ Answer(key, ~Found(t, key))
    BY <2>1 DEF t
  <2> QED
    BY <1>2, <2>2, <2>3, <2>4
<1>5. CASE AddInTable(key)
  <2>1. mode = "table" /\ mode' = "table" /\ entries' = entries
    BY <1>5 DEF AddInTable
  <2>2. Roomy(table) /\ Stored(table) = members
    BY <2>1 DEF SetInv
  <2> QED
    BY <1>2, <1>5, <2>1, <2>2 DEF AddInTable, SetInv
<1> QED
  BY <1>3, <1>4, <1>5

\* A failure and the end of the set leave nothing wrong behind.
LEMMA OthersKeep ==
  ASSUME SetInv, Close \/ (\E key \in Fingerprints : AddFails(key)) \/ UNCHANGED vars
  PROVE  SetInv' /\ (failed' \/ mode' = "closed" \/ UNCHANGED vars)
<1>1. CASE Close
  <2>1. /\ hash' = hash /\ table' = NewTable /\ mode' = "closed"
        /\ UNCHANGED <<entries, asked, answer, failed, members>>
    BY <1>1 DEF Close
  <2>2. Roomy(table)'
    BY <2>1, NewTableRoomy, RoomyNext
  <2>3. TypeOK'
    BY <2>1, NewTableRoomy, RoomyTyped DEF SetInv, TypeOK
  <2> QED
    BY <2>1, <2>2, <2>3 DEF SetInv
<1>2. CASE (\E key \in Fingerprints : AddFails(key)) \/ UNCHANGED vars
  <2>1. /\ UNCHANGED <<hash, mode, entries, table, answer, members>>
        /\ asked' \in Fingerprints \cup {Free}
        /\ (failed' = TRUE \/ failed' = failed)
        /\ failed' \/ UNCHANGED vars
    BY <1>2 DEF AddFails, vars, SetInv, TypeOK
  <2>2. Roomy(table)' /\ Stored(table)' = Stored(table)
    <3>1. table' = table /\ hash' = hash
      BY <2>1
    <3> QED
      BY <3>1, RoomyNext DEF SetInv
  <2>3. failed' \in BOOLEAN
    BY <2>1 DEF SetInv, TypeOK
  <2>4. TypeOK'
    BY <2>1, <2>3 DEF SetInv, TypeOK
  <2> QED
    BY <2>1, <2>2, <2>4 DEF SetInv
<1> QED
  BY <1>1, <1>2

\* The map and the table are exact in every reachable state.
LEMMA SetInvAlways == Spec => []SetInv
<1>1. SetInv /\ [Next]_vars => SetInv'
  BY AddKeeps, OthersKeep DEF Next
<1> QED
  BY <1>1, SetInvInit, PTL DEF Spec

\* The map keeps its limit, and the slots of the table end where its file ends,
\* however often it has grown.
THEOREM SetTypeCorrect == Spec => []TypeOK
<1>1. SetInv => TypeOK
  BY DEF SetInv
<1> QED
  BY <1>1, SetInvAlways, PTL

\* The table is never more than 70 % full, so that a search always ends at a free
\* slot, although a spill writes the whole map without looking at the load.
THEOREM TableNeverFull == Spec => []NeverFull
<1>1. SetInv => NeverFull
  BY DEF SetInv, Roomy, NeverFull
<1> QED
  BY <1>1, SetInvAlways, PTL

\* An Add that does not fail answers whether its fingerprint is new, for every hash
\* function: a spill and a growth of the table lose no key and bring back none.
THEOREM AnswersAlwaysExact == Spec => AnswersExact
<1> DEFINE Exact == ~failed' /\ mode' # "closed" => answer' = (asked' \notin members)
<1>1. SetInv /\ [Next]_vars => [Exact]_vars
  <2> SUFFICES ASSUME SetInv, [Next]_vars PROVE [Exact]_vars
    OBVIOUS
  <2>1. CASE \E key \in Fingerprints : AddInMemory(key) \/ SpillAndAdd(key) \/ AddInTable(key)
    BY <2>1, AddKeeps
  <2>2. CASE Close \/ (\E key \in Fingerprints : AddFails(key)) \/ UNCHANGED vars
    <3>1. failed' \/ mode' = "closed" \/ UNCHANGED vars
      BY <2>2, OthersKeep
    <3> QED
      BY <3>1
  <2> QED
    BY <2>1, <2>2 DEF Next
<1> QED
  BY <1>1, SetInvAlways, PTL DEF Spec, AnswersExact
=============================================================================
