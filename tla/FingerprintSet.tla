--------------------------- MODULE FingerprintSet ---------------------------
(***************************************************************************)
(* The set behind every deduplication (internal/client/dedupe.go): a map   *)
(* in memory up to a limit, then a hash table in a file, with linear       *)
(* probing, that is rebuilt behind itself at twice the size before it is   *)
(* more than 70 % full.  One goroutine owns a set, so that an Add is one   *)
(* step.  A fingerprint stands for its domain; the offset of a slot in the *)
(* file is counted in slots.                                               *)
(***************************************************************************)
EXTENDS Integers, SequencesExt

CONSTANTS
  Fingerprints,  \* the fingerprints of the domains added
  Hashes,        \* the values their first eight bytes may have
  Free,          \* a slot that was never written
  MemoryLimit,   \* maxInMemoryFingerprints
  InitialSlots   \* initialFingerprintSlots, a power of two

ASSUME FingerprintAssumption ==
  /\ Free \notin Fingerprints
  /\ Hashes \subseteq Nat
  /\ MemoryLimit \in Nat \ {0}
  /\ InitialSlots \in Nat
  /\ MemoryLimit * 10 <= InitialSlots * 7

VARIABLES
  hash,     \* the hash of every fingerprint, chosen once
  mode,     \* "memory", "table", "closed"
  entries,  \* s.entries
  table,    \* s.table: the slots of its file, base, capacity and count
  asked,    \* the fingerprint of the last Add
  answer,   \* what it returned: was the fingerprint new?
  failed,   \* an Add returned an error; its caller ends and never adds again
  members   \* history: the fingerprints ever added

vars == <<hash, mode, entries, table, asked, answer, failed, members>>

----------------------------------------------------------------------------
(* The table *)

FreeSlots(n) == [slot \in 1..n |-> Free]
NewTable == [file |-> FreeSlots(InitialSlots), base |-> 0,
             capacity |-> InitialSlots, count |-> 0]

\* The content of slot s, 0 <= s < capacity.
SlotAt(t, s) == t.file[t.base + s + 1]

\* Linear probing, round the end of the table.
Probed(t, key, probe) == (hash[key] + probe) % t.capacity

\* The slot where the search for a key ends: it holds the key or is free.
Lookup(t, key) ==
  LET ends == {p \in 0..(t.capacity - 1) : SlotAt(t, Probed(t, key, p)) \in {Free, key}}
  IN  Probed(t, key, Min(ends))

Found(t, key) == SlotAt(t, Lookup(t, key)) = key

WriteSlot(t, slot, key) ==
  [t EXCEPT !.file[t.base + slot + 1] = key, !.count = @ + 1]

InsertNew(t, key) == IF Found(t, key) THEN t ELSE WriteSlot(t, Lookup(t, key), key)

\* The keys of slots or of a map go into table t one by one; a free slot holds none.
InsertAll(t, keys) ==
  LET filled[n \in 0..Len(keys)] ==
        IF n = 0 THEN t
        ELSE IF keys[n] = Free THEN filled[n - 1]
        ELSE InsertNew(filled[n - 1], keys[n])
  IN  filled[Len(keys)]

\* The table of twice the size lies behind the old one in the same file.
Grow(t) ==
  LET next == [file |-> t.file \o FreeSlots(2 * t.capacity), base |-> Len(t.file),
               capacity |-> 2 * t.capacity, count |-> 0]
  IN  InsertAll(next, SubSeq(t.file, t.base + 1, t.base + t.capacity))

\* Faulty variant: one entry too late.
CrowdedLate(t) == t.count * 10 > t.capacity * 7
Crowded(t) == (t.count + 1) * 10 > t.capacity * 7

\* diskFingerprintTable.add.  A grown table is searched again for the slot.
\* Faulty variant: the slot found before it grew is used.
AddedAtOldSlot(t, key) ==
  IF Found(t, key) THEN t
  ELSE WriteSlot(IF Crowded(t) THEN Grow(t) ELSE t, Lookup(t, key), key)
Added(t, key) ==
  IF Found(t, key) THEN t
  ELSE LET room == IF Crowded(t) THEN Grow(t) ELSE t
       IN  WriteSlot(room, Lookup(room, key), key)

----------------------------------------------------------------------------
Init ==
  /\ hash \in [Fingerprints -> Hashes]
  /\ mode = "memory"
  /\ entries = {}
  /\ table = NewTable
  /\ asked = Free
  /\ answer = FALSE
  /\ failed = FALSE
  /\ members = {}

Answer(key, isNew) ==
  /\ ~failed
  /\ asked' = key
  /\ answer' = isNew
  /\ members' = members \cup {key}
  /\ UNCHANGED <<hash, failed>>

\* Faulty variant: the limit is exceeded by one.
AddInMemoryOneMore(key) ==
  /\ mode = "memory"
  /\ key \in entries \/ Cardinality(entries) <= MemoryLimit
  /\ entries' = entries \cup {key}
  /\ Answer(key, key \notin entries)
  /\ UNCHANGED <<mode, table>>
AddInMemory(key) ==
  /\ mode = "memory"
  /\ key \in entries \/ Cardinality(entries) < MemoryLimit
  /\ entries' = entries \cup {key}
  /\ Answer(key, key \notin entries)
  /\ UNCHANGED <<mode, table>>

MustSpill(key) ==
  /\ mode = "memory"
  /\ key \notin entries
  /\ Cardinality(entries) >= MemoryLimit

\* The entries move to a new table in the order in which Go ranges over a map,
\* which is any order; the key is added to the table.
SpillAndAdd(key) ==
  /\ MustSpill(key)
  /\ \E order \in SetToSeqs(entries) :
       LET spilled == InsertAll(NewTable, order)
       IN  /\ table' = Added(spilled, key)
           /\ Answer(key, ~Found(spilled, key))
  /\ mode' = "table"
  /\ entries' = {}

AddInTable(key) ==
  /\ mode = "table"
  /\ table' = Added(table, key)
  /\ Answer(key, ~Found(table, key))
  /\ UNCHANGED <<mode, entries>>

\* A read, a write or the storage reserve fails.
AddFails(key) ==
  /\ mode = "table" \/ MustSpill(key)
  /\ ~failed
  /\ failed' = TRUE
  /\ asked' = key
  /\ UNCHANGED <<hash, mode, entries, table, answer, members>>

\* The table is closed and its file removed.
Close ==
  /\ mode = "table"
  /\ mode' = "closed"
  /\ table' = NewTable
  /\ UNCHANGED <<hash, entries, asked, answer, failed, members>>

Next ==
  \/ \E key \in Fingerprints :
       AddInMemory(key) \/ SpillAndAdd(key) \/ AddInTable(key) \/ AddFails(key)
  \/ Close

Spec == Init /\ [][Next]_vars

----------------------------------------------------------------------------
(* Properties *)

TypeOK ==
  /\ hash \in [Fingerprints -> Hashes]
  /\ mode \in {"memory", "table", "closed"}
  /\ entries \in SUBSET Fingerprints
  /\ Cardinality(entries) <= MemoryLimit
  /\ table.file \in Seq(Fingerprints \cup {Free})
  /\ table.base + table.capacity = Len(table.file)
  /\ asked \in Fingerprints \cup {Free}
  /\ answer \in BOOLEAN
  /\ failed \in BOOLEAN
  /\ members \in SUBSET Fingerprints

\* The table never becomes so full that a search does not end at a free slot
\* (dedupe.go:161), although a spill fills it without looking at its load.
NeverFull == table.count * 10 <= table.capacity * 7

\* docs/design-contract.md:31-33, a domain is accepted once: an Add that does
\* not fail says whether the fingerprint is new, across the change from memory
\* to the table and every growth.
AnswersExact ==
  [][~failed' /\ mode' # "closed" => answer' = (asked' \notin members)]_vars
=============================================================================
