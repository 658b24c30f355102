------------------------ MODULE RuleBotSenderProofs ------------------------
(***************************************************************************)
(* What holds of RuleBotSender for every value of its constants, proved    *)
(* with TLAPS.  Two inductive invariants carry the proofs: Safe relates    *)
(* the memory of the sender to its checkpoint file in each phase, and      *)
(* Covered accounts for every record that a checkpoint has left behind.    *)
(* From them follows what the sender promises to the outside: records are  *)
(* delivered or queued, acknowledged keys are not sent again, and the      *)
(* sender implements ReliableForwarding, as far as the exclusions let it.  *)
(***************************************************************************)
EXTENDS RuleBotSender, SequenceTheorems, TLAPS

----------------------------------------------------------------------------
(* The conjuncts of the inductive invariants *)

\* In memory the sender holds what the checkpoint file holds: exactly so
\* between turns and while sending, but for the offset before the end of a
\* turn; when it is created there is a file to load.
InStep ==
  /\ phase \in {"idle", "sending"} =>
       stateFile = [offset |-> offset, pending |-> pending, pause |-> pauseUntil]
  /\ phase \in {"created", "renamed"} => stateFile # NoState
  /\ phase = "renamed" => pending = stateFile.pending /\ pauseUntil = stateFile.pause

\* The record being sent exists and has a key; a fresh one fits the queue.
SendingReal ==
  phase = "sending" =>
    /\ IF retrying THEN index \in DOMAIN pending
       ELSE index = 0 /\ Len(pending) < MaxPending
    /\ SendingOffset < Len(output)
    /\ SendingKey # NoKey

\* The set of delivered keys vouches for nothing that could still be lost.
DeliveredCovered ==
  /\ phase \in {"idle", "renamed"} =>
       delivered \subseteq acked \cup waived \cup PendingKeys(stateFile)
  /\ phase = "sending" =>
       delivered \subseteq acked \cup waived \cup PendingKeys(stateFile) \cup {SendingKey}

\* After a turn that passed over the other kind, the other kind is next.
TurnsAlternate ==
  /\ bypass <= 1
  /\ phase = "idle" /\ bypass = 1 => retryTurn = ~retrying

\* What the other results rest on.
Safe == TypeOK /\ StateAccepted /\ InStep /\ SendingReal

----------------------------------------------------------------------------
(* Lemmas about the queue of pending records *)

\* The part of Accepts that concerns the queue: at most MaxPending entries,
\* before offset off, with delays in range and without repetition.
GoodQueue(off, q) ==
  /\ Len(q) <= MaxPending
  /\ \A i \in DOMAIN q :
       /\ q[i].offset < off
       /\ q[i].delay \in 1..Day
       /\ \A j \in DOMAIN q : i # j => q[i].offset # q[j].offset

\* Accepts is the check of the offset and of the queue.
LEMMA AcceptsQueue ==
  \A s : Accepts(s) <=> s.offset <= Len(output) /\ GoodQueue(s.offset, s.pending)
BY DEF Accepts, GoodQueue

\* The positions of a queue and the fields of its entries.
LEMMA EntryFields ==
  ASSUME NEW q \in Seq(PendingEntry)
  PROVE  /\ Len(q) \in Nat
         /\ DOMAIN q = 1..Len(q)
         /\ \A i \in DOMAIN q : /\ q[i] \in PendingEntry
                               /\ q[i].offset \in Nat
                               /\ q[i].next \in Nat
                               /\ q[i].delay \in Nat
<1>1. Len(q) \in Nat /\ DOMAIN q = 1..Len(q)
  BY LenProperties
<1>2. \A i \in DOMAIN q : q[i] \in PendingEntry
  BY <1>1, ElementOfSeq
<1> QED
  BY <1>1, <1>2 DEF PendingEntry

\* Removing the entry at position i leaves the others in their order.
LEMMA RemoveAtProperties ==
  ASSUME NEW S, NEW q \in Seq(S), NEW i \in DOMAIN q
  PROVE  /\ RemoveAt(q, i) \in Seq(S)
         /\ Len(RemoveAt(q, i)) = Len(q) - 1
         /\ \A j \in 1..(Len(q) - 1) :
              RemoveAt(q, i)[j] = IF j < i THEN q[j] ELSE q[j + 1]
<1> DEFINE front == SubSeq(q, 1, i - 1)
           back == SubSeq(q, i + 1, Len(q))
<1>1. /\ Len(q) \in Nat
      /\ DOMAIN q = 1..Len(q)
      /\ \A j \in 1..Len(q) : q[j] \in S
  BY LenProperties, ElementOfSeq
<1>2. i \in 1..Len(q)
  BY <1>1
<1>3. /\ front \in Seq(S)
      /\ Len(front) = i - 1
      /\ \A j \in 1..(i - 1) : front[j] = q[j]
  <2>1. \A j \in 1..(i - 1) : q[j] \in S
    BY <1>1, <1>2
  <2>2. /\ front \in Seq(S)
        /\ Len(front) = IF 1 <= i - 1 THEN (i - 1) - 1 + 1 ELSE 0
        /\ \A j \in 1..((i - 1) - 1 + 1) : front[j] = q[1 + j - 1]
    BY <1>2, <2>1, SubSeqProperties
  <2> QED
    BY <1>2, <2>2
<1>4. /\ back \in Seq(S)
      /\ Len(back) = Len(q) - i
      /\ \A j \in 1..(Len(q) - i) : back[j] = q[i + j]
  <2>1. \A j \in (i + 1)..Len(q) : q[j] \in S
    BY <1>1, <1>2
  <2>2. /\ back \in Seq(S)
        /\ Len(back) = IF i + 1 <= Len(q) THEN Len(q) - (i + 1) + 1 ELSE 0
        /\ \A j \in 1..(Len(q) - (i + 1) + 1) : back[j] = q[(i + 1) + j - 1]
    BY <1>1, <1>2, <2>1, SubSeqProperties
  <2>3. Len(q) - (i + 1) + 1 = Len(q) - i
    BY <1>1, <1>2
  <2>4. \A j \in 1..(Len(q) - i) : back[j] = q[i + j]
    <3> SUFFICES ASSUME NEW j \in 1..(Len(q) - i)
                 PROVE  back[j] = q[i + j]
      OBVIOUS
    <3>1. (i + 1) + j - 1 = i + j
      BY <1>1, <1>2
    <3> QED
      BY <2>2, <2>3, <3>1
  <2>5. Len(back) = Len(q) - i
    BY <1>1, <1>2, <2>2
  <2> QED
    BY <2>2, <2>4, <2>5
<1>5. RemoveAt(q, i) = front \o back
  BY DEF RemoveAt
<1> HIDE DEF front, back
<1>6. /\ front \o back \in Seq(S)
      /\ Len(front \o back) = Len(front) + Len(back)
      /\ \A j \in 1..(Len(front) + Len(back)) : (front \o back)[j] =
           IF j <= Len(front) THEN front[j] ELSE back[j - Len(front)]
  BY <1>3, <1>4, ConcatProperties
<1>7. ASSUME NEW j \in 1..(Len(q) - 1)
      PROVE  (front \o back)[j] = IF j < i THEN q[j] ELSE q[j + 1]
  <2>1. CASE j < i
    BY <1>1, <1>2, <1>3, <1>4, <1>6, <2>1
  <2>2. CASE ~(j < i)
    <3>1. j - (i - 1) \in 1..(Len(q) - i) /\ i + (j - (i - 1)) = j + 1
      BY <1>1, <1>2, <2>2
    <3>2. (front \o back)[j] = back[j - (i - 1)]
      BY <1>1, <1>2, <1>3, <1>4, <1>6, <2>2
    <3> QED
      BY <1>4, <2>2, <3>1, <3>2
  <2> QED
    BY <2>1, <2>2
<1> QED
  BY <1>1, <1>2, <1>3, <1>4, <1>5, <1>6, <1>7

\* A good queue stays good when the offset moves on.
LEMMA QueueAdvance ==
  ASSUME NEW q \in Seq(PendingEntry), NEW off \in Nat, GoodQueue(off, q)
  PROVE  GoodQueue(off + 1, q)
<1>1. \A i \in DOMAIN q : q[i].offset \in Nat
  BY EntryFields
<1> QED
  BY <1>1 DEF GoodQueue

\* A good queue stays good when an entry is removed from it.
LEMMA QueueRemove ==
  ASSUME NEW q \in Seq(PendingEntry), NEW off \in Nat, GoodQueue(off, q),
         NEW i \in DOMAIN q
  PROVE  /\ RemoveAt(q, i) \in Seq(PendingEntry)
         /\ GoodQueue(off, RemoveAt(q, i))
<1> DEFINE r == RemoveAt(q, i)
           From(j) == IF j < i THEN j ELSE j + 1
<1>1. /\ r \in Seq(PendingEntry)
      /\ Len(r) = Len(q) - 1
      /\ \A j \in 1..(Len(q) - 1) : r[j] = IF j < i THEN q[j] ELSE q[j + 1]
  BY RemoveAtProperties
<1>2. /\ Len(q) \in Nat
      /\ DOMAIN q = 1..Len(q)
      /\ DOMAIN r = 1..(Len(q) - 1)
      /\ i \in 1..Len(q)
  BY <1>1, LenProperties
<1> HIDE DEF r
<1>3. \A j \in DOMAIN r : From(j) \in DOMAIN q /\ r[j] = q[From(j)]
  BY <1>1, <1>2
<1>4. \A j, k \in DOMAIN r : j # k => From(j) # From(k)
  BY <1>2
<1> HIDE DEF From
<1>5. Len(r) <= MaxPending
  BY <1>1, <1>2, SenderAssumption DEF GoodQueue
<1>6. GoodQueue(off, r)
  BY <1>3, <1>4, <1>5 DEF GoodQueue
<1> QED
  BY <1>1, <1>6 DEF r

\* A record at the offset may be queued when there is room for it.
LEMMA QueueAppend ==
  ASSUME NEW q \in Seq(PendingEntry), NEW off \in Nat, GoodQueue(off, q),
         Len(q) < MaxPending,
         NEW e \in PendingEntry, e.offset = off, e.delay \in 1..Day
  PROVE  /\ Append(q, e) \in Seq(PendingEntry)
         /\ GoodQueue(off + 1, Append(q, e))
<1> DEFINE r == Append(q, e)
<1>1. /\ r \in Seq(PendingEntry)
      /\ Len(r) = Len(q) + 1
      /\ \A j \in 1..Len(q) : r[j] = q[j]
      /\ r[Len(q) + 1] = e
  BY AppendProperties
<1>2. /\ Len(q) \in Nat
      /\ DOMAIN q = 1..Len(q)
      /\ DOMAIN r = 1..(Len(q) + 1)
  BY <1>1, LenProperties
<1> HIDE DEF r
<1>3. \A j \in 1..Len(q) : r[j] = q[j] /\ q[j].offset < off /\ q[j].delay \in 1..Day
  BY <1>1, <1>2 DEF GoodQueue
<1>4. \A j \in 1..Len(q) : q[j].offset \in Nat
  BY <1>2, EntryFields
<1>5. Len(r) <= MaxPending
  BY <1>1, <1>2, SenderAssumption
<1>6. \A j \in DOMAIN r : r[j].offset < off + 1 /\ r[j].delay \in 1..Day
  BY <1>1, <1>2, <1>3, <1>4
<1>7. ASSUME NEW j \in DOMAIN r, NEW k \in DOMAIN r, j # k
      PROVE  r[j].offset # r[k].offset
  <2>1. CASE j = Len(q) + 1
    BY <1>1, <1>2, <1>3, <1>4, <1>7, <2>1
  <2>2. CASE k = Len(q) + 1
    BY <1>1, <1>2, <1>3, <1>4, <1>7, <2>2
  <2>3. CASE j \in 1..Len(q) /\ k \in 1..Len(q)
    BY <1>2, <1>3, <1>7, <2>3 DEF GoodQueue
  <2> QED
    BY <1>2, <2>1, <2>2, <2>3
<1>8. GoodQueue(off + 1, r)
  BY <1>5, <1>6, <1>7 DEF GoodQueue
<1> QED
  BY <1>1, <1>8 DEF r

\* An entry may be replaced by one for the same record.
LEMMA QueueUpdate ==
  ASSUME NEW q \in Seq(PendingEntry), NEW off \in Nat, GoodQueue(off, q),
         NEW i \in DOMAIN q,
         NEW e \in PendingEntry, e.offset = q[i].offset, e.delay \in 1..Day
  PROVE  /\ [q EXCEPT ![i] = e] \in Seq(PendingEntry)
         /\ GoodQueue(off, [q EXCEPT ![i] = e])
<1> DEFINE r == [q EXCEPT ![i] = e]
<1>1. DOMAIN q = 1..Len(q)
  BY LenProperties
<1>2. /\ r \in Seq(PendingEntry)
      /\ Len(r) = Len(q)
      /\ \A j \in DOMAIN q : r[j] = IF j = i THEN e ELSE q[j]
      /\ DOMAIN r = DOMAIN q
  BY <1>1, ExceptSeq
<1> HIDE DEF r
<1>3. \A j \in DOMAIN r : r[j].offset = q[j].offset /\ r[j].delay \in 1..Day
  BY <1>2 DEF GoodQueue
<1>4. GoodQueue(off, r)
  BY <1>2, <1>3 DEF GoodQueue
<1> QED
  BY <1>2, <1>4 DEF r

----------------------------------------------------------------------------
(* Lemmas about values and states *)

\* The delay of the next attempt is one that a later start accepts.
LEMMA DelayInRange ==
  ASSUME NEW i, i = 0 \/ (i \in DOMAIN pending /\ pending[i].delay \in 1..Day)
  PROVE  NextDelay(i) \in 1..Day
BY SenderAssumption DEF NextDelay, Smaller

\* Jitter never turns a delay negative.
LEMMA WaitIsNatural ==
  ASSUME NEW d \in Nat, NEW wait \in Jitter(d)
  PROVE  wait \in Nat
<1>1. d \div 5 \in 0..d
  OBVIOUS
<1> QED
  BY <1>1 DEF Jitter

\* However the attempt failed, the time to the next one is a natural number.
LEMMA RetryInIsNatural ==
  ASSUME NEW kind, NEW wait \in Nat, NEW retryAfter \in RetryAfters
  PROVE  RetryIn(kind, wait, retryAfter) \in Nat
BY SenderAssumption DEF RetryIn, RetryAfter, Larger, Smaller

\* The keys of a prefix of the output are keys.
LEMMA KeysAreKeys ==
  ASSUME output \in Seq(Hosts), NEW n
  PROVE  KeysUpTo(n) \in SUBSET Keys
<1>1. \A i \in DOMAIN output : output[i] \in Hosts
  BY LenProperties, ElementOfSeq
<1> QED
  BY <1>1, SenderAssumption DEF KeysUpTo

\* A record within the output has a key or none is sent for it.
LEMMA RecordHasKey ==
  ASSUME output \in Seq(Hosts), NEW o \in Nat, o < Len(output)
  PROVE  KeyOf[RecordAt(o)] \in Keys \cup {NoKey}
<1>1. o + 1 \in 1..Len(output)
  BY LenProperties
<1>2. output[o + 1] \in Hosts
  BY <1>1, ElementOfSeq
<1> QED
  BY <1>2, SenderAssumption DEF RecordAt

\* The record written to the file is a checkpoint.
LEMMA CheckpointTyped ==
  ASSUME NEW off \in Nat, NEW q \in Seq(PendingEntry), NEW pause \in Nat
  PROVE  /\ [offset |-> off, pending |-> q, pause |-> pause] \in Checkpoint
         /\ [offset |-> off, pending |-> q, pause |-> pause] # NoState
BY NoStateAssumption DEF Checkpoint

\* A checkpoint in use is typed and accepted.
LEMMA FileAccepted ==
  ASSUME Safe, stateFile # NoState
  PROVE  /\ stateFile \in Checkpoint
         /\ stateFile.offset \in Nat
         /\ stateFile.pending \in Seq(PendingEntry)
         /\ stateFile.pause \in Nat
         /\ stateFile.offset <= Len(output)
         /\ GoodQueue(stateFile.offset, stateFile.pending)
<1>1. stateFile \in Checkpoint
  BY DEF Safe, TypeOK
<1>2. Accepts(stateFile)
  BY DEF Safe, StateAccepted, Checkpoints
<1> QED
  BY <1>1, <1>2, AcceptsQueue DEF Checkpoint

\* While the sender runs, its memory is as good as the checkpoint file.
LEMMA MemoryAccepted ==
  ASSUME Safe, phase \in {"idle", "sending"}
  PROVE  /\ stateFile = [offset |-> offset, pending |-> pending, pause |-> pauseUntil]
         /\ stateFile # NoState
         /\ offset <= Len(output)
         /\ GoodQueue(offset, pending)
<1>1. stateFile = [offset |-> offset, pending |-> pending, pause |-> pauseUntil]
  BY DEF Safe, InStep
<1>2. stateFile # NoState
  BY <1>1, CheckpointTyped DEF Safe, TypeOK
<1> QED
  BY <1>1, <1>2, FileAccepted

\* The bookkeeping of a turn keeps its types.
LEMMA TakeTurnTyped ==
  ASSUME bypass \in Nat, NEW isRetry \in BOOLEAN, NEW i \in Nat, NEW STATE passesOver,
         TakeTurn(isRetry, i, passesOver)
  PROVE  retrying' \in BOOLEAN /\ index' \in Nat /\ bypass' \in Nat
<1>1. bypass' = 0 \/ bypass' = 1 \/ bypass' = bypass + 1
  BY DEF TakeTurn
<1> QED
  BY <1>1 DEF TakeTurn

\* A step that leaves the output alone and saves s, or nothing, accepts its
\* checkpoints when s is acceptable.
LEMMA SaveAccepted ==
  ASSUME StateAccepted, output' = output,
         \A s \in Checkpoints' : s \in Checkpoints \/ Accepts(s)
  PROVE  StateAccepted'
<1>1. \A s : Accepts(s)' <=> Accepts(s)
  BY DEF Accepts
<1> QED
  BY <1>1 DEF StateAccepted

----------------------------------------------------------------------------
(* Safe is inductive *)

\* The initial states are safe.
LEMMA SafeInit == Init => Safe
<1> SUFFICES ASSUME Init PROVE Safe
  OBVIOUS
<1>1. output \in Seq(Hosts)
  <2>1. output \in UNION {[1..m -> Hosts] : m \in 0..MaxOutput}
    BY DEF Init, BoundedSeq, SeqOf
  <2> QED
    BY <2>1, SeqDef, SenderAssumption
<1>2. pending \in Seq(PendingEntry)
  BY EmptySeq DEF Init
<1>3. TypeOK
  <2>1. retryTurn \in BOOLEAN /\ retrying \in BOOLEAN
    BY DEF Init
  <2>2. /\ delivered \in SUBSET Keys
        /\ acked \in SUBSET Keys
        /\ waived \in SUBSET Keys
    BY DEF Init
  <2>3. faults \in 0..MaxFaults
    BY SenderAssumption DEF Init
  <2>4. /\ stateFile \in Checkpoint \cup {NoState}
        /\ stateStable \in Checkpoint \cup {NoState}
    BY DEF Init
  <2> QED
    BY <1>1, <1>2, <2>1, <2>2, <2>3, <2>4 DEF Init, TypeOK
<1>4. StateAccepted
  BY DEF Init, StateAccepted, Checkpoints
<1> QED
  BY <1>3, <1>4 DEF Init, Safe, InStep, SendingReal

\* The output has grown or is the same, and time may have passed; that is all.
Grown ==
  /\ output' \in Seq(Hosts)
  /\ Len(output) <= Len(output')
  /\ \A i \in 1..Len(output) : output'[i] = output[i]
  /\ now' \in Nat
  /\ UNCHANGED <<excluded, disk, phase, memory, history>>

\* A new record makes the output grow, and a tick lets time pass.
LEMMA EnvironmentGrows ==
  ASSUME Safe, Tick \/ \E host \in Hosts : Append1(host)
  PROVE  Grown
<1>1. output \in Seq(Hosts) /\ Len(output) \in Nat /\ now \in Nat
  BY LenProperties DEF Safe, TypeOK
<1>2. CASE Tick
  BY <1>1, <1>2 DEF Tick, Grown
<1>3. ASSUME NEW host \in Hosts, Append1(host)
      PROVE  Grown
  BY <1>1, <1>3, AppendProperties DEF Append1, Grown
<1> QED
  BY <1>2, <1>3

\* While the output grows the sender stays safe.
LEMMA SafeGrows ==
  ASSUME Safe, Grown
  PROVE  Safe'
<1> USE DEF memory, disk, history
<1>1. Len(output) \in Nat /\ Len(output') \in Nat
  BY LenProperties DEF Grown, Safe, TypeOK
<1>2. \A s \in Checkpoint : Accepts(s) => Accepts(s)'
  BY <1>1 DEF Grown, Accepts, Checkpoint
<1>3. StateAccepted'
  BY <1>2 DEF Grown, Safe, StateAccepted, Checkpoints, TypeOK
<1>4. TypeOK'
  BY DEF Grown, Safe, TypeOK
<1>5. InStep'
  BY DEF Grown, Safe, InStep
<1>6. SendingReal'
  <2> SUFFICES ASSUME phase = "sending" PROVE SendingReal'
    BY DEF Grown, SendingReal
  <2>1. SendingOffset \in Nat /\ SendingOffset < Len(output)
    BY EntryFields DEF Safe, SendingReal, SendingOffset, TypeOK
  <2>2. SendingOffset' = SendingOffset
    BY DEF Grown, SendingOffset
  <2>3. RecordAt(SendingOffset)' = RecordAt(SendingOffset)
    BY <1>1, <2>1, <2>2 DEF Grown, RecordAt
  <2> QED
    BY <1>1, <2>1, <2>2, <2>3 DEF Grown, Safe, SendingReal, SendingKey
<1> QED
  BY <1>3, <1>4, <1>5, <1>6 DEF Safe

\* A step of the environment: the output grows, time passes, exclusions change.
LEMMA SafeEnvironment ==
  ASSUME Safe, Environment
  PROVE  Safe'
<1> USE DEF memory, disk, history
<1>1. CASE Tick \/ \E host \in Hosts : Append1(host)
  BY <1>1, EnvironmentGrows, SafeGrows
<1>2. CASE EditExclusions
  BY <1>2 DEF EditExclusions, Safe, TypeOK, StateAccepted, Checkpoints, Accepts,
              InStep, SendingReal, SendingOffset, SendingKey, RecordAt
<1> QED
  BY <1>1, <1>2 DEF Environment

\* A start: the first one writes a checkpoint, the others load it.
LEMMA SafeStart ==
  ASSUME Safe, Create \/ CreateSynced \/ Open
  PROVE  Safe'
<1> USE DEF memory, disk, history
<1>1. CASE Create
  <2>1. Len(output) \in Nat /\ <<>> \in Seq(PendingEntry)
    BY LenProperties, EmptySeq DEF Safe, TypeOK
  <2>2. /\ stateFile' \in Checkpoint
        /\ stateFile' # NoState
        /\ stateFile'.offset \in 0..Len(output)
        /\ stateFile'.pending = <<>>
    <3>1. PICK off \in 0..Len(output) :
            stateFile' = [offset |-> off, pending |-> <<>>, pause |-> 0]
      BY <1>1, <2>1 DEF Create
    <3>2. off \in Nat
      BY <2>1
    <3> QED
      BY <2>1, <3>1, <3>2, CheckpointTyped
  <2>3. TypeOK'
    BY <1>1, <2>2, KeysAreKeys DEF Create, Safe, TypeOK
  <2>4. Accepts(stateFile')
    BY <2>1, <2>2, SenderAssumption DEF Accepts
  <2>5. StateAccepted'
    BY <1>1, <2>4, SaveAccepted DEF Create, Safe, Checkpoints
  <2> QED
    BY <1>1, <2>2, <2>3, <2>5 DEF Create, Safe, InStep, SendingReal
<1>2. ASSUME Load(stateFile), stateFile # NoState,
             stateStable' \in {stateFile, stateStable},
             UNCHANGED <<output, now, excluded, stateFile, history>>
      PROVE  Safe'
  <2>1. /\ stateFile \in Checkpoint
        /\ stateFile.offset \in Nat
        /\ stateFile.pending \in Seq(PendingEntry)
        /\ stateFile.pause \in Nat
    BY <1>2, FileAccepted
  <2>2. Remembered(stateFile) \in SUBSET Keys
    BY KeysAreKeys DEF Safe, TypeOK, Remembered
  <2>3. TypeOK'
    BY <1>2, <2>1, <2>2 DEF Load, Safe, TypeOK
  <2>4. StateAccepted'
    BY <1>2, SaveAccepted DEF Safe, Checkpoints
  <2>5. InStep'
    BY <1>2, <2>1 DEF Load, InStep, Checkpoint
  <2> QED
    BY <1>2, <2>3, <2>4, <2>5 DEF Load, Safe, SendingReal
<1>3. CASE CreateSynced
  BY <1>2, <1>3 DEF CreateSynced, Safe, InStep
<1>4. CASE Open
  BY <1>2, <1>4 DEF Open
<1> QED
  BY <1>1, <1>3, <1>4

\* A turn that starts or skips a fresh record or a retry.
LEMMA SafeTurn ==
  ASSUME Safe, Turn
  PROVE  Safe'
<1> USE DEF memory, disk, history
<1>1. phase = "idle"
  BY DEF Turn, SkipFresh, StartFresh, SkipRetry, StartRetry, FreshTurn, RetryTurn, Awake
<1>2. /\ stateFile = [offset |-> offset, pending |-> pending, pause |-> pauseUntil]
      /\ stateFile # NoState
      /\ offset <= Len(output)
      /\ GoodQueue(offset, pending)
  BY <1>1, MemoryAccepted
<1>3. /\ output \in Seq(Hosts)
      /\ Len(output) \in Nat
      /\ offset \in Nat
      /\ pending \in Seq(PendingEntry)
      /\ pauseUntil \in Nat
      /\ delivered \in SUBSET Keys
      /\ waived \in SUBSET Keys
  BY LenProperties DEF Safe, TypeOK
<1>4. /\ Len(pending) \in Nat
      /\ DOMAIN pending = 1..Len(pending)
      /\ \A i \in DOMAIN pending :
           pending[i].offset \in Nat /\ pending[i].offset < Len(output)
  BY <1>2, <1>3, EntryFields DEF GoodQueue
<1>5. CASE SkipFresh
  <2>1. offset < Len(output)
    BY <1>5 DEF SkipFresh, FreshTurn, FreshReady
  <2>2. waived' \in SUBSET Keys
    BY <1>3, <1>5, <2>1, RecordHasKey DEF SkipFresh
  <2>3. stateFile' = [offset |-> offset + 1, pending |-> pending, pause |-> pauseUntil]
    BY <1>5 DEF SkipFresh, Rename
  <2>4. stateFile' \in Checkpoint /\ stateFile' # NoState
    <3>1. offset + 1 \in Nat
      BY <1>3
    <3> QED
      BY <1>3, <2>3, <3>1, CheckpointTyped
  <2>5. Accepts(stateFile')
    <3>1. GoodQueue(offset + 1, pending) /\ offset + 1 <= Len(output)
      BY <1>2, <1>3, <2>1, QueueAdvance
    <3> QED
      BY <2>3, <3>1, AcceptsQueue
  <2>6. StateAccepted'
    BY <1>5, <2>5, SaveAccepted DEF SkipFresh, Safe, Checkpoints
  <2>7. retrying' \in BOOLEAN /\ index' \in Nat /\ bypass' \in Nat
    BY <1>5, TakeTurnTyped DEF SkipFresh, Safe, TypeOK
  <2>8. TypeOK'
    BY <1>5, <2>2, <2>4, <2>7 DEF SkipFresh, Rename, Safe, TypeOK
  <2> QED
    BY <1>5, <2>3, <2>4, <2>6, <2>8 DEF SkipFresh, Rename, Safe, InStep, SendingReal
<1>6. CASE StartFresh
  <2>1. offset < Len(output) /\ Len(pending) < MaxPending
    BY <1>6 DEF StartFresh, FreshTurn, FreshReady
  <2>2. KeyOf[RecordAt(offset)] \in Keys
    BY <1>3, <1>6, <2>1, RecordHasKey DEF StartFresh, Prepare
  <2>3. TypeOK'
    <3>1. retrying' \in BOOLEAN /\ index' \in Nat /\ bypass' \in Nat
      BY <1>6, TakeTurnTyped DEF StartFresh, Safe, TypeOK
    <3>2. delivered' \in SUBSET Keys
      BY <1>3, <1>6, <2>2 DEF StartFresh
    <3> QED
      BY <1>6, <3>1, <3>2 DEF StartFresh, Safe, TypeOK
  <2>4. StateAccepted'
    BY <1>6, SaveAccepted DEF StartFresh, Safe, Checkpoints
  <2>5. InStep'
    BY <1>2, <1>6 DEF StartFresh, InStep
  <2>6. SendingReal'
    BY <1>6, <2>1, <2>2, SenderAssumption
    DEF StartFresh, TakeTurn, SendingReal, SendingOffset, SendingKey, RecordAt
  <2> QED
    BY <2>3, <2>4, <2>5, <2>6 DEF Safe
<1>7. ASSUME NEW i \in DOMAIN pending, SkipRetry(i)
      PROVE  Safe'
  <2>1. waived' \in SUBSET Keys
    BY <1>3, <1>4, <1>7, RecordHasKey DEF SkipRetry
  <2>2. /\ pending' \in Seq(PendingEntry)
        /\ GoodQueue(offset, pending')
    BY <1>2, <1>3, <1>7, QueueRemove DEF SkipRetry
  <2>3. stateFile' = [offset |-> offset, pending |-> pending', pause |-> pauseUntil]
    BY <1>7 DEF SkipRetry, Rename
  <2>4. stateFile' \in Checkpoint /\ stateFile' # NoState
    BY <1>3, <2>2, <2>3, CheckpointTyped
  <2>5. Accepts(stateFile')
    BY <1>2, <2>2, <2>3, AcceptsQueue
  <2>6. StateAccepted'
    BY <1>7, <2>5, SaveAccepted DEF SkipRetry, Safe, Checkpoints
  <2>7. TypeOK'
    BY <1>4, <1>7, <2>1, <2>2, <2>4 DEF SkipRetry, Rename, TakeTurn, Safe, TypeOK
  <2> QED
    BY <1>7, <2>3, <2>4, <2>6, <2>7 DEF SkipRetry, Rename, Safe, InStep, SendingReal
<1>8. ASSUME NEW i \in DOMAIN pending, StartRetry(i)
      PROVE  Safe'
  <2>1. i \in Nat
    BY <1>4
  <2>2. TypeOK'
    BY <1>8, <2>1 DEF StartRetry, TakeTurn, Safe, TypeOK
  <2>3. StateAccepted'
    BY <1>8, SaveAccepted DEF StartRetry, Safe, Checkpoints
  <2>4. InStep'
    BY <1>2, <1>8 DEF StartRetry, InStep
  <2>5. KeyOf[RecordAt(pending[i].offset)] # NoKey
    BY <1>8 DEF StartRetry, Prepare
  <2>6. SendingReal'
    BY <1>4, <1>8, <2>5
    DEF StartRetry, TakeTurn, SendingReal, SendingOffset, SendingKey, RecordAt
  <2> QED
    BY <2>2, <2>3, <2>4, <2>6 DEF Safe
<1> QED
  BY <1>5, <1>6, <1>7, <1>8 DEF Turn

\* The end of an attempt: the record leaves the queue, or is queued again.
LEMMA SafeAttempt ==
  ASSUME Safe, Attempt
  PROVE  Safe'
<1> USE DEF memory, disk, history
<1>1. phase = "sending"
  BY DEF Attempt
<1>2. /\ offset <= Len(output)
      /\ GoodQueue(offset, pending)
  BY <1>1, MemoryAccepted
<1>3. /\ output \in Seq(Hosts)
      /\ Len(output) \in Nat
      /\ now \in Nat
      /\ offset \in Nat
      /\ pending \in Seq(PendingEntry)
      /\ pauseUntil \in Nat
      /\ acked \in SUBSET Keys
      /\ retrying \in BOOLEAN
      /\ faults \in 0..MaxFaults
  BY LenProperties DEF Safe, TypeOK
<1>4. /\ retrying => index \in DOMAIN pending
      /\ ~retrying => index = 0 /\ Len(pending) < MaxPending
      /\ SendingOffset < Len(output)
      /\ SendingKey # NoKey
  BY <1>1 DEF Safe, SendingReal
<1>5. /\ SendingOffset \in Nat
      /\ retrying => SendingOffset = pending[index].offset
      /\ ~retrying => SendingOffset = offset
  BY <1>3, <1>4, EntryFields DEF SendingOffset
<1>6. SendingKey \in Keys
  BY <1>3, <1>4, <1>5, RecordHasKey DEF SendingKey
<1>7. /\ NextOffset \in Nat
      /\ NextOffset <= Len(output)
      /\ retrying => NextOffset = offset
      /\ ~retrying => NextOffset = offset + 1
  BY <1>2, <1>3, <1>4, <1>5 DEF NextOffset
<1>8. ASSUME Rename([offset |-> NextOffset, pending |-> pending', pause |-> pauseUntil']),
             UNCHANGED <<output, now, excluded, stateStable, offset, delivered,
                         retryTurn, retrying, index, waived, bypass>>,
             pending' \in Seq(PendingEntry), GoodQueue(NextOffset, pending'),
             pauseUntil' \in Nat, acked' \in SUBSET Keys, faults' \in 0..MaxFaults
      PROVE  Safe'
  <2>1. stateFile' = [offset |-> NextOffset, pending |-> pending', pause |-> pauseUntil']
    BY <1>8 DEF Rename
  <2>2. stateFile' \in Checkpoint /\ stateFile' # NoState
    BY <1>7, <1>8, <2>1, CheckpointTyped
  <2>3. Accepts(stateFile')
    BY <1>7, <1>8, <2>1, AcceptsQueue
  <2>4. StateAccepted'
    BY <1>8, <2>3, SaveAccepted DEF Safe, Checkpoints
  <2>5. TypeOK'
    BY <1>8, <2>2 DEF Rename, Safe, TypeOK
  <2> QED
    BY <1>8, <2>1, <2>2, <2>4, <2>5 DEF Rename, Safe, InStep, SendingReal
<1>9. CASE Acknowledged
  <2>1. acked' \in SUBSET Keys /\ pauseUntil' \in Nat /\ faults' \in 0..MaxFaults
    BY <1>3, <1>6, <1>9 DEF Acknowledged
  <2>2. pending' \in Seq(PendingEntry) /\ GoodQueue(NextOffset, pending')
    <3>1. CASE retrying
      BY <1>2, <1>3, <1>4, <1>7, <1>9, <3>1, QueueRemove DEF Acknowledged
    <3>2. CASE ~retrying
      BY <1>2, <1>3, <1>7, <1>9, <3>2, QueueAdvance DEF Acknowledged
    <3> QED
      BY <3>1, <3>2
  <2>3. Rename([offset |-> NextOffset, pending |-> pending', pause |-> pauseUntil'])
    BY <1>9 DEF Acknowledged
  <2> QED
    BY <1>8, <1>9, <2>1, <2>2, <2>3 DEF Acknowledged
<1>10. ASSUME NEW kind \in FailureKinds, NEW retryAfter \in RetryAfters,
              NEW wait \in Jitter(NextDelay(index)), Failed(kind, wait, retryAfter)
       PROVE  Safe'
  <2> DEFINE retryIn == RetryIn(kind, wait, retryAfter)
             entry == [offset |-> SendingOffset, next |-> now + retryIn,
                       delay |-> NextDelay(index)]
  <2>1. NextDelay(index) \in 1..Day
    <3>1. \/ index = 0
          \/ index \in DOMAIN pending /\ pending[index].delay \in 1..Day
      BY <1>2, <1>3, <1>4 DEF GoodQueue
    <3> QED
      BY <3>1, DelayInRange
  <2>2. NextDelay(index) \in Nat
    BY <2>1, SenderAssumption
  <2>3. retryIn \in Nat
    BY <2>2, WaitIsNatural, RetryInIsNatural
  <2>4. now + retryIn \in Nat
    BY <1>3, <2>3
  <2> HIDE DEF retryIn
  <2>5. entry \in PendingEntry /\ entry.offset = SendingOffset /\ entry.delay \in 1..Day
    BY <1>5, <2>1, <2>2, <2>4 DEF PendingEntry
  <2>6. pauseUntil' \in Nat /\ pending' = Deferred(entry)
    BY <1>3, <1>10, <2>4 DEF Failed, retryIn
  <2> HIDE DEF entry
  <2>7. acked' \in SUBSET Keys
    BY <1>3, <1>6, <1>10 DEF Failed, MaybeReceived
  <2>8. faults' \in 0..MaxFaults
    BY <1>3, <1>10, SenderAssumption DEF Failed
  <2>9. pending' \in Seq(PendingEntry) /\ GoodQueue(NextOffset, pending')
    <3>1. CASE retrying
      BY <1>2, <1>3, <1>4, <1>5, <1>7, <2>5, <2>6, <3>1, QueueUpdate DEF Deferred
    <3>2. CASE ~retrying
      BY <1>2, <1>3, <1>4, <1>5, <1>7, <2>5, <2>6, <3>2, QueueAppend DEF Deferred
    <3> QED
      BY <3>1, <3>2
  <2>10. Rename([offset |-> NextOffset, pending |-> pending', pause |-> pauseUntil'])
    BY <1>10 DEF Failed
  <2> QED
    BY <1>8, <1>10, <2>6, <2>7, <2>8, <2>9, <2>10 DEF Failed
<1> QED
  BY <1>9, <1>10 DEF Attempt

\* The end of a turn: memory takes over the offset that is now on disk.
LEMMA SafeSynced ==
  ASSUME Safe, Synced
  PROVE  Safe'
<1> USE DEF memory, disk, history
<1>1. /\ stateFile # NoState
      /\ pending = stateFile.pending
      /\ pauseUntil = stateFile.pause
  BY DEF Synced, Safe, InStep
<1>2. stateFile \in Checkpoint /\ stateFile.offset \in Nat
  BY <1>1, FileAccepted
<1>3. TypeOK'
  BY <1>2 DEF Synced, TurnAlternates, Safe, TypeOK
<1>4. StateAccepted'
  BY SaveAccepted DEF Synced, Safe, Checkpoints
<1>5. InStep'
  BY <1>1, <1>2 DEF Synced, InStep, Checkpoint
<1> QED
  BY <1>3, <1>4, <1>5 DEF Synced, Safe, SendingReal

\* What is left in memory, and what the server may have received, is typed.
LEMMA ForgetTyped ==
  ASSUME TypeOK, SendingReal, Forget
  PROVE  /\ acked' \in SUBSET Keys
         /\ acked \subseteq acked'
         /\ pending' \in Seq(PendingEntry)
         /\ faults' \in 0..MaxFaults
<1>1. CASE phase = "sending"
  <2>1. SendingOffset < Len(output) /\ SendingOffset \in Nat
    BY <1>1, EntryFields DEF SendingReal, SendingOffset, TypeOK
  <2>2. SendingKey \in Keys
    BY <1>1, <2>1, RecordHasKey DEF SendingReal, SendingKey, TypeOK
  <2>3. acked' \in SUBSET Keys /\ acked \subseteq acked'
    BY <1>1, <2>2 DEF Forget, MaybeReceived, TypeOK
  <2> QED
    BY <2>3, EmptySeq, SenderAssumption DEF Forget, TypeOK
<1>2. CASE phase # "sending"
  BY <1>2, EmptySeq, SenderAssumption DEF Forget, TypeOK
<1> QED
  BY <1>1, <1>2

\* The end of the process, with or without the power, at any point of a turn.
LEMMA SafeCrash ==
  ASSUME Safe, Stop \/ PowerLoss
  PROVE  Safe'
<1> USE DEF memory, disk, history
<1>1. /\ UNCHANGED <<output, now, excluded, waived>>
      /\ {stateFile', stateStable'} \subseteq {stateFile, stateStable}
      /\ Forget
  BY DEF Stop, PowerLoss, Revert
<1>2. /\ acked' \in SUBSET Keys
      /\ pending' \in Seq(PendingEntry)
      /\ faults' \in 0..MaxFaults
  BY <1>1, ForgetTyped DEF Safe
<1>3. TypeOK'
  BY <1>1, <1>2 DEF Forget, Safe, TypeOK
<1>4. StateAccepted'
  BY <1>1, SaveAccepted DEF Safe, Checkpoints
<1> QED
  BY <1>1, <1>3, <1>4 DEF Forget, Safe, InStep, SendingReal

\* What the sender does itself: it starts, takes a turn, ends it.
Work == Create \/ CreateSynced \/ Open \/ Turn \/ Attempt \/ Synced

\* The work of the sender is safe.
LEMMA SafeWork == Safe /\ Work => Safe'
BY SafeStart, SafeTurn, SafeAttempt, SafeSynced DEF Work

\* Every step preserves Safe.
LEMMA SafeStep == Safe /\ [Next]_vars => Safe'
<1> SUFFICES ASSUME Safe, [Next]_vars PROVE Safe'
  OBVIOUS
<1>1. CASE Environment
  BY <1>1, SafeEnvironment
<1>2. CASE Work
  BY <1>2, SafeWork
<1>3. CASE Stop \/ PowerLoss
  BY <1>3, SafeCrash
<1>4. CASE UNCHANGED vars
  BY <1>4 DEF vars, memory, disk, history, Safe, TypeOK, StateAccepted, Checkpoints,
              Accepts, InStep, SendingReal, SendingOffset, SendingKey, RecordAt
<1> QED
  BY <1>1, <1>2, <1>3, <1>4 DEF Next, Work

----------------------------------------------------------------------------
(* Lemmas about keys *)

\* PendingKeys of a checkpoint with this queue.
QueueKeys(q) == {KeyOf[RecordAt(q[i].offset)] : i \in DOMAIN q}

\* Removing an entry keeps all others.
LEMMA RemoveKeeps ==
  ASSUME NEW q \in Seq(PendingEntry), NEW i \in DOMAIN q
  PROVE  /\ \A j \in DOMAIN q : j # i =>
              \E k \in DOMAIN RemoveAt(q, i) : RemoveAt(q, i)[k] = q[j]
         /\ \A k \in DOMAIN RemoveAt(q, i) : \E j \in DOMAIN q : RemoveAt(q, i)[k] = q[j]
<1> DEFINE r == RemoveAt(q, i)
<1>1. /\ Len(q) \in Nat
      /\ DOMAIN q = 1..Len(q)
      /\ DOMAIN r = 1..(Len(q) - 1)
      /\ \A j \in 1..(Len(q) - 1) : r[j] = IF j < i THEN q[j] ELSE q[j + 1]
  BY LenProperties, RemoveAtProperties
<1> HIDE DEF r
<1>2. ASSUME NEW j \in DOMAIN q, j # i
      PROVE  \E k \in DOMAIN r : r[k] = q[j]
  <2>1. CASE j < i
    <3>1. j \in DOMAIN r /\ r[j] = q[j]
      BY <1>1, <2>1
    <3> QED
      BY <3>1
  <2>2. CASE j > i
    <3>1. j - 1 \in 1..(Len(q) - 1) /\ ~(j - 1 < i) /\ (j - 1) + 1 = j
      BY <1>1, <2>2
    <3>2. j - 1 \in DOMAIN r /\ r[j - 1] = q[j]
      BY <1>1, <3>1
    <3> QED
      BY <3>2
  <2> QED
    BY <1>1, <1>2, <2>1, <2>2
<1>3. \A k \in DOMAIN r : \E j \in DOMAIN q : r[k] = q[j]
  <2>1. \A k \in DOMAIN r : k \in DOMAIN q /\ k + 1 \in DOMAIN q
    BY <1>1
  <2> QED
    BY <1>1, <2>1
<1> QED
  BY <1>2, <1>3 DEF r

\* Removing an entry loses the key of that entry at most, and adds none.
LEMMA KeysRemove ==
  ASSUME NEW q \in Seq(PendingEntry), NEW i \in DOMAIN q
  PROVE  /\ QueueKeys(q) \subseteq
              QueueKeys(RemoveAt(q, i)) \cup {KeyOf[RecordAt(q[i].offset)]}
         /\ QueueKeys(RemoveAt(q, i)) \subseteq QueueKeys(q)
<1> DEFINE r == RemoveAt(q, i)
<1>1. /\ \A j \in DOMAIN q : j # i => \E k \in DOMAIN r : r[k] = q[j]
      /\ \A k \in DOMAIN r : \E j \in DOMAIN q : r[k] = q[j]
  BY RemoveKeeps
<1> HIDE DEF r
<1>2. ASSUME NEW j \in DOMAIN q
      PROVE  KeyOf[RecordAt(q[j].offset)] \in
               QueueKeys(r) \cup {KeyOf[RecordAt(q[i].offset)]}
  BY <1>1 DEF QueueKeys
<1>3. QueueKeys(r) \subseteq QueueKeys(q)
  BY <1>1 DEF QueueKeys
<1> QED
  BY <1>2, <1>3 DEF QueueKeys, r

\* Appending an entry adds its key.
LEMMA KeysAppend ==
  ASSUME NEW q \in Seq(PendingEntry), NEW e \in PendingEntry
  PROVE  QueueKeys(Append(q, e)) = QueueKeys(q) \cup {KeyOf[RecordAt(e.offset)]}
<1> DEFINE r == Append(q, e)
<1>1. /\ Len(q) \in Nat
      /\ DOMAIN q = 1..Len(q)
      /\ DOMAIN r = 1..(Len(q) + 1)
      /\ \A j \in 1..Len(q) : r[j] = q[j]
      /\ r[Len(q) + 1] = e
  BY LenProperties, AppendProperties
<1> HIDE DEF r
<1>2. \A j \in DOMAIN q : j \in DOMAIN r /\ r[j] = q[j]
  BY <1>1
<1>3. Len(q) + 1 \in DOMAIN r
  BY <1>1
<1>4. \A j \in DOMAIN r : j \in DOMAIN q \/ j = Len(q) + 1
  BY <1>1
<1>5. QueueKeys(q) \cup {KeyOf[RecordAt(e.offset)]} \subseteq QueueKeys(r)
  BY <1>1, <1>2, <1>3 DEF QueueKeys
<1>6. QueueKeys(r) \subseteq QueueKeys(q) \cup {KeyOf[RecordAt(e.offset)]}
  BY <1>1, <1>2, <1>4 DEF QueueKeys
<1> QED
  BY <1>5, <1>6 DEF r

\* Replacing an entry by one for the same record keeps the keys.
LEMMA KeysUpdate ==
  ASSUME NEW q \in Seq(PendingEntry), NEW i \in DOMAIN q, NEW e \in PendingEntry,
         e.offset = q[i].offset
  PROVE  QueueKeys([q EXCEPT ![i] = e]) = QueueKeys(q)
<1> DEFINE r == [q EXCEPT ![i] = e]
<1>1. /\ DOMAIN r = DOMAIN q
      /\ \A j \in DOMAIN q : r[j] = IF j = i THEN e ELSE q[j]
  BY LenProperties
<1> HIDE DEF r
<1>2. \A j \in DOMAIN q : r[j].offset = q[j].offset
  BY <1>1
<1> QED
  BY <1>1, <1>2 DEF QueueKeys, r

\* Every record before the offset of s is taken over, excused or queued in s.
Covers(s) ==
  \A i \in 1..s.offset :
    KeyOf[output[i]] \in acked \cup waived \cup {NoKey} \cup PendingKeys(s)

\* A step that keeps the output and takes nothing back loses no record if the
\* checkpoint it saves, when it saves one, covers its records.
LEMMA SaveCovers ==
  ASSUME NoLoss, output' = output, acked \subseteq acked', waived \subseteq waived',
         \A s \in Checkpoints' : s \in Checkpoints \/ Covers(s)'
  PROVE  NoLoss'
<1>1. \A s : Covers(s) => Covers(s)'
  BY DEF Covers, PendingKeys, RecordAt
<1>2. \A s \in Checkpoints' : Covers(s)'
  BY <1>1 DEF NoLoss, Covers
<1> QED
  BY <1>2 DEF NoLoss, Covers

\* A turn may save its checkpoint if each key that leaves the queue, and the
\* key of the record that the offset passes, is handled or queued.
LEMMA TurnCovers ==
  ASSUME Safe, NoLoss, phase \in {"idle", "sending"},
         UNCHANGED <<output, stateStable>>,
         acked \subseteq acked', waived \subseteq waived',
         stateFile'.offset \in {offset, offset + 1},
         QueueKeys(pending) \subseteq
           acked' \cup waived' \cup {NoKey} \cup QueueKeys(stateFile'.pending),
         stateFile'.offset = offset + 1 =>
           KeyOf[RecordAt(offset)] \in
             acked' \cup waived' \cup {NoKey} \cup QueueKeys(stateFile'.pending)
  PROVE  NoLoss'
<1>1. /\ stateFile = [offset |-> offset, pending |-> pending, pause |-> pauseUntil]
      /\ stateFile # NoState
  BY MemoryAccepted
<1>2. offset \in Nat
  BY DEF Safe, TypeOK
<1>3. \A i \in 1..offset :
        KeyOf[output[i]] \in acked \cup waived \cup {NoKey} \cup QueueKeys(pending)
  BY <1>1 DEF NoLoss, Checkpoints, PendingKeys, QueueKeys
<1>4. PendingKeys(stateFile)' = QueueKeys(stateFile'.pending)
  BY DEF PendingKeys, QueueKeys, RecordAt
<1>5. ASSUME NEW i \in 1..(stateFile'.offset)
      PROVE  KeyOf[output[i]] \in
               acked' \cup waived' \cup {NoKey} \cup QueueKeys(stateFile'.pending)
  <2>1. CASE i \in 1..offset
    BY <1>3, <2>1
  <2>2. CASE i = offset + 1 /\ stateFile'.offset = offset + 1
    BY <2>2 DEF RecordAt
  <2> QED
    BY <1>2, <1>5, <2>1, <2>2
<1>6. \A s \in Checkpoints' : s \in Checkpoints \/ s = stateFile'
  BY DEF Checkpoints
<1>7. ASSUME NEW s \in Checkpoints', s = stateFile'
      PROVE  Covers(s)'
  BY <1>4, <1>5, <1>7 DEF Covers, PendingKeys, RecordAt
<1> QED
  BY <1>6, <1>7, SaveCovers

----------------------------------------------------------------------------
(* Covered is inductive relative to Safe *)

Covered == NoLoss /\ DeliveredCovered

\* Before the first checkpoint there is nothing to lose.
LEMMA CoveredInit == Init => Covered
BY DEF Init, Covered, NoLoss, Checkpoints, DeliveredCovered

\* Growth changes nothing of what a checkpoint says of the records before its
\* offset, nor the key being sent.
LEMMA OutputGrows ==
  ASSUME Safe, Grown
  PROVE  /\ \A s \in Checkpoints :
              /\ PendingKeys(s)' = PendingKeys(s)
              /\ KeysUpTo(s.offset)' = KeysUpTo(s.offset)
              /\ \A i \in 1..s.offset : output'[i] = output[i]
         /\ stateFile # NoState =>
              /\ PendingKeys(stateFile)' = PendingKeys(stateFile)
              /\ KeysUpTo(stateFile.offset)' = KeysUpTo(stateFile.offset)
         /\ phase = "sending" => SendingKey' = SendingKey
<1> USE DEF memory, disk, history
<1>1. /\ Len(output) \in Nat
      /\ Len(output') \in Nat
      /\ Len(output) <= Len(output')
      /\ DOMAIN output = 1..Len(output)
      /\ DOMAIN output' = 1..Len(output')
      /\ \A i \in 1..Len(output) : output'[i] = output[i]
  BY LenProperties DEF Grown, Safe, TypeOK
<1>2. ASSUME NEW o \in Nat, o < Len(output)
      PROVE  RecordAt(o)' = RecordAt(o)
  BY <1>1, <1>2 DEF RecordAt
<1>3. ASSUME NEW s \in Checkpoint, Accepts(s)
      PROVE  /\ PendingKeys(s)' = PendingKeys(s)
             /\ KeysUpTo(s.offset)' = KeysUpTo(s.offset)
             /\ \A i \in 1..s.offset : output'[i] = output[i]
  <2>1. s.offset \in Nat /\ s.offset <= Len(output) /\ s.pending \in Seq(PendingEntry)
    BY <1>3 DEF Accepts, Checkpoint
  <2>2. \A i \in DOMAIN s.pending :
          s.pending[i].offset \in Nat /\ s.pending[i].offset < Len(output)
    BY <1>1, <1>3, <2>1, EntryFields DEF Accepts
  <2>3. \A i \in DOMAIN s.pending :
          RecordAt(s.pending[i].offset)' = RecordAt(s.pending[i].offset)
    BY <1>2, <2>2
  <2>4. (1..s.offset) \cap DOMAIN output' = (1..s.offset) \cap DOMAIN output
    BY <1>1, <2>1
  <2>5. \A i \in 1..s.offset : output'[i] = output[i]
    BY <1>1, <2>1
  <2> QED
    BY <2>3, <2>4, <2>5 DEF PendingKeys, KeysUpTo
<1>4. \A s \in Checkpoints : s \in Checkpoint /\ Accepts(s)
  BY DEF Safe, TypeOK, StateAccepted, Checkpoints
<1>5. ASSUME stateFile # NoState
      PROVE  /\ PendingKeys(stateFile)' = PendingKeys(stateFile)
             /\ KeysUpTo(stateFile.offset)' = KeysUpTo(stateFile.offset)
  <2>1. PICK s : s = stateFile
    OBVIOUS
  <2>2. stateFile' = stateFile
    BY DEF Grown
  <2>3. /\ PendingKeys(stateFile)' = PendingKeys(s)'
        /\ KeysUpTo(stateFile.offset)' = KeysUpTo(s.offset)'
    BY <2>1, <2>2 DEF PendingKeys, KeysUpTo, RecordAt
  <2> QED
    BY <1>3, <1>4, <1>5, <2>1, <2>3 DEF Checkpoints
<1>6. ASSUME phase = "sending"
      PROVE  SendingKey' = SendingKey
  <2>1. SendingOffset \in Nat /\ SendingOffset < Len(output)
    BY <1>6, EntryFields DEF Safe, SendingReal, SendingOffset, TypeOK
  <2>2. SendingOffset' = SendingOffset
    BY DEF Grown, SendingOffset
  <2>3. RecordAt(SendingOffset)' = RecordAt(SendingOffset)
    BY <1>1, <2>1, <2>2 DEF RecordAt
  <2> QED
    BY <2>3 DEF SendingKey
<1> QED
  BY <1>3, <1>4, <1>5, <1>6

\* The output only grows, so what was covered stays covered.
LEMMA CoveredGrows ==
  ASSUME Safe, Covered, Grown
  PROVE  Covered'
<1> USE DEF memory, disk, history
<1>1. Checkpoints' = Checkpoints
  BY DEF Grown, Checkpoints
<1>2. NoLoss'
  BY <1>1, OutputGrows DEF Grown, Covered, NoLoss
<1>3. phase \in {"idle", "renamed", "sending"} => stateFile # NoState
  BY MemoryAccepted DEF Safe, InStep
<1>4. phase \in {"idle", "renamed", "sending"} =>
        PendingKeys(stateFile)' = PendingKeys(stateFile)
  BY <1>3, OutputGrows
<1>5. phase = "sending" => SendingKey' = SendingKey
  BY OutputGrows
<1>6. DeliveredCovered'
  BY <1>4, <1>5 DEF Grown, Covered, DeliveredCovered
<1> QED
  BY <1>2, <1>6 DEF Covered

\* The environment takes nothing back.
LEMMA CoveredEnvironment ==
  ASSUME Safe, Covered, Environment
  PROVE  Covered'
<1> USE DEF memory, disk, history
<1>1. CASE Tick \/ \E host \in Hosts : Append1(host)
  BY <1>1, EnvironmentGrows, CoveredGrows
<1>2. CASE EditExclusions
  BY <1>2 DEF EditExclusions, Covered, NoLoss, Checkpoints, DeliveredCovered,
              PendingKeys, SendingKey, SendingOffset, RecordAt
<1> QED
  BY <1>1, <1>2 DEF Environment

\* The set of delivered keys that a start rebuilds vouches for covered records.
LEMMA CoveredStart ==
  ASSUME Safe, Covered, Create \/ CreateSynced \/ Open
  PROVE  Covered'
<1> USE DEF memory, disk, history
<1>1. output \in Seq(Hosts) /\ Len(output) \in Nat /\ DOMAIN output = 1..Len(output)
  BY LenProperties DEF Safe, TypeOK
<1>2. CASE Create
  <2>1. PICK off \in 0..Len(output) :
          /\ stateFile' = [offset |-> off, pending |-> <<>>, pause |-> 0]
          /\ off = 0 \/ KeysUpTo(Len(output)) \subseteq waived'
    BY <1>1, <1>2 DEF Create
  <2>2. \A i \in 1..off : KeyOf[output[i]] \in waived' \cup {NoKey}
    <3>1. \A i \in 1..Len(output) : KeyOf[output[i]] \in KeysUpTo(Len(output)) \cup {NoKey}
      BY <1>1 DEF KeysUpTo
    <3> QED
      BY <1>1, <2>1, <3>1
  <2>3. \A s \in Checkpoints' : s \in Checkpoints \/ Covers(s)'
    BY <1>2, <2>1, <2>2 DEF Create, Checkpoints, Covers
  <2>4. NoLoss'
    BY <1>2, <2>3, SaveCovers DEF Create, Covered
  <2> QED
    BY <1>2, <2>4 DEF Create, Covered, DeliveredCovered
<1>3. ASSUME Load(stateFile), stateFile # NoState,
             stateStable' \in {stateFile, stateStable},
             UNCHANGED <<output, now, excluded, stateFile, history>>
      PROVE  Covered'
  <2>1. NoLoss'
    BY <1>3, SaveCovers DEF Covered, Checkpoints
  <2>2. \A i \in 1..stateFile.offset :
          KeyOf[output[i]] \in acked \cup waived \cup {NoKey} \cup PendingKeys(stateFile)
    BY <1>3 DEF Covered, NoLoss, Checkpoints
  <2>3. delivered' \subseteq acked \cup waived \cup PendingKeys(stateFile)
    BY <1>3, <2>2 DEF Load, Remembered, KeysUpTo
  <2>4. PendingKeys(stateFile)' = PendingKeys(stateFile)
    BY <1>3 DEF PendingKeys, RecordAt
  <2>5. DeliveredCovered'
    BY <1>3, <2>3, <2>4 DEF Load, DeliveredCovered
  <2> QED
    BY <2>1, <2>5 DEF Covered
<1>4. CASE CreateSynced
  BY <1>3, <1>4 DEF CreateSynced, Safe, InStep
<1>5. CASE Open
  BY <1>3, <1>5 DEF Open
<1> QED
  BY <1>2, <1>4, <1>5

\* A turn passes over a record only if it has no key, is excluded, or has a key
\* that was delivered, which is covered.
LEMMA CoveredTurn ==
  ASSUME Safe, Covered, Turn
  PROVE  Covered'
<1> USE DEF memory, disk, history
<1>1. phase = "idle"
  BY DEF Turn, SkipFresh, StartFresh, SkipRetry, StartRetry, FreshTurn, RetryTurn, Awake
<1>2. /\ stateFile = [offset |-> offset, pending |-> pending, pause |-> pauseUntil]
      /\ pending \in Seq(PendingEntry)
      /\ offset \in Nat
  BY <1>1, MemoryAccepted DEF Safe, TypeOK
<1>3. delivered \subseteq acked \cup waived \cup QueueKeys(pending)
  BY <1>1, <1>2 DEF Covered, DeliveredCovered, PendingKeys, QueueKeys
<1>4. CASE SkipFresh
  <2>1. stateFile' = [offset |-> offset + 1, pending |-> pending, pause |-> pauseUntil]
    BY <1>4 DEF SkipFresh, Rename
  <2>2. waived \subseteq waived'
    BY <1>4 DEF SkipFresh
  <2>3. KeyOf[RecordAt(offset)] \in acked \cup waived' \cup {NoKey} \cup QueueKeys(pending)
    BY <1>3, <1>4 DEF SkipFresh, Prepare
  <2>4. NoLoss'
    BY <1>1, <1>4, <2>1, <2>2, <2>3, TurnCovers DEF SkipFresh, Covered
  <2>5. PendingKeys(stateFile)' = QueueKeys(pending)
    BY <1>4, <2>1 DEF SkipFresh, PendingKeys, QueueKeys, RecordAt
  <2>6. DeliveredCovered'
    BY <1>3, <1>4, <2>2, <2>5 DEF SkipFresh, Rename, DeliveredCovered
  <2> QED
    BY <2>4, <2>6 DEF Covered
<1>5. CASE StartFresh
  <2>1. NoLoss'
    BY <1>5, SaveCovers DEF StartFresh, Covered, Checkpoints
  <2>2. SendingKey' = KeyOf[RecordAt(offset)]
    BY <1>5 DEF StartFresh, TakeTurn, SendingKey, SendingOffset, RecordAt
  <2>3. PendingKeys(stateFile)' = QueueKeys(pending)
    BY <1>2, <1>5 DEF StartFresh, PendingKeys, QueueKeys, RecordAt
  <2>4. DeliveredCovered'
    BY <1>3, <1>5, <2>2, <2>3 DEF StartFresh, DeliveredCovered
  <2> QED
    BY <2>1, <2>4 DEF Covered
<1>6. ASSUME NEW i \in DOMAIN pending, SkipRetry(i)
      PROVE  Covered'
  <2>1. stateFile' = [offset |-> offset, pending |-> pending', pause |-> pauseUntil]
    BY <1>6 DEF SkipRetry, Rename
  <2>2. waived \subseteq waived'
    BY <1>6 DEF SkipRetry
  <2>3. QueueKeys(pending) \subseteq waived' \cup {NoKey} \cup QueueKeys(pending')
    BY <1>2, <1>6, KeysRemove DEF SkipRetry
  <2>4. NoLoss'
    BY <1>1, <1>2, <1>6, <2>1, <2>2, <2>3, TurnCovers DEF SkipRetry, Covered
  <2>5. PendingKeys(stateFile)' = QueueKeys(pending')
    BY <1>6, <2>1 DEF SkipRetry, PendingKeys, QueueKeys, RecordAt
  <2>6. delivered \subseteq Keys
    BY DEF Safe, TypeOK
  <2>7. delivered' \subseteq acked' \cup waived' \cup QueueKeys(pending')
    BY <1>3, <1>6, <2>2, <2>3, <2>6, SenderAssumption DEF SkipRetry
  <2>8. DeliveredCovered'
    BY <1>6, <2>5, <2>7 DEF SkipRetry, Rename, DeliveredCovered
  <2> QED
    BY <2>4, <2>8 DEF Covered
<1>7. ASSUME NEW i \in DOMAIN pending, StartRetry(i)
      PROVE  Covered'
  <2>1. NoLoss'
    BY <1>7, SaveCovers DEF StartRetry, Covered, Checkpoints
  <2>2. PendingKeys(stateFile)' = QueueKeys(pending)
    BY <1>2, <1>7 DEF StartRetry, PendingKeys, QueueKeys, RecordAt
  <2>3. DeliveredCovered'
    BY <1>3, <1>7, <2>2 DEF StartRetry, DeliveredCovered
  <2> QED
    BY <2>1, <2>3 DEF Covered
<1> QED
  BY <1>4, <1>5, <1>6, <1>7 DEF Turn

\* A failure keeps the keys of the queue and adds the one that was being sent.
LEMMA FailureQueues ==
  ASSUME Safe, NEW kind, NEW retryAfter \in RetryAfters,
         NEW wait \in Jitter(NextDelay(index)), Failed(kind, wait, retryAfter)
  PROVE  QueueKeys(pending') = QueueKeys(pending) \cup {SendingKey}
<1> DEFINE entry == [offset |-> SendingOffset,
                     next |-> now + RetryIn(kind, wait, retryAfter),
                     delay |-> NextDelay(index)]
<1>1. phase = "sending"
  BY DEF Failed
<1>2. /\ pending \in Seq(PendingEntry)
      /\ offset \in Nat
      /\ now \in Nat
      /\ GoodQueue(offset, pending)
  BY <1>1, MemoryAccepted DEF Safe, TypeOK
<1>3. /\ retrying => index \in DOMAIN pending
      /\ ~retrying => index = 0
      /\ SendingOffset = IF retrying THEN pending[index].offset ELSE offset
      /\ SendingKey = KeyOf[RecordAt(SendingOffset)]
  BY <1>1 DEF Safe, SendingReal, SendingOffset, SendingKey
<1>4. entry \in PendingEntry /\ entry.offset = SendingOffset
  <2>1. \/ index = 0
        \/ index \in DOMAIN pending /\ pending[index].delay \in 1..Day
    BY <1>2, <1>3 DEF GoodQueue
  <2>2. NextDelay(index) \in Nat
    BY <2>1, DelayInRange, SenderAssumption
  <2>3. RetryIn(kind, wait, retryAfter) \in Nat
    BY <2>2, WaitIsNatural, RetryInIsNatural
  <2>4. now + RetryIn(kind, wait, retryAfter) \in Nat
    BY <1>2, <2>3
  <2>5. SendingOffset \in Nat
    BY <1>2, <1>3, EntryFields
  <2> QED
    BY <2>2, <2>4, <2>5 DEF PendingEntry
<1>5. pending' = Deferred(entry)
  BY DEF Failed
<1> HIDE DEF entry
<1>6. CASE retrying
  <2>1. QueueKeys(pending') = QueueKeys(pending)
    BY <1>2, <1>3, <1>4, <1>5, <1>6, KeysUpdate DEF Deferred
  <2>2. SendingKey \in QueueKeys(pending)
    BY <1>3, <1>6 DEF QueueKeys
  <2> QED
    BY <2>1, <2>2
<1>7. CASE ~retrying
  BY <1>2, <1>3, <1>4, <1>5, <1>7, KeysAppend DEF Deferred
<1> QED
  BY <1>6, <1>7

\* An attempt either hands the key over or leaves it queued.
LEMMA CoveredAttempt ==
  ASSUME Safe, Covered, Attempt
  PROVE  Covered'
<1> USE DEF memory, disk, history
<1>1. phase = "sending"
  BY DEF Attempt
<1>2. /\ stateFile = [offset |-> offset, pending |-> pending, pause |-> pauseUntil]
      /\ pending \in Seq(PendingEntry)
      /\ offset \in Nat
  BY <1>1, MemoryAccepted DEF Safe, TypeOK
<1>3. /\ retrying => index \in DOMAIN pending
      /\ retrying \in BOOLEAN
      /\ SendingOffset = IF retrying THEN pending[index].offset ELSE offset
      /\ NextOffset = IF retrying THEN offset ELSE offset + 1
      /\ SendingKey = KeyOf[RecordAt(SendingOffset)]
  BY <1>1 DEF Safe, TypeOK, SendingReal, SendingOffset, NextOffset, SendingKey
<1>4. delivered \subseteq acked \cup waived \cup QueueKeys(pending) \cup {SendingKey}
  BY <1>1, <1>2 DEF Covered, DeliveredCovered, PendingKeys, QueueKeys
<1>5. ASSUME Rename([offset |-> NextOffset, pending |-> pending', pause |-> pauseUntil']),
             UNCHANGED <<output, stateStable, delivered, waived>>,
             acked \subseteq acked',
             QueueKeys(pending) \cup {SendingKey} \subseteq acked' \cup QueueKeys(pending')
      PROVE  Covered'
  <2>1. stateFile' = [offset |-> NextOffset, pending |-> pending', pause |-> pauseUntil']
    BY <1>5 DEF Rename
  <2>2. stateFile'.offset \in {offset, offset + 1} /\ stateFile'.pending = pending'
    BY <1>3, <2>1
  <2>3. stateFile'.offset = offset + 1 => KeyOf[RecordAt(offset)] = SendingKey
    BY <1>2, <1>3, <2>1
  <2>4. NoLoss'
    BY <1>1, <1>5, <2>2, <2>3, TurnCovers DEF Covered
  <2>5. PendingKeys(stateFile)' = QueueKeys(pending')
    BY <1>5, <2>2 DEF PendingKeys, QueueKeys, RecordAt
  <2>6. DeliveredCovered'
    BY <1>4, <1>5, <2>5 DEF Rename, DeliveredCovered
  <2> QED
    BY <2>4, <2>6 DEF Covered
<1>6. CASE Acknowledged
  <2>1. acked' = acked \cup {SendingKey}
    BY <1>6 DEF Acknowledged
  <2>2. QueueKeys(pending) \subseteq {SendingKey} \cup QueueKeys(pending')
    <3>1. CASE retrying
      BY <1>2, <1>3, <1>6, <3>1, KeysRemove DEF Acknowledged
    <3>2. CASE ~retrying
      BY <1>6, <3>2 DEF Acknowledged
    <3> QED
      BY <3>1, <3>2
  <2> QED
    BY <1>5, <1>6, <2>1, <2>2 DEF Acknowledged
<1>7. ASSUME NEW kind \in FailureKinds, NEW retryAfter \in RetryAfters,
             NEW wait \in Jitter(NextDelay(index)), Failed(kind, wait, retryAfter)
      PROVE  Covered'
  <2>1. QueueKeys(pending) \cup {SendingKey} \subseteq QueueKeys(pending')
    BY <1>7, FailureQueues
  <2>2. acked \subseteq acked'
    BY <1>7 DEF Failed, MaybeReceived
  <2>3. Rename([offset |-> NextOffset, pending |-> pending', pause |-> pauseUntil'])
    BY <1>7 DEF Failed
  <2> QED
    BY <1>5, <1>7, <2>1, <2>2, <2>3 DEF Failed
<1> QED
  BY <1>6, <1>7 DEF Attempt

\* The work of the sender covers every record it leaves behind.
LEMMA CoveredWork ==
  ASSUME Safe, Covered, Work
  PROVE  Covered'
<1> USE DEF memory, disk, history
<1>1. CASE Synced
  <2>1. NoLoss'
    BY <1>1, SaveCovers DEF Synced, Covered, Checkpoints
  <2>2. DeliveredCovered'
    BY <1>1 DEF Synced, Covered, DeliveredCovered, PendingKeys, RecordAt
  <2> QED
    BY <2>1, <2>2 DEF Covered
<1> QED
  BY <1>1, CoveredStart, CoveredTurn, CoveredAttempt DEF Work

\* Every step preserves Covered.
LEMMA CoveredStep == Safe /\ Covered /\ [Next]_vars => Covered'
<1> SUFFICES ASSUME Safe, Covered, [Next]_vars PROVE Covered'
  OBVIOUS
<1> USE DEF memory, disk, history
<1>1. CASE Environment
  BY <1>1, CoveredEnvironment
<1>2. CASE Work
  BY <1>2, CoveredWork
<1>3. CASE Stop \/ PowerLoss
  <2>1. /\ UNCHANGED <<output, waived>>
        /\ {stateFile', stateStable'} \subseteq {stateFile, stateStable}
        /\ phase' = "down"
        /\ acked \subseteq acked'
    BY <1>3 DEF Stop, PowerLoss, Revert, Forget, MaybeReceived
  <2>2. NoLoss'
    BY <2>1, SaveCovers DEF Covered, Checkpoints
  <2> QED
    BY <2>1, <2>2 DEF Covered, DeliveredCovered
<1>4. CASE UNCHANGED vars
  BY <1>4 DEF vars, Covered, NoLoss, Checkpoints, DeliveredCovered, PendingKeys,
              SendingKey, SendingOffset, RecordAt
<1> QED
  BY <1>1, <1>2, <1>3, <1>4 DEF Next, Work

----------------------------------------------------------------------------
(* Records queued by themselves or before them: what a sender whose output *)
(* may be cut back rests on.                                               *)

\* The keys that a queue holds by records before record i + 1.
KeysBefore(q, i) ==
  {KeyOf[RecordAt(q[j].offset)] : j \in {k \in DOMAIN q : q[k].offset < i}}

\* Every record before the offset of s is taken over, excused, or queued in s by
\* itself or by an earlier record of its key.
FirstCovers(s) ==
  \A i \in 1..s.offset :
    KeyOf[output[i]] \in acked \cup waived \cup {NoKey} \cup KeysBefore(s.pending, i)

FirstCovered == \A s \in Checkpoints : FirstCovers(s)

\* The output only grows, so what was covered stays covered.
LEMMA FirstCoveredGrows ==
  ASSUME Safe, FirstCovered, Grown
  PROVE  FirstCovered'
<1> USE DEF memory, disk, history
<1>1. Checkpoints' = Checkpoints /\ acked' = acked /\ waived' = waived
  BY DEF Grown, Checkpoints
<1>2. Len(output) \in Nat
  BY LenProperties DEF Safe, TypeOK
<1>3. ASSUME NEW s \in Checkpoints
      PROVE  FirstCovers(s)'
  <2>1. s \in Checkpoint /\ Accepts(s)
    BY DEF Safe, TypeOK, StateAccepted, Checkpoints
  <2>2. s.offset \in Nat /\ s.offset <= Len(output) /\ s.pending \in Seq(PendingEntry)
    BY <2>1 DEF Accepts, Checkpoint
  <2>3. \A j \in DOMAIN s.pending :
          s.pending[j].offset \in Nat /\ s.pending[j].offset < Len(output)
    BY <1>2, <2>1, <2>2, EntryFields DEF Accepts
  <2>4. \A j \in DOMAIN s.pending :
          RecordAt(s.pending[j].offset)' = RecordAt(s.pending[j].offset)
    BY <1>2, <2>3 DEF Grown, RecordAt
  <2>5. \A i : KeysBefore(s.pending, i)' = KeysBefore(s.pending, i)
    BY <2>4 DEF KeysBefore
  <2>6. \A i \in 1..s.offset : output'[i] = output[i]
    BY <1>2, <2>2 DEF Grown
  <2> QED
    BY <1>1, <2>5, <2>6 DEF FirstCovered, FirstCovers
<1> QED
  BY <1>1, <1>3 DEF FirstCovered

\* A step that keeps the output and takes nothing back may save a checkpoint
\* that covers its records.
LEMMA SaveFirstCovers ==
  ASSUME FirstCovered, output' = output, acked \subseteq acked', waived \subseteq waived',
         \A s \in Checkpoints' : s \in Checkpoints \/ FirstCovers(s)'
  PROVE  FirstCovered'
<1>1. \A s : FirstCovers(s) => FirstCovers(s)'
  BY DEF FirstCovers, KeysBefore, RecordAt
<1> QED
  BY <1>1 DEF FirstCovered

\* A turn may save its checkpoint if each record that leaves the queue, and the
\* record that the offset passes, is handled or queued in time.
LEMMA TurnFirstCovers ==
  ASSUME Safe, FirstCovered, phase \in {"idle", "sending"},
         UNCHANGED <<output, stateStable>>,
         acked \subseteq acked', waived \subseteq waived',
         stateFile'.offset \in {offset, offset + 1},
         \A j \in DOMAIN pending :
           \/ KeyOf[RecordAt(pending[j].offset)] \in acked' \cup waived' \cup {NoKey}
           \/ \E k \in DOMAIN stateFile'.pending :
                stateFile'.pending[k].offset = pending[j].offset,
         stateFile'.offset = offset + 1 =>
           KeyOf[RecordAt(offset)] \in
             acked' \cup waived' \cup {NoKey} \cup KeysBefore(stateFile'.pending, offset + 1)
  PROVE  FirstCovered'
<1>1. /\ stateFile = [offset |-> offset, pending |-> pending, pause |-> pauseUntil]
      /\ stateFile # NoState
  BY MemoryAccepted
<1>2. offset \in Nat
  BY DEF Safe, TypeOK
<1> DEFINE r == stateFile'.pending
           handled == acked' \cup waived' \cup {NoKey}
<1>3. ASSUME NEW i \in 1..offset
      PROVE  KeyOf[output[i]] \in handled \cup KeysBefore(r, i)
  <2>1. KeyOf[output[i]] \in acked \cup waived \cup {NoKey} \cup KeysBefore(pending, i)
    BY <1>1 DEF FirstCovered, FirstCovers, Checkpoints
  <2>2. KeysBefore(pending, i) \subseteq handled \cup KeysBefore(r, i)
    BY DEF KeysBefore
  <2> QED
    BY <2>1, <2>2
<1>4. ASSUME NEW i \in 1..(stateFile'.offset)
      PROVE  KeyOf[output[i]] \in handled \cup KeysBefore(r, i)
  <2>1. CASE i \in 1..offset
    BY <1>3, <2>1
  <2>2. CASE i = offset + 1 /\ stateFile'.offset = offset + 1
    BY <2>2 DEF RecordAt
  <2> QED
    BY <1>2, <1>4, <2>1, <2>2
<1>5. \A s \in Checkpoints' : s \in Checkpoints \/ s = stateFile'
  BY DEF Checkpoints
<1>6. ASSUME NEW s \in Checkpoints', s = stateFile'
      PROVE  FirstCovers(s)'
  <2>1. \A i : KeysBefore(s.pending, i)' = KeysBefore(r, i)
    BY <1>6 DEF KeysBefore, RecordAt
  <2> QED
    BY <1>4, <1>6, <2>1 DEF FirstCovers
<1> QED
  BY <1>5, <1>6, SaveFirstCovers

\* All entries of the queue lie before the offset.
LEMMA QueueLiesBefore ==
  ASSUME NEW q, NEW off \in Nat, GoodQueue(off, q), q \in Seq(PendingEntry)
  PROVE  QueueKeys(q) \subseteq KeysBefore(q, off + 1)
<1>1. \A j \in DOMAIN q : q[j].offset < off + 1
  BY EntryFields DEF GoodQueue
<1> QED
  BY <1>1 DEF QueueKeys, KeysBefore

\* A start covers the records it passes over, and a turn or an attempt those it
\* leaves behind, at or before the place where they stand.
LEMMA FirstCoveredWork ==
  ASSUME Safe, Covered, FirstCovered, Work
  PROVE  FirstCovered'
<1> USE DEF memory, disk, history
<1>1. phase \in {"idle", "sending"} =>
        /\ stateFile = [offset |-> offset, pending |-> pending, pause |-> pauseUntil]
        /\ GoodQueue(offset, pending)
        /\ pending \in Seq(PendingEntry)
        /\ offset \in Nat
  BY MemoryAccepted DEF Safe, TypeOK
<1>2. CASE Create
  <2>1. Len(output) \in Nat /\ DOMAIN output = 1..Len(output)
    BY LenProperties DEF Safe, TypeOK
  <2>2. PICK off \in 0..Len(output) :
          /\ stateFile' = [offset |-> off, pending |-> <<>>, pause |-> 0]
          /\ off = 0 \/ KeysUpTo(Len(output)) \subseteq waived'
    BY <1>2, <2>1 DEF Create
  <2>3. \A i \in 1..off : KeyOf[output[i]] \in waived' \cup {NoKey}
    <3>1. \A i \in 1..Len(output) : KeyOf[output[i]] \in KeysUpTo(Len(output)) \cup {NoKey}
      BY <2>1 DEF KeysUpTo
    <3> QED
      BY <2>1, <2>2, <3>1
  <2>4. \A s \in Checkpoints' : s \in Checkpoints \/ FirstCovers(s)'
    BY <1>2, <2>2, <2>3 DEF Create, Checkpoints, FirstCovers
  <2> QED
    BY <1>2, <2>4, SaveFirstCovers DEF Create
<1>3. CASE CreateSynced \/ Open \/ Synced
  BY <1>3, SaveFirstCovers DEF CreateSynced, Open, Synced, Checkpoints
<1>4. CASE StartFresh \/ \E i \in DOMAIN pending : StartRetry(i)
  BY <1>4, SaveFirstCovers DEF StartFresh, StartRetry, Checkpoints
<1>5. CASE SkipFresh
  <2>1. phase = "idle" /\ output' = output /\ stateStable' = stateStable
    BY <1>5 DEF SkipFresh, FreshTurn, Awake
  <2>2. /\ stateFile'.offset = offset + 1
        /\ stateFile'.pending = pending
        /\ acked' = acked
        /\ waived \subseteq waived'
    BY <1>5 DEF SkipFresh, Rename
  <2>3. delivered \subseteq acked \cup waived \cup QueueKeys(pending)
    BY <1>1, <2>1 DEF Covered, DeliveredCovered, PendingKeys, QueueKeys
  <2>4. KeyOf[RecordAt(offset)] \in acked \cup waived' \cup {NoKey} \cup QueueKeys(pending)
    BY <1>5, <2>3 DEF SkipFresh, Prepare
  <2>5. KeyOf[RecordAt(offset)] \in
          acked' \cup waived' \cup {NoKey} \cup KeysBefore(pending, offset + 1)
    BY <1>1, <2>1, <2>2, <2>4, QueueLiesBefore
  <2> QED
    BY <2>1, <2>2, <2>5, TurnFirstCovers
<1>6. ASSUME NEW i \in DOMAIN pending, SkipRetry(i)
      PROVE  FirstCovered'
  <2>1. phase = "idle" /\ output' = output /\ stateStable' = stateStable
    BY <1>6 DEF SkipRetry, RetryTurn, Awake
  <2>2. /\ stateFile'.offset = offset
        /\ stateFile'.pending = RemoveAt(pending, i)
        /\ acked' = acked
        /\ waived \subseteq waived'
        /\ KeyOf[RecordAt(pending[i].offset)] \in waived' \cup {NoKey}
    BY <1>6 DEF SkipRetry, Rename
  <2>3. \A j \in DOMAIN pending : j # i =>
          \E k \in DOMAIN RemoveAt(pending, i) : RemoveAt(pending, i)[k] = pending[j]
    BY <1>1, <2>1, RemoveKeeps
  <2>4. offset # offset + 1
    BY <1>1, <2>1
  <2> QED
    BY <2>1, <2>2, <2>3, <2>4, TurnFirstCovers
<1>7. CASE Acknowledged
  <2>1. /\ phase = "sending"
        /\ output' = output
        /\ stateStable' = stateStable
        /\ stateFile'.offset = NextOffset
        /\ stateFile'.pending = pending'
        /\ acked' = acked \cup {SendingKey}
        /\ waived' = waived
        /\ pending' = IF retrying THEN RemoveAt(pending, index) ELSE pending
    BY <1>7 DEF Acknowledged, Rename
  <2>2. CASE retrying
    <3>1. /\ index \in DOMAIN pending
          /\ SendingKey = KeyOf[RecordAt(pending[index].offset)]
          /\ NextOffset = offset
      BY <2>1, <2>2 DEF Safe, SendingReal, SendingKey, SendingOffset, NextOffset
    <3>2. \A j \in DOMAIN pending : j # index =>
            \E k \in DOMAIN pending' : pending'[k] = pending[j]
      BY <1>1, <2>1, <2>2, <3>1, RemoveKeeps
    <3>3. offset # offset + 1
      BY <1>1, <2>1
    <3> QED
      BY <2>1, <3>1, <3>2, <3>3, TurnFirstCovers
  <2>3. CASE ~retrying
    <3>1. SendingKey = KeyOf[RecordAt(offset)] /\ NextOffset = offset + 1
      BY <2>1, <2>3 DEF SendingKey, SendingOffset, NextOffset
    <3> QED
      BY <2>1, <2>3, <3>1, TurnFirstCovers
  <2> QED
    BY <2>2, <2>3
<1>8. ASSUME NEW kind \in FailureKinds, NEW retryAfter \in RetryAfters,
             NEW wait \in Jitter(NextDelay(index)), Failed(kind, wait, retryAfter)
      PROVE  FirstCovered'
  <2>1. PICK entry :
          /\ entry.offset = SendingOffset
          /\ pending' = Deferred(entry)
    BY <1>8 DEF Failed
  <2>2. /\ phase = "sending"
        /\ output' = output
        /\ stateStable' = stateStable
        /\ stateFile'.offset = NextOffset
        /\ stateFile'.pending = pending'
        /\ acked \subseteq acked'
        /\ waived' = waived
    BY <1>8 DEF Failed, MaybeReceived, Rename
  <2>3. CASE retrying
    <3>1. /\ index \in DOMAIN pending
          /\ SendingOffset = pending[index].offset
          /\ NextOffset = offset
          /\ pending' = [pending EXCEPT ![index] = entry]
      BY <2>1, <2>2, <2>3 DEF Safe, SendingReal, SendingOffset, NextOffset, Deferred
    <3>2. \A j \in DOMAIN pending :
            j \in DOMAIN pending' /\ pending'[j].offset = pending[j].offset
      BY <2>1, <3>1
    <3>3. offset # offset + 1
      BY <1>1, <2>2
    <3> QED
      BY <2>2, <3>1, <3>2, <3>3, TurnFirstCovers
  <2>4. CASE ~retrying
    <3>1. SendingOffset = offset /\ NextOffset = offset + 1 /\ pending' = Append(pending, entry)
      BY <2>1, <2>4 DEF SendingOffset, NextOffset, Deferred
    <3>2. /\ \A j \in DOMAIN pending : j \in DOMAIN pending' /\ pending'[j] = pending[j]
          /\ Len(pending) + 1 \in DOMAIN pending'
          /\ pending'[Len(pending) + 1] = entry
      BY <1>1, <2>2, <3>1, EntryFields
    <3>3. offset < offset + 1
      BY <1>1, <2>2
    <3>4. KeyOf[RecordAt(offset)] \in KeysBefore(pending', offset + 1)
      BY <2>1, <3>1, <3>2, <3>3 DEF KeysBefore
    <3> QED
      BY <2>2, <3>1, <3>2, <3>4, TurnFirstCovers
  <2> QED
    BY <2>3, <2>4
<1> QED
  BY <1>2, <1>3, <1>4, <1>5, <1>6, <1>7, <1>8 DEF Work, Turn, Attempt

----------------------------------------------------------------------------
(* The order of the two checkpoints *)

\* Each attempt saves a checkpoint, and only a fresh record moves its offset.
LEMMA AttemptSaves ==
  ASSUME Attempt
  PROVE  /\ phase = "sending"
         /\ phase' = "renamed"
         /\ stateFile' = [offset |-> NextOffset, pending |-> pending',
                          pause |-> pauseUntil']
         /\ UNCHANGED <<output, stateStable, delivered, waived>>
         /\ acked' \in {acked, acked \cup {SendingKey}}
<1> USE DEF memory, disk, history
<1>1. CASE Acknowledged
  BY <1>1 DEF Acknowledged, Rename
<1>2. ASSUME NEW kind, NEW retryAfter, NEW wait, Failed(kind, wait, retryAfter)
      PROVE  /\ phase = "sending"
             /\ phase' = "renamed"
             /\ stateFile' = [offset |-> NextOffset, pending |-> pending',
                              pause |-> pauseUntil']
             /\ UNCHANGED <<output, stateStable, delivered, waived>>
             /\ acked' \in {acked, acked \cup {SendingKey}}
  BY <1>2 DEF Failed, Rename, MaybeReceived
<1> QED
  BY <1>1, <1>2 DEF Attempt

\* The checkpoint that a power loss may bring back is not ahead of the file.
Ordered ==
  stateStable # NoState => stateFile # NoState /\ stateStable.offset <= stateFile.offset

\* The work of the sender saves what is not behind the checkpoint before it.
LEMMA OrderedWork ==
  ASSUME Safe, Ordered, Work
  PROVE  Ordered'
<1> USE DEF memory, disk, history
<1>1. stateStable \in Checkpoint \cup {NoState}
  BY DEF Safe, TypeOK
<1>2. CASE Create
  BY <1>2 DEF Create, Ordered
<1>3. CASE Open
  BY <1>3 DEF Open, Ordered
<1>4. CASE CreateSynced \/ Synced
  <2>1. stateFile # NoState /\ stateStable' = stateFile /\ stateFile' = stateFile
    BY <1>4 DEF CreateSynced, Synced, Safe, InStep
  <2>2. stateFile.offset \in Nat
    BY <2>1, FileAccepted
  <2> QED
    BY <2>1, <2>2 DEF Ordered
<1>5. CASE Turn \/ Attempt
  <2>1. /\ phase \in {"idle", "sending"}
        /\ stateStable' = stateStable
        /\ \/ stateFile' = stateFile
           \/ phase' = "renamed" /\ stateFile'.offset \in {offset, offset + 1}
    <3>1. Turn => phase = "idle" /\ stateStable' = stateStable
      BY DEF Turn, SkipFresh, StartFresh, SkipRetry, StartRetry, FreshTurn, RetryTurn, Awake
    <3>2. Turn => \/ stateFile' = stateFile
                  \/ phase' = "renamed" /\ stateFile'.offset \in {offset, offset + 1}
      <4>1. StartFresh \/ (\E i \in DOMAIN pending : StartRetry(i)) => stateFile' = stateFile
        BY DEF StartFresh, StartRetry
      <4>2. SkipFresh => phase' = "renamed" /\ stateFile'.offset = offset + 1
        BY DEF SkipFresh, Rename
      <4>3. ASSUME NEW i \in DOMAIN pending, SkipRetry(i)
            PROVE  phase' = "renamed" /\ stateFile'.offset = offset
        <5>1. Rename([offset |-> offset, pending |-> pending', pause |-> pauseUntil])
          BY <4>3 DEF SkipRetry
        <5> QED
          BY <5>1 DEF Rename
      <4> QED
        BY <4>1, <4>2, <4>3 DEF Turn
    <3>3. CASE Attempt
      <4>1. NextOffset \in {offset, offset + 1}
        BY DEF NextOffset
      <4> QED
        BY <3>3, <4>1, AttemptSaves
    <3> QED
      BY <1>5, <3>1, <3>2, <3>3
  <2>2. stateFile.offset = offset /\ offset \in Nat
    BY <2>1, MemoryAccepted DEF Safe, TypeOK
  <2>3. phase' = "renamed" => stateFile' # NoState
    <3>1. Safe'
      BY <1>5, SafeTurn, SafeAttempt
    <3> QED
      BY <3>1 DEF Safe, InStep
  <2>4. stateStable # NoState => stateStable.offset \in Nat
    BY <1>1 DEF Checkpoint
  <2> QED
    BY <2>1, <2>2, <2>3, <2>4 DEF Ordered
<1> QED
  BY <1>2, <1>3, <1>4, <1>5 DEF Work

----------------------------------------------------------------------------
(* Theorems *)

\* Whatever the constants, the sender stays safe.
THEOREM SafeAlways == Spec => []Safe
<1>1. Init => Safe
  BY SafeInit
<1>2. Safe /\ [Next]_vars => Safe'
  BY SafeStep
<1> QED
  BY <1>1, <1>2, PTL DEF Spec

\* Every variable keeps its type; in particular no key is ever sent for a
\* record that must not be sent, for acked and delivered hold keys only.
THEOREM TypeCorrect == Spec => []TypeOK
<1>1. Safe => TypeOK
  BY DEF Safe
<1> QED
  BY <1>1, SafeAlways, PTL

\* Every checkpoint a crash can leave behind, at any point of any turn, passes
\* the checks of loadRuleBotState and openRuleBotSender: a restart never refuses.
THEOREM RestartAccepted == Spec => []StateAccepted
<1>1. Safe => StateAccepted
  BY DEF Safe
<1> QED
  BY <1>1, SafeAlways, PTL

\* No record is forgotten: each one before the offset of a checkpoint that a
\* crash can leave behind was taken over by the server, is queued in that same
\* checkpoint, or was excused by the configuration.
THEOREM NothingForgotten == Spec => []NoLoss
<1>1. Init => Covered
  BY CoveredInit
<1>2. Safe /\ Covered /\ [Next]_vars => Covered'
  BY CoveredStep
<1>3. Covered => NoLoss
  BY DEF Covered
<1> QED
  BY <1>1, <1>2, <1>3, SafeAlways, PTL DEF Spec

\* A retry and a fresh record that are both ready take turns.
THEOREM TurnsTaken == Spec => []Alternation
<1> USE DEF memory, disk, history
<1>1. Init => TurnsAlternate
  BY DEF Init, TurnsAlternate
<1>2. Safe /\ TurnsAlternate /\ [Next]_vars => TurnsAlternate'
  <2> SUFFICES ASSUME Safe, TurnsAlternate, [Next]_vars PROVE TurnsAlternate'
    OBVIOUS
  <2>1. /\ retrying \in BOOLEAN
        /\ retryTurn \in BOOLEAN
        /\ bypass \in {0, 1}
    BY DEF Safe, TypeOK, TurnsAlternate
  <2>2. CASE Environment \/ UNCHANGED vars
    BY <2>2 DEF Environment, Append1, Tick, EditExclusions, vars, TurnsAlternate
  <2>3. CASE Create \/ CreateSynced \/ Open
    BY <2>1, <2>3 DEF Create, CreateSynced, Open, Load, TurnsAlternate
  <2>4. CASE SkipFresh \/ StartFresh
    <3>1. phase = "idle" /\ phase' # "idle" /\ (Due # {} => ~retryTurn)
      BY <2>4 DEF SkipFresh, StartFresh, FreshTurn, Awake, Rename
    <3>2. TakeTurn(FALSE, 0, Due # {})
      BY <2>4 DEF SkipFresh, StartFresh
    <3>3. bypass' \in {0, 1}
      BY <2>1, <3>1, <3>2 DEF TakeTurn, TurnsAlternate
    <3> QED
      BY <3>1, <3>3 DEF TurnsAlternate
  <2>5. ASSUME NEW i \in DOMAIN pending, SkipRetry(i) \/ StartRetry(i)
        PROVE  TurnsAlternate'
    <3>1. phase = "idle" /\ phase' # "idle" /\ (FreshReady => retryTurn)
      BY <2>5 DEF SkipRetry, StartRetry, RetryTurn, Awake, Rename
    <3>2. TakeTurn(TRUE, i, FreshReady)
      BY <2>5 DEF SkipRetry, StartRetry
    <3>3. bypass' \in {0, 1}
      BY <2>1, <3>1, <3>2 DEF TakeTurn, TurnsAlternate
    <3> QED
      BY <3>1, <3>3 DEF TurnsAlternate
  <2>6. CASE Attempt
    <3>1. phase' = "renamed" /\ bypass' = bypass
      BY <2>6 DEF Attempt, Acknowledged, Failed, Rename
    <3> QED
      BY <3>1 DEF TurnsAlternate
  <2>7. CASE Synced
    BY <2>1, <2>7 DEF Synced, TurnAlternates, TurnsAlternate
  <2>8. CASE Stop \/ PowerLoss
    BY <2>8 DEF Stop, PowerLoss, Forget, TurnsAlternate
  <2> QED
    BY <2>2, <2>3, <2>4, <2>5, <2>6, <2>7, <2>8 DEF Next, Turn
<1>3. TurnsAlternate => Alternation
  BY DEF TurnsAlternate, Alternation
<1> QED
  BY <1>1, <1>2, <1>3, SafeAlways, PTL DEF Spec

\* Pauses and deadlines survive restarts: a request never leaves before the
\* pause, or before the deadline of its record, that is on disk.
THEOREM DeadlinesKept == Spec => DeadlinesHonoured
<1> USE DEF memory, disk, history
<1> DEFINE OnTime ==
      StartsSending =>
        /\ stateFile.pause <= now
        /\ \A i \in DOMAIN stateFile.pending :
             stateFile.pending[i].offset = SendingOffset' =>
               stateFile.pending[i].next <= now
<1>1. Safe /\ [Next]_vars => OnTime
  <2> SUFFICES ASSUME Safe, Next, StartsSending PROVE OnTime
    BY DEF vars, StartsSending
  <2>1. StartFresh \/ \E i \in DOMAIN pending : StartRetry(i)
    BY DEF StartsSending, Next, Environment, Append1, Tick, EditExclusions, Create,
           CreateSynced, Open, Load, Turn, SkipFresh, SkipRetry, Rename, Attempt,
           Acknowledged, Failed, Synced, Stop, PowerLoss, Forget
  <2>2. phase = "idle" /\ pauseUntil <= now
    BY <2>1 DEF StartFresh, StartRetry, FreshTurn, RetryTurn, Awake
  <2>3. /\ stateFile = [offset |-> offset, pending |-> pending, pause |-> pauseUntil]
        /\ GoodQueue(offset, pending)
        /\ offset \in Nat
        /\ pending \in Seq(PendingEntry)
    BY <2>2, MemoryAccepted DEF Safe, TypeOK
  <2>4. ASSUME NEW j \in DOMAIN pending, pending[j].offset = SendingOffset'
        PROVE  pending[j].next <= now
    <3>1. CASE StartFresh
      <4>1. SendingOffset' = offset
        BY <3>1 DEF StartFresh, TakeTurn, SendingOffset
      <4> QED
        BY <2>3, <2>4, <4>1, EntryFields DEF GoodQueue
    <3>2. ASSUME NEW i \in DOMAIN pending, StartRetry(i)
          PROVE  pending[j].next <= now
      <4>1. SendingOffset' = pending[i].offset
        BY <3>2 DEF StartRetry, TakeTurn, SendingOffset
      <4>2. i = j
        BY <2>3, <2>4, <4>1 DEF GoodQueue
      <4> QED
        BY <3>2, <4>2 DEF StartRetry, RetryTurn, Due
    <3> QED
      BY <2>1, <3>1, <3>2
  <2> QED
    BY <2>2, <2>3, <2>4
<1>2. Safe /\ [Next]_vars => [OnTime]_vars
  BY <1>1
<1>3. [][OnTime]_vars <=> DeadlinesHonoured
  BY DEF DeadlinesHonoured
<1> HIDE DEF OnTime
<1> QED
  BY <1>2, <1>3, SafeAlways, PTL DEF Spec

----------------------------------------------------------------------------
(* Hypotheses about the exclusions *)

\* The exclusions cover all hosts of a key or none of them.  An entry of the
\* exclude list for a host below a registrable domain breaks this.
WholeKeys ==
  \A ex \in ExclusionLists : \A g, h \in Hosts :
    g \in ex /\ KeyOf[g] = KeyOf[h] /\ KeyOf[h] # NoKey => h \in ex

\* The exclusions are never edited.
Steady == \A ex1, ex2 \in ExclusionLists : ex1 = ex2

\* There are no exclusions.
NothingExcluded == \A ex \in ExclusionLists : ex = {}

----------------------------------------------------------------------------
(* The conjuncts of the inductive invariants *)

\* The keys of hosts that some exclusions cover.
ExcusedKeys == {KeyOf[h] : h \in UNION ExclusionLists}

\* Only exclusions excuse a key when the existing records are sent as well.
WaivedExcused == SendExisting => waived \subseteq ExcusedKeys

\* The keys of all records behind the offset are known as delivered, or excluded.
Known ==
  phase \in {"idle", "sending", "renamed"} =>
    KeysUpTo(stateFile.offset) \subseteq delivered \cup ExcusedKeys

\* A fresh record that is being sent is the first one of its key.
FirstOfKey ==
  phase = "sending" /\ ~retrying =>
    SendingKey \in delivered /\ SendingKey \notin KeysUpTo(stateFile.offset)

\* The records that checkpoint s accounts for and does not queue.
SettledIn(s) ==
  IF s = NoState THEN {}
  ELSE {i \in 1..s.offset : KeyOf[output[i]] \notin PendingKeys(s)}

\* The file has settled what the checkpoint behind it has settled.
Retained == SettledIn(stateStable) \subseteq SettledIn(stateFile)

----------------------------------------------------------------------------
(* At least once *)

\* The records passed over because of an exclusion have an excused key.
LEMMA WaivedStep == Safe /\ WaivedExcused /\ [Next]_vars => WaivedExcused'
<1> USE DEF memory, disk, history
<1> SUFFICES ASSUME Safe, WaivedExcused, [Next]_vars PROVE WaivedExcused'
  OBVIOUS
<1>1. excluded \in ExclusionLists
  BY DEF Safe, TypeOK
<1>2. \A host : host \in excluded => KeyOf[host] \in ExcusedKeys
  BY <1>1 DEF ExcusedKeys
<1>3. CASE SkipFresh
  BY <1>2, <1>3 DEF SkipFresh, WaivedExcused
<1>4. ASSUME NEW i \in DOMAIN pending, SkipRetry(i)
      PROVE  WaivedExcused'
  <2>1. KeyOf[RecordAt(pending[i].offset)] \in ExcusedKeys \cup {NoKey}
    BY <1>2, <1>4 DEF SkipRetry, Prepare
  <2> QED
    BY <1>4, <2>1 DEF SkipRetry, WaivedExcused
<1>5. CASE Create
  BY <1>5 DEF Create, WaivedExcused
<1>6. ASSUME UNCHANGED waived
      PROVE  WaivedExcused'
  BY <1>6 DEF WaivedExcused
<1>7. CASE StartFresh \/ \E i \in DOMAIN pending : StartRetry(i)
  BY <1>6, <1>7 DEF StartFresh, StartRetry
<1>8. CASE Environment \/ CreateSynced \/ Open \/ Attempt \/ Synced \/ Stop \/ PowerLoss
  BY <1>6, <1>8 DEF Environment, Append1, Tick, EditExclusions, CreateSynced, Open,
                    Attempt, Acknowledged, Failed, Synced, Stop, PowerLoss
<1>9. CASE UNCHANGED vars
  BY <1>6, <1>9 DEF vars
<1> QED
  BY <1>3, <1>4, <1>5, <1>7, <1>8, <1>9 DEF Next, Turn

\* Only exclusions ever excuse a record when the existing ones are sent too.
LEMMA WaivedAlways == Spec => []WaivedExcused
<1>1. Init => WaivedExcused
  BY DEF Init, WaivedExcused
<1> QED
  BY <1>1, WaivedStep, SafeAlways, PTL DEF Spec

\* docs/design-contract.md:94, at-least-once delivery: a scanned record that no
\* exclusion covers is queued or was delivered, as long as the exclusions cover
\* whole keys.
THEOREM DeliveredAtLeastOnce ==
  ASSUME WholeKeys
  PROVE  Spec => []AtLeastOnce
<1>1. Safe /\ NoLoss /\ WaivedExcused => AtLeastOnce
  <2> SUFFICES ASSUME Safe, NoLoss, WaivedExcused, SendExisting,
                      NEW s \in Checkpoints, NEW i \in 1..s.offset,
                      \A ex \in ExclusionLists : output[i] \notin ex
               PROVE  KeyOf[output[i]] \in acked \cup {NoKey} \cup PendingKeys(s)
    BY DEF AtLeastOnce
  <2>1. KeyOf[output[i]] \in acked \cup waived \cup {NoKey} \cup PendingKeys(s)
    BY DEF NoLoss
  <2>2. output[i] \in Hosts
    <3>1. s \in Checkpoint /\ s.offset <= Len(output)
      BY DEF Safe, TypeOK, StateAccepted, Checkpoints, Accepts
    <3>2. output \in Seq(Hosts) /\ Len(output) \in Nat /\ s.offset \in Nat
      BY <3>1, LenProperties DEF Safe, TypeOK, Checkpoint
    <3>3. i \in 1..Len(output)
      BY <3>1, <3>2
    <3> QED
      BY <3>2, <3>3, ElementOfSeq
  <2>3. KeyOf[output[i]] # NoKey => KeyOf[output[i]] \notin ExcusedKeys
    <3> SUFFICES ASSUME NEW ex \in ExclusionLists, NEW h \in ex,
                        KeyOf[output[i]] = KeyOf[h], KeyOf[output[i]] # NoKey
                 PROVE  FALSE
      BY DEF ExcusedKeys
    <3>1. h \in Hosts
      BY SenderAssumption
    <3> QED
      BY <2>2, <3>1 DEF WholeKeys
  <2> QED
    BY <2>1, <2>3 DEF WaivedExcused
<1> QED
  BY <1>1, SafeAlways, NothingForgotten, WaivedAlways, PTL

----------------------------------------------------------------------------
(* A key is sent once *)

\* One more record adds its key.
LEMMA NextRecordKey ==
  ASSUME output \in Seq(Hosts), NEW o \in Nat, o < Len(output)
  PROVE  KeysUpTo(o + 1) = KeysUpTo(o) \cup ({KeyOf[RecordAt(o)]} \ {NoKey})
<1>1. (1..(o + 1)) \cap DOMAIN output = ((1..o) \cap DOMAIN output) \cup {o + 1}
  BY LenProperties
<1> QED
  BY <1>1 DEF KeysUpTo, RecordAt

\* A record that may be sent is not of an excluded key.
LEMMA SentNotExcused ==
  ASSUME WholeKeys, Steady, Safe, NEW o \in Nat, o < Len(output),
         Prepare(RecordAt(o), excluded) # NoKey
  PROVE  /\ KeyOf[RecordAt(o)] \notin ExcusedKeys
         /\ Prepare(RecordAt(o), excluded) = KeyOf[RecordAt(o)]
<1>1. RecordAt(o) \in Hosts
  <2>1. o + 1 \in 1..Len(output)
    BY LenProperties DEF Safe, TypeOK
  <2> QED
    BY <2>1, ElementOfSeq DEF RecordAt, Safe, TypeOK
<1>2. RecordAt(o) \notin excluded /\ KeyOf[RecordAt(o)] # NoKey
  BY DEF Prepare
<1>3. excluded \in ExclusionLists
  BY DEF Safe, TypeOK
<1>4. ASSUME NEW ex \in ExclusionLists, NEW h \in ex, KeyOf[RecordAt(o)] = KeyOf[h]
      PROVE  FALSE
  <2>1. ex = excluded /\ h \in Hosts
    BY <1>3, SenderAssumption DEF Steady
  <2> QED
    BY <1>1, <1>2, <1>4, <2>1 DEF WholeKeys
<1> QED
  BY <1>2, <1>4 DEF ExcusedKeys, Prepare

\* The set of delivered keys misses no key behind the offset that may be sent.
LEMMA KnownStep ==
  ASSUME WholeKeys, Steady, Safe, Known, FirstOfKey, [Next]_vars
  PROVE  Known' /\ FirstOfKey'
<1> USE DEF memory, disk, history
<1>1. /\ output \in Seq(Hosts)
      /\ offset \in Nat
      /\ excluded \in ExclusionLists
  BY DEF Safe, TypeOK
<1>2. phase \in {"idle", "sending"} => stateFile.offset = offset
  BY MemoryAccepted
<1>3. ASSUME UNCHANGED <<output, stateFile, delivered>>,
             phase' \in {"idle", "renamed"} => phase \in {"idle", "sending", "renamed"},
             phase' = "sending" => phase = "sending" /\ retrying' = retrying
                                   /\ SendingKey' = SendingKey
      PROVE  Known' /\ FirstOfKey'
  <2>1. KeysUpTo(stateFile.offset)' = KeysUpTo(stateFile.offset)
    BY <1>3 DEF KeysUpTo
  <2> QED
    BY <1>3, <2>1 DEF Known, FirstOfKey
<1>4. CASE Environment
  <2>1. ASSUME NEW host \in Hosts, Append1(host)
        PROVE  Known' /\ FirstOfKey'
    <3>1. phase \in {"idle", "renamed", "sending"} => stateFile # NoState
      BY MemoryAccepted DEF Safe, InStep
    <3>2. phase \in {"idle", "renamed", "sending"} =>
            KeysUpTo(stateFile.offset)' = KeysUpTo(stateFile.offset)
      BY <2>1, <3>1, EnvironmentGrows, OutputGrows
    <3>3. phase = "sending" => SendingKey' = SendingKey
      BY <2>1, EnvironmentGrows, OutputGrows
    <3> QED
      BY <2>1, <3>2, <3>3 DEF Append1, Known, FirstOfKey
  <2>2. CASE Tick \/ EditExclusions
    BY <1>3, <2>2 DEF Tick, EditExclusions, SendingKey, SendingOffset, RecordAt
  <2> QED
    BY <1>4, <2>1, <2>2 DEF Environment
<1>5. CASE Create \/ CreateSynced \/ Open
  <2>1. CASE Create
    BY <2>1 DEF Create, Known, FirstOfKey
  <2>2. CASE CreateSynced \/ Open
    <3>1. /\ delivered' = KeysUpTo(stateFile.offset)
          /\ KeysUpTo(stateFile.offset)' = KeysUpTo(stateFile.offset)
          /\ phase' = "idle"
      BY <2>2 DEF CreateSynced, Open, Load, Remembered, KeysUpTo
    <3> QED
      BY <3>1 DEF Known, FirstOfKey
  <2> QED
    BY <1>5, <2>1, <2>2
<1>6. CASE SkipFresh
  <2>1. offset < Len(output) /\ phase = "idle"
    BY <1>6 DEF SkipFresh, FreshTurn, Awake, FreshReady
  <2>2. KeysUpTo(stateFile.offset)' =
          KeysUpTo(offset) \cup ({KeyOf[RecordAt(offset)]} \ {NoKey})
    <3>1. KeysUpTo(stateFile.offset)' = KeysUpTo(offset + 1)
      BY <1>6 DEF SkipFresh, Rename, KeysUpTo
    <3> QED
      BY <1>1, <2>1, <3>1, NextRecordKey
  <2>3. KeyOf[RecordAt(offset)] \in delivered \cup {NoKey} \cup ExcusedKeys
    BY <1>1, <1>6 DEF SkipFresh, Prepare, ExcusedKeys
  <2>4. phase' = "renamed" /\ delivered' = delivered
    BY <1>6 DEF SkipFresh, Rename
  <2> QED
    BY <1>2, <2>1, <2>2, <2>3, <2>4 DEF Known, FirstOfKey
<1>7. CASE StartFresh
  <2>1. offset < Len(output) /\ phase = "idle"
    BY <1>7 DEF StartFresh, FreshTurn, Awake, FreshReady
  <2>2. /\ SendingKey' = KeyOf[RecordAt(offset)]
        /\ KeysUpTo(stateFile.offset)' = KeysUpTo(stateFile.offset)
        /\ delivered' = delivered \cup {KeyOf[RecordAt(offset)]}
        /\ phase' = "sending"
    BY <1>7 DEF StartFresh, TakeTurn, SendingKey, SendingOffset, RecordAt, KeysUpTo
  <2>3. KeyOf[RecordAt(offset)] \notin delivered \cup ExcusedKeys
    BY <1>1, <1>7, <2>1, SentNotExcused DEF StartFresh
  <2> QED
    BY <2>1, <2>2, <2>3 DEF Known, FirstOfKey
<1>8. ASSUME NEW i \in DOMAIN pending, SkipRetry(i) \/ StartRetry(i)
      PROVE  Known' /\ FirstOfKey'
  <2>1. /\ KeysUpTo(stateFile.offset)' = KeysUpTo(offset)
        /\ phase = "idle"
        /\ delivered' = delivered
        /\ phase' = "renamed" \/ retrying'
    BY <1>2, <1>8 DEF SkipRetry, StartRetry, RetryTurn, Awake, Rename, TakeTurn, KeysUpTo
  <2> QED
    BY <1>2, <2>1 DEF Known, FirstOfKey
<1>9. CASE Attempt
  <2>1. /\ phase = "sending"
        /\ phase' = "renamed"
        /\ stateFile'.offset = NextOffset
        /\ UNCHANGED <<output, delivered>>
    BY <1>9, AttemptSaves
  <2>2. retrying \in BOOLEAN
    BY DEF Safe, TypeOK
  <2>3. CASE retrying
    <3>1. KeysUpTo(stateFile.offset)' = KeysUpTo(offset)
      BY <2>1, <2>3 DEF NextOffset, KeysUpTo
    <3> QED
      BY <1>2, <2>1, <3>1 DEF Known, FirstOfKey
  <2>4. CASE ~retrying
    <3>1. KeysUpTo(stateFile.offset)' = KeysUpTo(offset + 1)
      BY <2>1, <2>4 DEF NextOffset, KeysUpTo
    <3>2. SendingKey = KeyOf[RecordAt(offset)] /\ offset < Len(output)
      BY <2>1, <2>4 DEF Safe, SendingReal, SendingKey, SendingOffset
    <3>3. KeysUpTo(offset + 1) \subseteq KeysUpTo(offset) \cup {SendingKey}
      BY <1>1, <3>2, NextRecordKey
    <3> QED
      BY <1>2, <2>1, <2>4, <3>1, <3>3 DEF Known, FirstOfKey
  <2> QED
    BY <2>2, <2>3, <2>4
<1>10. CASE Synced
  BY <1>3, <1>10 DEF Synced
<1>11. CASE Stop \/ PowerLoss
  BY <1>11 DEF Stop, PowerLoss, Forget, Known, FirstOfKey
<1>12. CASE UNCHANGED vars
  BY <1>3, <1>12 DEF vars, SendingKey, SendingOffset, RecordAt
<1> QED
  BY <1>4, <1>5, <1>6, <1>7, <1>8, <1>9, <1>10, <1>11, <1>12 DEF Next, Turn

\* What the sender knows of the keys behind it, in every reachable state.
LEMMA KnownAlways ==
  ASSUME WholeKeys, Steady
  PROVE  Spec => [](Known /\ FirstOfKey)
<1>1. Init => Known /\ FirstOfKey
  BY DEF Init, Known, FirstOfKey
<1>2. Safe /\ Known /\ FirstOfKey /\ [Next]_vars => Known' /\ FirstOfKey'
  BY KnownStep
<1> QED
  BY <1>1, <1>2, SafeAlways, PTL DEF Spec

\* PRIVACY.md:10, a registrable domain is sent once: a key whose acknowledgement
\* reached the checkpoint is never sent again, across all crashes and restarts,
\* as long as the exclusions cover whole keys and are not edited.
THEOREM SentOnce ==
  ASSUME WholeKeys, Steady
  PROVE  Spec => NoResend
<1> USE DEF memory, disk, history
<1> DEFINE New ==
      StartsSending =>
        SendingKey' \notin acked \cap
          (KeysUpTo(stateFile.offset) \ PendingKeys(stateFile))
<1>1. Safe /\ Known /\ [Next]_vars => New
  <2> SUFFICES ASSUME Safe, Known, Next, StartsSending PROVE New
    BY DEF vars, StartsSending
  <2>1. StartFresh \/ \E i \in DOMAIN pending : StartRetry(i)
    BY DEF StartsSending, Next, Environment, Append1, Tick, EditExclusions, Create,
           CreateSynced, Open, Load, Turn, SkipFresh, SkipRetry, Rename, Attempt,
           Acknowledged, Failed, Synced, Stop, PowerLoss, Forget
  <2>2. phase = "idle"
    BY <2>1 DEF StartFresh, StartRetry, FreshTurn, RetryTurn, Awake
  <2>3. /\ stateFile = [offset |-> offset, pending |-> pending, pause |-> pauseUntil]
        /\ offset \in Nat
    BY <2>2, MemoryAccepted DEF Safe, TypeOK
  <2>4. CASE StartFresh
    <3>1. SendingKey' = KeyOf[RecordAt(offset)]
      BY <2>4 DEF StartFresh, TakeTurn, SendingKey, SendingOffset, RecordAt
    <3>2. offset < Len(output)
      BY <2>4 DEF StartFresh, FreshTurn, FreshReady
    <3>3. KeyOf[RecordAt(offset)] \notin delivered \cup ExcusedKeys
      BY <2>3, <2>4, <3>2, SentNotExcused DEF StartFresh
    <3> QED
      BY <2>2, <3>1, <3>3 DEF Known
  <2>5. ASSUME NEW i \in DOMAIN pending, StartRetry(i)
        PROVE  New
    <3>1. SendingKey' = KeyOf[RecordAt(pending[i].offset)]
      BY <2>5 DEF StartRetry, TakeTurn, SendingKey, SendingOffset, RecordAt
    <3>2. SendingKey' \in PendingKeys(stateFile)
      BY <2>3, <3>1 DEF PendingKeys
    <3> QED
      BY <3>2
  <2> QED
    BY <2>1, <2>4, <2>5
<1>2. Safe /\ Known /\ [Next]_vars => [New]_vars
  BY <1>1
<1>3. [][New]_vars <=> NoResend
  BY DEF NoResend
<1> HIDE DEF New
<1> QED
  BY <1>2, <1>3, SafeAlways, KnownAlways, PTL DEF Spec

----------------------------------------------------------------------------
(* The refinement of ReliableForwarding *)

\* The checkpoint that a turn saves settles what the one before it has settled,
\* if it queues no key of a record behind the offset that was not queued.
LEMMA SaveSettles ==
  ASSUME Safe, phase \in {"idle", "sending"}, output' = output,
         stateFile' # NoState, stateFile'.offset \in {offset, offset + 1},
         \A k \in QueueKeys(stateFile'.pending) :
           k \in QueueKeys(pending) \/ k \notin KeysUpTo(offset) \cup {NoKey}
  PROVE  SettledIn(stateFile) \subseteq SettledIn(stateFile)'
<1>1. /\ stateFile = [offset |-> offset, pending |-> pending, pause |-> pauseUntil]
      /\ stateFile # NoState
      /\ offset <= Len(output)
  BY MemoryAccepted
<1>2. offset \in Nat /\ output \in Seq(Hosts)
  BY DEF Safe, TypeOK
<1>3. \A i \in 1..offset : /\ i \in 1..(stateFile'.offset)
                          /\ KeyOf[output[i]] \in KeysUpTo(offset) \cup {NoKey}
  <2>1. \A i \in 1..offset : i \in 1..(stateFile'.offset) /\ i \in DOMAIN output
    BY <1>1, <1>2, LenProperties
  <2> QED
    BY <2>1 DEF KeysUpTo
<1>4. SettledIn(stateFile) = {i \in 1..offset : KeyOf[output[i]] \notin QueueKeys(pending)}
  BY <1>1 DEF SettledIn, PendingKeys, QueueKeys
<1>5. SettledIn(stateFile)' =
        {i \in 1..(stateFile'.offset) :
           KeyOf[output[i]] \notin QueueKeys(stateFile'.pending)}
  BY DEF SettledIn, PendingKeys, QueueKeys, RecordAt
<1> QED
  BY <1>3, <1>4, <1>5

\* No turn takes back what the checkpoint file has settled.
LEMMA TurnSettles ==
  ASSUME Safe, Known, FirstOfKey, Turn \/ Attempt
  PROVE  SettledIn(stateFile) \subseteq SettledIn(stateFile)'
<1> USE DEF memory, disk, history
<1>1. pending \in Seq(PendingEntry) /\ offset \in Nat /\ retrying \in BOOLEAN
  BY DEF Safe, TypeOK
<1>2. phase' = "renamed" => stateFile' # NoState
  <2>1. Safe'
    BY SafeStep DEF Next
  <2> QED
    BY <2>1 DEF Safe, InStep
<1>3. CASE StartFresh \/ \E i \in DOMAIN pending : StartRetry(i)
  BY <1>3 DEF StartFresh, StartRetry, SettledIn, PendingKeys, RecordAt
<1>4. CASE SkipFresh
  <2>1. /\ phase = "idle"
        /\ phase' = "renamed"
        /\ output' = output
        /\ stateFile'.offset = offset + 1
        /\ stateFile'.pending = pending
    BY <1>4 DEF SkipFresh, FreshTurn, Awake, Rename
  <2> QED
    BY <1>2, <2>1, SaveSettles
<1>5. ASSUME NEW i \in DOMAIN pending, SkipRetry(i)
      PROVE  SettledIn(stateFile) \subseteq SettledIn(stateFile)'
  <2>1. /\ phase = "idle"
        /\ phase' = "renamed"
        /\ output' = output
        /\ stateFile'.offset = offset
        /\ stateFile'.pending = RemoveAt(pending, i)
    BY <1>5 DEF SkipRetry, RetryTurn, Awake, Rename
  <2>2. QueueKeys(RemoveAt(pending, i)) \subseteq QueueKeys(pending)
    BY <1>1, KeysRemove
  <2> QED
    BY <1>2, <2>1, <2>2, SaveSettles
<1>6. CASE Attempt
  <2>1. /\ phase = "sending"
        /\ phase' = "renamed"
        /\ output' = output
        /\ stateFile'.offset = NextOffset
        /\ stateFile'.pending = pending'
        /\ stateFile.offset = offset
    BY <1>6, AttemptSaves, MemoryAccepted
  <2>2. NextOffset \in {offset, offset + 1}
    BY <1>1 DEF NextOffset
  <2>3. SendingKey \in QueueKeys(pending) \/ SendingKey \notin KeysUpTo(offset) \cup {NoKey}
    <3>1. CASE retrying
      BY <2>1, <3>1 DEF Safe, SendingReal, SendingKey, SendingOffset, QueueKeys
    <3>2. CASE ~retrying
      BY <2>1, <3>2 DEF Safe, SendingReal, FirstOfKey
    <3> QED
      BY <1>1, <3>1, <3>2
  <2>4. QueueKeys(pending') \subseteq QueueKeys(pending) \cup {SendingKey}
    <3>1. CASE Acknowledged
      <4>1. retrying => index \in DOMAIN pending
        BY <2>1 DEF Safe, SendingReal
      <4> QED
        BY <1>1, <3>1, <4>1, KeysRemove DEF Acknowledged
    <3>2. ASSUME NEW kind \in FailureKinds, NEW retryAfter \in RetryAfters,
                 NEW wait \in Jitter(NextDelay(index)), Failed(kind, wait, retryAfter)
          PROVE  QueueKeys(pending') \subseteq QueueKeys(pending) \cup {SendingKey}
      BY <3>2, FailureQueues
    <3> QED
      BY <1>6, <3>1, <3>2 DEF Attempt
  <2> QED
    BY <1>2, <2>1, <2>2, <2>3, <2>4, SaveSettles
<1> QED
  BY <1>3, <1>4, <1>5, <1>6 DEF Turn

\* A step settles for good only what the checkpoint file has settled already, and
\* the file keeps it; only a new record is neither.
LEMMA SettledStep ==
  ASSUME Safe, Known, FirstOfKey, Retained, [Next]_vars,
         ~\E host \in Hosts : Append1(host)
  PROVE  /\ Retained'
         /\ output' = output
         /\ SettledRecords \subseteq SettledRecords'
         /\ SettledRecords' \subseteq SettledRecords \cup SettledIn(stateFile)
<1> USE DEF memory, disk, history
<1>1. SettledRecords = SettledIn(stateStable) /\ SettledRecords' = SettledIn(stateStable)'
  BY DEF SettledRecords, SettledIn
<1>2. \A s : output' = output => SettledIn(s)' = SettledIn(s)
  BY DEF SettledIn, PendingKeys, RecordAt
<1>3. ASSUME output' = output, stateStable' = stateStable,
             SettledIn(stateFile) \subseteq SettledIn(stateFile)'
      PROVE  /\ Retained'
             /\ output' = output
             /\ SettledRecords \subseteq SettledRecords'
             /\ SettledRecords' \subseteq SettledRecords \cup SettledIn(stateFile)
  <2>1. SettledIn(stateStable)' = SettledIn(stateStable)
    BY <1>3 DEF SettledIn, PendingKeys, RecordAt
  <2> QED
    BY <1>1, <1>3, <2>1 DEF Retained
<1>4. ASSUME output' = output, stateStable' = stateFile', stateFile' \in {stateFile, stateStable}
      PROVE  /\ Retained'
             /\ output' = output
             /\ SettledRecords \subseteq SettledRecords'
             /\ SettledRecords' \subseteq SettledRecords \cup SettledIn(stateFile)
  <2>1. /\ SettledIn(stateFile)' = SettledIn(stateStable)'
        /\ SettledIn(stateStable)' \in {SettledIn(stateFile), SettledIn(stateStable)}
    BY <1>4 DEF SettledIn, PendingKeys, RecordAt
  <2> QED
    BY <1>1, <1>4, <2>1 DEF Retained
<1>5. CASE Environment
  BY <1>3, <1>5 DEF Environment, Tick, EditExclusions, SettledIn, PendingKeys, RecordAt
<1>6. CASE Create
  BY <1>3, <1>6 DEF Create, SettledIn
<1>7. CASE Open
  BY <1>3, <1>7 DEF Open, SettledIn, PendingKeys, RecordAt
<1>8. CASE CreateSynced \/ Synced
  BY <1>4, <1>8 DEF CreateSynced, Synced
<1>9. CASE Turn
  <2>1. output' = output /\ stateStable' = stateStable
    BY <1>9 DEF Turn, SkipFresh, StartFresh, SkipRetry, StartRetry
  <2> QED
    BY <1>3, <1>9, <2>1, TurnSettles
<1>10. CASE Attempt
  <2>1. output' = output /\ stateStable' = stateStable
    BY <1>10, AttemptSaves
  <2> QED
    BY <1>3, <1>10, <2>1, TurnSettles
<1>11. CASE Stop
  BY <1>3, <1>11 DEF Stop, SettledIn, PendingKeys, RecordAt
<1>12. CASE PowerLoss
  BY <1>4, <1>12 DEF PowerLoss, Revert
<1>13. CASE UNCHANGED vars
  BY <1>3, <1>13 DEF vars, SettledIn, PendingKeys, RecordAt
<1> QED
  BY <1>5, <1>6, <1>7, <1>8, <1>9, <1>10, <1>11, <1>12, <1>13 DEF Next

\* A new record settles nothing and takes nothing back.
LEMMA CaptureSettles ==
  ASSUME Safe, Retained, NEW host \in Hosts, Append1(host)
  PROVE  Retained' /\ SettledRecords' = SettledRecords
<1> USE DEF memory, disk, history
<1>1. ASSUME NEW s, s = NoState \/ s \in Checkpoints
      PROVE  SettledIn(s)' = SettledIn(s)
  <2>1. CASE s = NoState
    BY <2>1 DEF SettledIn
  <2>2. CASE s \in Checkpoints
    <3>1. /\ PendingKeys(s)' = PendingKeys(s)
          /\ \A i \in 1..s.offset : output'[i] = output[i]
      BY <2>2, EnvironmentGrows, OutputGrows
    <3> QED
      BY <3>1 DEF SettledIn
  <2> QED
    BY <1>1, <2>1, <2>2
<1>2. PICK s, t : s = stateFile /\ t = stateStable
  OBVIOUS
<1>3. SettledIn(s)' = SettledIn(s) /\ SettledIn(t)' = SettledIn(t)
  BY <1>1, <1>2 DEF Checkpoints
<1>4. stateFile' = s /\ stateStable' = t
  BY <1>2 DEF Append1
<1>5. SettledIn(stateFile)' = SettledIn(s)' /\ SettledIn(stateStable)' = SettledIn(t)'
  BY <1>4 DEF SettledIn, PendingKeys, RecordAt
<1>6. SettledRecords = SettledIn(stateStable) /\ SettledRecords' = SettledIn(stateStable)'
  BY DEF SettledRecords, SettledIn
<1> QED
  BY <1>2, <1>3, <1>5, <1>6 DEF Retained

\* The keys that the server has taken over change only by an attempt, and then
\* by the key being sent.
LEMMA AckedStep ==
  ASSUME [Next]_vars
  PROVE  \/ acked' = acked
         \/ phase = "sending" /\ acked' = acked \cup {SendingKey}
<1> USE DEF memory, disk, history
<1>1. CASE Environment \/ Create \/ CreateSynced \/ Open \/ Synced \/ UNCHANGED vars
  BY <1>1 DEF Environment, Append1, Tick, EditExclusions, Create, CreateSynced, Open,
              Synced, vars
<1>2. CASE Turn
  BY <1>2 DEF Turn, SkipFresh, StartFresh, SkipRetry, StartRetry
<1>3. CASE Attempt
  BY <1>3, AttemptSaves
<1>4. CASE Stop \/ PowerLoss
  BY <1>4 DEF Stop, PowerLoss, Forget, MaybeReceived
<1> QED
  BY <1>1, <1>2, <1>3, <1>4 DEF Next

\* What was settled is taken over by the server: nothing excuses a record.
LEMMA SettledAcked ==
  ASSUME NothingExcluded, SendExisting, Safe, NoLoss, WaivedExcused
  PROVE  \A i \in SettledIn(stateFile) :
           i \in 1..Len(output) /\ KeyOf[output[i]] \in acked \cup {NoKey}
<1>1. waived = {}
  BY DEF NothingExcluded, WaivedExcused, ExcusedKeys
<1>2. ASSUME NEW i \in SettledIn(stateFile)
      PROVE  i \in 1..Len(output) /\ KeyOf[output[i]] \in acked \cup {NoKey}
  <2>1. /\ stateFile # NoState
        /\ i \in 1..stateFile.offset
        /\ KeyOf[output[i]] \notin PendingKeys(stateFile)
    BY <1>2 DEF SettledIn
  <2>2. stateFile.offset \in Nat /\ stateFile.offset <= Len(output) /\ Len(output) \in Nat
    BY <2>1, FileAccepted, LenProperties DEF Safe, TypeOK
  <2>3. stateFile \in Checkpoints
    BY <2>1 DEF Checkpoints
  <2> QED
    BY <1>1, <2>1, <2>2, <2>3 DEF NoLoss
<1> QED
  BY <1>2

\* docs/design-contract.md:94: with its checkpoints, queue, pauses and crashes
\* the sender forwards every record at least once and never takes a settlement
\* back: it implements ReliableForwarding when the configuration asks for every
\* record.
THEOREM SenderForwards ==
  ASSUME NothingExcluded, SendExisting
  PROVE  Spec => ImplementsForwarding
<1>1. WholeKeys /\ Steady
  BY DEF NothingExcluded, WholeKeys, Steady
<1>2. Init => Forwarding!Init /\ Retained
  <2> SUFFICES ASSUME Init PROVE Forwarding!Init /\ Retained
    OBVIOUS
  <2>1. output \in Seq(Hosts)
    BY SafeInit DEF Safe, TypeOK
  <2> QED
    BY <2>1 DEF Init, Forwarding!Init, SettledRecords, SettledIn, Retained
<1>3. Safe /\ NoLoss /\ WaivedExcused /\ Known /\ FirstOfKey /\ Retained /\ [Next]_vars
        => [Forwarding!Next]_(Forwarding!vars) /\ Retained'
  <2> SUFFICES ASSUME Safe, NoLoss, WaivedExcused, Known, FirstOfKey, Retained,
                      [Next]_vars
               PROVE  Forwarding!Next /\ Retained'
    OBVIOUS
  <2>1. ASSUME NEW host \in Hosts, Append1(host)
        PROVE  Forwarding!Next /\ Retained'
    BY <2>1, CaptureSettles DEF Append1, history, Forwarding!Next, Forwarding!Capture
  <2>2. ASSUME ~\E host \in Hosts : Append1(host)
        PROVE  Forwarding!Next /\ Retained'
    <3>1. /\ Retained'
          /\ output' = output
          /\ SettledRecords \subseteq SettledRecords'
          /\ SettledRecords' \subseteq SettledRecords \cup SettledIn(stateFile)
      BY <2>2, SettledStep
    <3>2. Forwarding!Settle
      BY <3>1, SettledAcked DEF Forwarding!Settle, Forwarding!MaySettle
    <3>3. phase = "sending" => SendingOffset + 1 \in 1..Len(output) /\ SendingKey # NoKey
      <4>1. phase = "sending" => SendingOffset \in Nat
        BY EntryFields DEF Safe, SendingReal, SendingOffset, TypeOK
      <4>2. Len(output) \in Nat
        BY LenProperties DEF Safe, TypeOK
      <4> QED
        BY <4>1, <4>2 DEF Safe, SendingReal
    <3>4. Forwarding!Acquire \/ UNCHANGED acked
      BY <3>3, AckedStep DEF Forwarding!Acquire, SendingKey, RecordAt
    <3> QED
      BY <3>1, <3>2, <3>4 DEF Forwarding!Next, Forwarding!Progress
  <2> QED
    BY <2>1, <2>2
<1>4. Spec => [](Known /\ FirstOfKey)
  BY <1>1, KnownAlways
<1> QED
  BY <1>2, <1>3, <1>4, SafeAlways, NothingForgotten, WaivedAlways, PTL
  DEF Spec, ImplementsForwarding, Forwarding!Spec
=============================================================================
