--------------------------- MODULE DeliveryProofs ---------------------------
(***************************************************************************)
(* What holds of the durability chain for every value of the constants,    *)
(* proved with TLAPS.  For the store the argument follows a line on its    *)
(* way from the channel through the buffer into the file: the sequence of  *)
(* all lines changes only where one is accepted and where a crash cuts it. *)
(* For the whole chain it takes over what RuleBotSenderProofs shows of the *)
(* sender, with the readable lines as its output, while both parts run,    *)
(* and carries it through the crashes that cut the output back.            *)
(***************************************************************************)
EXTENDS Delivery, SequenceTheorems, TLAPS

\* What is proved of the sender, for the lines it may read.
Proved == INSTANCE RuleBotSenderProofs WITH output <- Readable, MaxOutput <- MaxLines

----------------------------------------------------------------------------
(* The conjuncts of the inductive invariants *)

\* All lines of the client, in the order of the file.
AllLines == file \o InFlight

\* Nothing is on its way before the store is opened.
NothingInFlight == store \in {"down", "repairing"} => buffer = <<>> /\ writes = <<>>

\* An open file ends with a newline.
TailRepaired == store # "down" => tail = NoTail

\* Once the file was read, the set holds all lines.
Indexed == store # "down" => seen = ToSet(AllLines)

\* What the other results about the store rest on.
StoreSafe == StoreTypeOK /\ NothingInFlight /\ TailRepaired

\* No line is repeated, and repairing the tail will not repeat one.
Distinct == IsInjective(AllLines) /\ tail \notin ToSet(file)

\* Without kills: what was not synchronized makes the store dirty.
Synchronized ==
  /\ durable <= synced
  /\ store = "down" => synced = Len(file)
  /\ store = "running" /\ ~dirty => synced = Len(file)

----------------------------------------------------------------------------
(* Lemmas about sequences *)

\* The elements of a concatenation.
LEMMA ToSetConcat ==
  ASSUME NEW S, NEW s \in Seq(S), NEW t \in Seq(S)
  PROVE  ToSet(s \o t) = ToSet(s) \cup ToSet(t)
<1>1. /\ Len(s \o t) = Len(s) + Len(t)
      /\ \A i \in 1..(Len(s) + Len(t)) :
           (s \o t)[i] = IF i <= Len(s) THEN s[i] ELSE t[i - Len(s)]
      /\ s \o t \in Seq(S)
  BY ConcatProperties
<1>2. /\ Len(s) \in Nat
      /\ Len(t) \in Nat
      /\ DOMAIN s = 1..Len(s)
      /\ DOMAIN t = 1..Len(t)
      /\ DOMAIN (s \o t) = 1..(Len(s) + Len(t))
  BY <1>1, LenProperties
<1>3. \A i \in 1..Len(s) : i \in DOMAIN (s \o t) /\ (s \o t)[i] = s[i]
  BY <1>1, <1>2
<1>4. \A i \in 1..Len(t) :
        Len(s) + i \in DOMAIN (s \o t) /\ (s \o t)[Len(s) + i] = t[i]
  BY <1>1, <1>2
<1>5. ToSet(s \o t) \subseteq ToSet(s) \cup ToSet(t)
  BY <1>1, <1>2 DEF ToSet
<1>6. ToSet(s) \subseteq ToSet(s \o t)
  BY <1>2, <1>3 DEF ToSet
<1>7. ToSet(t) \subseteq ToSet(s \o t)
  BY <1>2, <1>4 DEF ToSet
<1> QED
  BY <1>5, <1>6, <1>7

\* One more element.
LEMMA ToSetAppend ==
  ASSUME NEW S, NEW s \in Seq(S), NEW e \in S
  PROVE  ToSet(Append(s, e)) = ToSet(s) \cup {e}
<1>1. /\ Append(s, e) \in Seq(S)
      /\ Len(Append(s, e)) = Len(s) + 1
      /\ \A i \in 1..Len(s) : Append(s, e)[i] = s[i]
      /\ Append(s, e)[Len(s) + 1] = e
  BY AppendProperties
<1>2. /\ Len(s) \in Nat
      /\ DOMAIN s = 1..Len(s)
      /\ DOMAIN Append(s, e) = 1..(Len(s) + 1)
  BY <1>1, LenProperties
<1> QED
  BY <1>1, <1>2 DEF ToSet

\* Appending a new element keeps a sequence free of repetitions.
LEMMA InjectiveAppend ==
  ASSUME NEW S, NEW s \in Seq(S), NEW e \in S, IsInjective(s), e \notin ToSet(s)
  PROVE  IsInjective(Append(s, e))
<1>1. /\ Append(s, e) \in Seq(S)
      /\ Len(Append(s, e)) = Len(s) + 1
      /\ \A i \in 1..Len(s) : Append(s, e)[i] = s[i]
      /\ Append(s, e)[Len(s) + 1] = e
  BY AppendProperties
<1>2. /\ Len(s) \in Nat
      /\ DOMAIN s = 1..Len(s)
      /\ DOMAIN Append(s, e) = 1..(Len(s) + 1)
  BY <1>1, LenProperties
<1>3. \A i \in 1..Len(s) : s[i] # e
  BY <1>2 DEF ToSet
<1> QED
  BY <1>1, <1>2, <1>3 DEF IsInjective

\* A part at the beginning of a sequence without repetitions has none either,
\* and the elements behind it do not occur in it.
LEMMA InjectivePart ==
  ASSUME NEW S, NEW s \in Seq(S), NEW t \in Seq(S), IsInjective(s),
         Len(t) <= Len(s), \A i \in 1..Len(t) : t[i] = s[i]
  PROVE  /\ IsInjective(t)
         /\ \A k \in (Len(t) + 1)..Len(s) : s[k] \notin ToSet(t)
<1>1. /\ Len(s) \in Nat
      /\ Len(t) \in Nat
      /\ DOMAIN s = 1..Len(s)
      /\ DOMAIN t = 1..Len(t)
  BY LenProperties
<1> QED
  BY <1>1 DEF IsInjective, ToSet

\* The first n elements of a sequence.
LEMMA FirstElements ==
  ASSUME NEW S, NEW s \in Seq(S), NEW n \in 0..Len(s)
  PROVE  /\ SubSeq(s, 1, n) \in Seq(S)
         /\ Len(SubSeq(s, 1, n)) = n
         /\ \A i \in 1..n : SubSeq(s, 1, n)[i] = s[i]
<1>1. Len(s) \in Nat
  BY LenProperties
<1>2. \A i \in 1..n : s[i] \in S
  BY <1>1, ElementOfSeq
<1>3. /\ SubSeq(s, 1, n) \in Seq(S)
      /\ Len(SubSeq(s, 1, n)) = IF 1 <= n THEN n - 1 + 1 ELSE 0
      /\ \A i \in 1..(n - 1 + 1) : SubSeq(s, 1, n)[i] = s[1 + i - 1]
  BY <1>1, <1>2, SubSeqProperties
<1> QED
  BY <1>1, <1>3

\* The first of the lines on their way moves on without changing their order.
LEMMA HeadMoves ==
  ASSUME NEW S, NEW s \in Seq(S), NEW t \in Seq(S), t # <<>>
  PROVE  /\ Append(s, Head(t)) \o Tail(t) = s \o t
         /\ <<Head(t)>> \o Tail(t) = t
<1>1. /\ Head(t) \in S
      /\ Tail(t) \in Seq(S)
      /\ Len(t) \in Nat \ {0}
  BY HeadTailProperties, EmptySeq
<1>2. <<Head(t)>> \in Seq(S)
  BY <1>1
<1>3. <<Head(t)>> \o Tail(t) = t
  <2>1. Len(t) \in 1..Len(t) /\ 1 \in 1..Len(t)
    BY <1>1
  <2>2. /\ SubSeq(t, 1, Len(t)) = <<t[1]>> \o SubSeq(t, 1 + 1, Len(t))
        /\ SubSeq(t, 1, Len(t)) = t
    BY <2>1, SubSeqRecursiveFirst, SubSeqFull
  <2>3. Tail(t) = SubSeq(t, 2, Len(t)) /\ Head(t) = t[1]
    BY TailIsSubSeq
  <2> QED
    BY <2>2, <2>3
<1>4. Append(s, Head(t)) = s \o <<Head(t)>>
  BY <1>1, AppendIsConcat
<1> QED
  BY <1>1, <1>2, <1>3, <1>4, ConcatAssociative

----------------------------------------------------------------------------
(* The steps of the store *)

\* The store closes without the last synchronization: its part of Refuse.
Abandoned ==
  /\ store = "running"
  /\ ForgetStore
  /\ UNCHANGED <<file, tail, synced, crashes>>

StoreStep == StoreNext \/ Abandoned

\* The sequences of the store and their lengths.
LEMMA StoreSequences ==
  ASSUME StoreTypeOK
  PROVE  /\ file \in Seq(Hosts) /\ Len(file) \in Nat /\ DOMAIN file = 1..Len(file)
         /\ buffer \in Seq(Hosts) /\ Len(buffer) \in Nat
         /\ DOMAIN buffer = 1..Len(buffer)
         /\ writes \in Seq(Hosts) /\ Len(writes) \in Nat
         /\ \A i \in 1..Len(file) : file[i] \in Hosts
         /\ \A i \in 1..Len(buffer) : buffer[i] \in Hosts
         /\ InFlight \in Seq(Hosts)
         /\ AllLines \in Seq(Hosts)
<1>1. file \in Seq(Hosts) /\ buffer \in Seq(Hosts) /\ writes \in Seq(Hosts)
  BY DEF StoreTypeOK
<1>2. InFlight \in Seq(Hosts)
  BY <1>1, ConcatProperties DEF InFlight
<1>3. AllLines \in Seq(Hosts)
  BY <1>1, <1>2, ConcatProperties DEF AllLines
<1> QED
  BY <1>1, <1>2, <1>3, LenProperties, ElementOfSeq

\* What an unfinished line reads as.
LEMMA UnfinishedTyped ==
  ASSUME StoreTypeOK
  PROVE  Unfinished \subseteq Hosts \cup {Invalid, NoTail}
<1>1. CASE torn
  <2>1. Head(buffer) \in Hosts
    BY <1>1, HeadTailProperties DEF StoreTypeOK
  <2> QED
    BY <1>1, <2>1, StoreAssumption DEF Unfinished
<1>2. CASE ~torn
  BY <1>2, StoreAssumption DEF Unfinished, StoreTypeOK
<1> QED
  BY <1>1, <1>2

\* The store starts safe.
LEMMA StoreSafeInit == StoreInit => StoreSafe
<1> SUFFICES ASSUME StoreInit PROVE StoreSafe
  OBVIOUS
<1>1. <<>> \in Seq(Hosts) /\ Len(<<>>) = 0
  BY EmptySeq
<1>2. closing \in BOOLEAN /\ torn \in BOOLEAN /\ dirty \in BOOLEAN
  BY DEF StoreInit
<1>3. /\ file \in Seq(Hosts)
      /\ synced \in 0..Len(file) /\ durable \in 0..Len(file)
      /\ writes \in Seq(Hosts) /\ Len(writes) <= WriteQueue
      /\ buffer \in Seq(Hosts) /\ Len(buffer) <= BufferLines
      /\ crashes \in 0..MaxCrashes
  BY <1>1, StoreAssumption DEF StoreInit
<1>4. StoreTypeOK
  BY <1>2, <1>3 DEF StoreInit, StoreTypeOK
<1> QED
  BY <1>4 DEF StoreInit, StoreSafe, NothingInFlight, TailRepaired

\* Forgetting the memory is safe whatever is left of the file.
LEMMA StoreSafeForget ==
  ASSUME ForgetStore, file' \in Seq(Hosts), tail' \in Hosts \cup {Invalid, NoTail},
         synced' \in 0..Len(file'), crashes' \in 0..MaxCrashes
  PROVE  StoreSafe'
<1>1. <<>> \in Seq(Hosts) /\ Len(<<>>) = 0
  BY EmptySeq
<1>2. Len(file') \in Nat
  BY LenProperties
<1>3. closing' \in BOOLEAN /\ torn' \in BOOLEAN /\ dirty' \in BOOLEAN
  BY DEF ForgetStore
<1>4. /\ durable' \in 0..Len(file')
      /\ writes' \in Seq(Hosts) /\ Len(writes') <= WriteQueue
      /\ buffer' \in Seq(Hosts) /\ Len(buffer') <= BufferLines
  BY <1>1, <1>2, StoreAssumption DEF ForgetStore
<1>5. StoreTypeOK'
  BY <1>3, <1>4 DEF ForgetStore, StoreTypeOK
<1> QED
  BY <1>5 DEF ForgetStore, StoreSafe, NothingInFlight, TailRepaired

\* Opening, accepting, writing, synchronizing and closing are safe.
LEMMA StoreSafeWork ==
  ASSUME StoreSafe,
         \/ OpenClean \/ OpenRepair \/ RepairSynced
         \/ \E domain \in Capturable : Accept(domain)
         \/ CloseWrites \/ WriteLine \/ Flush \/ FlushSynced
  PROVE  StoreSafe'
<1>1. StoreTypeOK
  BY DEF StoreSafe
<1>2. /\ file \in Seq(Hosts) /\ Len(file) \in Nat
      /\ buffer \in Seq(Hosts) /\ Len(buffer) \in Nat
      /\ writes \in Seq(Hosts) /\ Len(writes) \in Nat
  BY <1>1, StoreSequences
<1>3. /\ file \o buffer \in Seq(Hosts)
      /\ Len(file \o buffer) = Len(file) + Len(buffer)
      /\ synced \in 0..Len(file)
      /\ durable \in 0..Len(file)
  BY <1>1, <1>2, ConcatProperties DEF StoreTypeOK
<1>4. CASE OpenClean
  <2>1. ToSet(file) \subseteq Hosts
    BY <1>1, StoreSequences DEF ToSet
  <2> QED
    BY <1>1, <1>2, <1>4, <2>1
    DEF OpenClean, StoreSafe, StoreTypeOK, NothingInFlight, TailRepaired
<1>5. CASE OpenRepair
  <2>1. tail \in Hosts
    BY <1>5 DEF OpenRepair
  <2>2. /\ file' \in Seq(Hosts)
        /\ Len(file') = Len(file) + 1
    BY <1>2, <1>5, <2>1, AppendProperties DEF OpenRepair
  <2>3. ToSet(file') \subseteq Hosts
    BY <2>2, LenProperties, ElementOfSeq DEF ToSet
  <2>4. synced \in 0..Len(file') /\ durable \in 0..Len(file')
    BY <1>2, <1>3, <2>2
  <2>5. StoreTypeOK'
    BY <1>1, <1>5, <2>2, <2>3, <2>4 DEF OpenRepair, StoreTypeOK
  <2> QED
    BY <1>5, <2>5 DEF OpenRepair, StoreSafe, NothingInFlight, TailRepaired
<1>6. CASE RepairSynced
  BY <1>1, <1>2, <1>6
  DEF RepairSynced, StoreSafe, StoreTypeOK, NothingInFlight, TailRepaired
<1>7. ASSUME NEW domain \in Capturable, Accept(domain)
      PROVE  StoreSafe'
  <2>1. domain \in Hosts
    BY StoreAssumption
  <2>2. writes' \in Seq(Hosts) /\ Len(writes') = Len(writes) + 1
    BY <1>2, <1>7, <2>1, AppendProperties DEF Accept
  <2>3. Len(writes') <= WriteQueue
    BY <1>2, <1>7, <2>2, StoreAssumption DEF Accept
  <2>4. StoreTypeOK'
    BY <1>1, <1>7, <2>1, <2>2, <2>3 DEF Accept, StoreTypeOK
  <2> QED
    BY <1>7, <2>4 DEF Accept, StoreSafe, NothingInFlight, TailRepaired
<1>8. CASE CloseWrites
  BY <1>1, <1>8 DEF CloseWrites, StoreSafe, StoreTypeOK, NothingInFlight, TailRepaired
<1>9. CASE WriteLine
  <2>1. /\ Head(writes) \in Hosts
        /\ writes' \in Seq(Hosts)
        /\ Len(writes') = Len(writes) - 1
    BY <1>2, <1>9, HeadTailProperties DEF WriteLine
  <2>2. Len(writes') <= WriteQueue
    BY <1>1, <1>2, <2>1, StoreAssumption DEF StoreTypeOK
  <2>3. CASE Len(buffer) < BufferLines
    <3>1. /\ buffer' \in Seq(Hosts)
          /\ buffer' # <<>>
          /\ Len(buffer') = Len(buffer) + 1
      BY <1>2, <1>9, <2>1, <2>3, AppendProperties DEF WriteLine
    <3>2. Len(buffer') <= BufferLines
      BY <1>2, <2>3, <3>1, StoreAssumption
    <3>3. StoreTypeOK'
      BY <1>1, <1>9, <2>1, <2>2, <2>3, <3>1, <3>2 DEF WriteLine, StoreTypeOK
    <3> QED
      BY <1>9, <3>3 DEF WriteLine, StoreSafe, NothingInFlight, TailRepaired
  <2>4. CASE ~(Len(buffer) < BufferLines)
    <3>1. /\ buffer' = <<Head(writes)>>
          /\ file' = file \o buffer
          /\ torn' \in BOOLEAN
      BY <1>9, <2>4 DEF WriteLine
    <3>2. buffer' \in Seq(Hosts) /\ Len(buffer') = 1 /\ buffer' # <<>>
      BY <2>1, <3>1
    <3>3. Len(buffer') <= BufferLines
      BY <3>2, StoreAssumption
    <3>4. synced \in 0..Len(file') /\ durable \in 0..Len(file')
      BY <1>2, <1>3, <3>1
    <3>5. StoreTypeOK'
      BY <1>1, <1>3, <1>9, <2>1, <2>2, <3>1, <3>2, <3>3, <3>4 DEF WriteLine, StoreTypeOK
    <3> QED
      BY <1>9, <3>5 DEF WriteLine, StoreSafe, NothingInFlight, TailRepaired
  <2> QED
    BY <2>3, <2>4
<1>10. CASE Flush
  <2>1. synced \in 0..Len(file') /\ durable \in 0..Len(file')
    BY <1>2, <1>3, <1>10 DEF Flush
  <2>2. buffer' \in Seq(Hosts) /\ Len(buffer') <= BufferLines
    BY <1>10, EmptySeq, StoreAssumption DEF Flush
  <2>3. StoreTypeOK'
    BY <1>1, <1>3, <1>10, <2>1, <2>2 DEF Flush, StoreTypeOK
  <2> QED
    BY <1>10, <2>3 DEF Flush, StoreSafe, NothingInFlight, TailRepaired
<1>11. CASE FlushSynced
  <2>1. dirty' \in BOOLEAN
    BY <1>11 DEF FlushSynced
  <2>2. synced' \in 0..Len(file) /\ durable' \in 0..Len(file)
    BY <1>2, <1>11 DEF FlushSynced
  <2>3. StoreTypeOK'
    BY <1>1, <1>11, <2>1, <2>2 DEF FlushSynced, StoreTypeOK
  <2> QED
    BY <1>11, <2>3 DEF FlushSynced, StoreSafe, NothingInFlight, TailRepaired
<1> QED
  BY <1>4, <1>5, <1>6, <1>7, <1>8, <1>9, <1>10, <1>11

\* What a crash leaves of the file: a part of what was there and in the buffer.
LEMMA WriteErrorLeaves ==
  ASSUME StoreTypeOK, WriteError
  PROVE  \E n \in 0..(Len(buffer) - 1) :
           /\ file' = file \o SubSeq(buffer, 1, n)
           /\ file' \in Seq(Hosts)
           /\ Len(file') = Len(file) + n
           /\ \A i \in 1..Len(file') : file'[i] = (file \o buffer)[i]
           /\ tail' \in Torn[buffer[n + 1]] \cup {NoTail}
           /\ buffer[n + 1] \in Hosts
<1>1. PICK n \in 0..(Len(buffer) - 1) :
        /\ file' = file \o SubSeq(buffer, 1, n)
        /\ tail' \in Torn[buffer[n + 1]] \cup {NoTail}
  BY DEF WriteError
<1>2. /\ file \in Seq(Hosts) /\ Len(file) \in Nat
      /\ buffer \in Seq(Hosts) /\ Len(buffer) \in Nat
      /\ n \in 0..Len(buffer) /\ n + 1 \in 1..Len(buffer)
  BY StoreSequences
<1>3. /\ SubSeq(buffer, 1, n) \in Seq(Hosts)
      /\ Len(SubSeq(buffer, 1, n)) = n
      /\ \A i \in 1..n : SubSeq(buffer, 1, n)[i] = buffer[i]
  BY <1>2, FirstElements
<1>4. /\ file' \in Seq(Hosts)
      /\ Len(file') = Len(file) + n
      /\ \A i \in 1..(Len(file) + n) :
           file'[i] = IF i <= Len(file) THEN file[i] ELSE SubSeq(buffer, 1, n)[i - Len(file)]
  BY <1>1, <1>2, <1>3, ConcatProperties
<1>5. \A i \in 1..(Len(file) + Len(buffer)) :
        (file \o buffer)[i] = IF i <= Len(file) THEN file[i] ELSE buffer[i - Len(file)]
  BY <1>2, ConcatProperties
<1>6. \A i \in 1..(Len(file) + n) : file'[i] = (file \o buffer)[i]
  BY <1>2, <1>3, <1>4, <1>5
<1>7. buffer[n + 1] \in Hosts
  BY <1>2, StoreSequences
<1> QED
  BY <1>1, <1>4, <1>6, <1>7

\* What a power loss leaves of the file.
LEMMA PowerOffLeaves ==
  ASSUME StoreTypeOK, PowerOff
  PROVE  \E n \in synced..Len(file) :
           /\ file' = SubSeq(file, 1, n)
           /\ synced' = n
           /\ file' \in Seq(Hosts)
           /\ Len(file') = n
           /\ \A i \in 1..n : file'[i] = file[i]
           /\ tail' \in {NoTail} \cup
                        IF n < Len(file) THEN Torn[file[n + 1]] ELSE Unfinished
<1>1. PICK n \in synced..Len(file) :
        /\ file' = SubSeq(file, 1, n)
        /\ synced' = n
        /\ tail' \in {NoTail} \cup
                     IF n < Len(file) THEN Torn[file[n + 1]] ELSE Unfinished
  BY DEF PowerOff
<1>2. file \in Seq(Hosts) /\ n \in 0..Len(file)
  BY StoreSequences DEF StoreTypeOK
<1> QED
  BY <1>1, <1>2, FirstElements

\* Crashes, the end of the process and a refused start are safe.
LEMMA StoreSafeCrash ==
  ASSUME StoreSafe, Exit \/ Kill \/ WriteError \/ PowerOff \/ Abandoned
  PROVE  StoreSafe'
<1>1. StoreTypeOK
  BY DEF StoreSafe
<1>2. /\ file \in Seq(Hosts) /\ Len(file) \in Nat
      /\ tail \in Hosts \cup {Invalid, NoTail}
      /\ synced \in 0..Len(file)
      /\ crashes \in 0..MaxCrashes
  BY <1>1, StoreSequences DEF StoreTypeOK
<1>3. CASE Exit \/ Abandoned
  BY <1>2, <1>3, StoreSafeForget DEF Exit, Abandoned
<1>4. ASSUME NEW kind, Crash(kind)
      PROVE  ForgetStore /\ crashes' \in 0..MaxCrashes
  BY <1>2, <1>4, StoreAssumption DEF Crash
<1>5. CASE Kill
  BY <1>1, <1>2, <1>4, <1>5, UnfinishedTyped, StoreSafeForget DEF Kill
<1>6. CASE WriteError
  <2>1. PICK n \in 0..(Len(buffer) - 1) :
          /\ file' \in Seq(Hosts)
          /\ Len(file') = Len(file) + n
          /\ tail' \in Torn[buffer[n + 1]] \cup {NoTail}
          /\ buffer[n + 1] \in Hosts
    BY <1>1, <1>6, WriteErrorLeaves
  <2>2. tail' \in Hosts \cup {Invalid, NoTail}
    BY <2>1, StoreAssumption
  <2>3. synced' \in 0..Len(file')
    BY <1>1, <1>2, <1>6, <2>1, StoreSequences DEF WriteError
  <2> QED
    BY <1>4, <1>6, <2>1, <2>2, <2>3, StoreSafeForget DEF WriteError
<1>7. CASE PowerOff
  <2>1. PICK n \in synced..Len(file) :
          /\ synced' = n
          /\ file' \in Seq(Hosts)
          /\ Len(file') = n
          /\ tail' \in {NoTail} \cup
                       IF n < Len(file) THEN Torn[file[n + 1]] ELSE Unfinished
    BY <1>1, <1>7, PowerOffLeaves
  <2>2. n < Len(file) => file[n + 1] \in Hosts
    BY <1>2, ElementOfSeq
  <2>3. tail' \in Hosts \cup {Invalid, NoTail}
    BY <1>1, <2>1, <2>2, UnfinishedTyped, StoreAssumption
  <2>4. synced' \in 0..Len(file')
    BY <1>2, <2>1
  <2> QED
    BY <1>4, <1>7, <2>1, <2>3, <2>4, StoreSafeForget DEF PowerOff
<1> QED
  BY <1>3, <1>5, <1>6, <1>7

\* Every step of the store is safe.
LEMMA StoreSafeStep == StoreSafe /\ StoreStep => StoreSafe'
BY StoreSafeWork, StoreSafeCrash DEF StoreStep, StoreNext

\* The writer moves the lines on and leaves their sequence as it is.
LEMMA WriterKeepsLines ==
  ASSUME StoreSafe, WriteLine \/ Flush \/ FlushSynced
  PROVE  AllLines' = AllLines
<1>1. file \in Seq(Hosts) /\ buffer \in Seq(Hosts) /\ writes \in Seq(Hosts)
  BY DEF StoreSafe, StoreTypeOK
<1>2. AllLines = (file \o buffer) \o writes
  BY <1>1, ConcatAssociative DEF AllLines, InFlight
<1>3. CASE WriteLine
  <2>1. /\ Append(buffer, Head(writes)) \o Tail(writes) = InFlight
        /\ <<Head(writes)>> \o Tail(writes) = writes
    BY <1>1, <1>3, HeadMoves DEF WriteLine, InFlight
  <2>2. CASE Len(buffer) < BufferLines
    BY <1>3, <2>1, <2>2 DEF WriteLine, AllLines, InFlight
  <2>3. CASE ~(Len(buffer) < BufferLines)
    BY <1>2, <1>3, <2>1, <2>3 DEF WriteLine, AllLines, InFlight
  <2> QED
    BY <2>2, <2>3
<1>4. CASE Flush
  BY <1>1, <1>2, <1>4, ConcatEmptySeq DEF Flush, AllLines, InFlight
<1>5. CASE FlushSynced
  BY <1>5 DEF FlushSynced, AllLines, InFlight
<1> QED
  BY <1>3, <1>4, <1>5

\* Accepting a line puts it at the end.
LEMMA AcceptAppends ==
  ASSUME StoreSafe, NEW domain \in Capturable, Accept(domain)
  PROVE  AllLines' = Append(AllLines, domain)
<1>1. /\ file \in Seq(Hosts) /\ buffer \in Seq(Hosts) /\ writes \in Seq(Hosts)
      /\ domain \in Hosts
      /\ InFlight \in Seq(Hosts)
      /\ AllLines \in Seq(Hosts)
  BY StoreSequences, StoreAssumption DEF StoreSafe, StoreTypeOK
<1>2. <<domain>> \in Seq(Hosts)
  BY <1>1
<1>3. Append(writes, domain) = writes \o <<domain>>
  BY <1>1, AppendIsConcat
<1>4. InFlight' = InFlight \o <<domain>>
  BY <1>1, <1>2, <1>3, ConcatAssociative DEF Accept, InFlight
<1>5. AllLines' = AllLines \o <<domain>>
  BY <1>1, <1>2, <1>4, ConcatAssociative DEF Accept, AllLines
<1> QED
  BY <1>1, <1>5, AppendIsConcat

\* While nothing is on its way, all lines are those of the file.
LEMMA NothingButFile ==
  ASSUME file \in Seq(Hosts), buffer = <<>>, writes = <<>>
  PROVE  AllLines = file
BY ConcatEmptySeq, EmptySeq DEF AllLines, InFlight

\* The deduplication set stays what the file, the buffer and the channel hold.
LEMMA IndexedStep == StoreSafe /\ Indexed /\ StoreStep => Indexed'
<1> SUFFICES ASSUME StoreSafe, Indexed, StoreStep PROVE Indexed'
  OBVIOUS
<1>1. file' \in Seq(Hosts)
  BY StoreSafeStep DEF StoreSafe, StoreTypeOK
<1>2. CASE OpenClean
  BY <1>1, <1>2, NothingButFile DEF OpenClean, Indexed, StoreSafe, NothingInFlight,
                                    AllLines, InFlight
<1>3. CASE OpenRepair
  <2>1. buffer' = <<>> /\ writes' = <<>>
    BY <1>3 DEF OpenRepair, StoreSafe, NothingInFlight
  <2>2. AllLines' = file'
    BY <1>1, <2>1, ConcatEmptySeq, EmptySeq DEF AllLines, InFlight
  <2> QED
    BY <1>3, <2>2 DEF OpenRepair, Indexed
<1>4. CASE RepairSynced
  BY <1>4 DEF RepairSynced, Indexed, AllLines, InFlight
<1>5. ASSUME NEW domain \in Capturable, Accept(domain)
      PROVE  Indexed'
  <2>1. AllLines \in Seq(Hosts) /\ domain \in Hosts
    BY StoreSequences, StoreAssumption DEF StoreSafe
  <2>2. AllLines' = Append(AllLines, domain)
    BY <1>5, AcceptAppends
  <2>3. ToSet(AllLines') = ToSet(AllLines) \cup {domain}
    BY <2>1, <2>2, ToSetAppend
  <2> QED
    BY <1>5, <2>3 DEF Accept, Indexed
<1>6. CASE CloseWrites
  BY <1>6 DEF CloseWrites, Indexed, AllLines, InFlight
<1>7. CASE WriteLine \/ Flush \/ FlushSynced
  BY <1>7, WriterKeepsLines DEF WriteLine, Flush, FlushSynced, Indexed
<1>8. CASE Exit \/ Kill \/ WriteError \/ PowerOff \/ Abandoned
  BY <1>8 DEF Exit, Kill, WriteError, PowerOff, Abandoned, Crash, ForgetStore, Indexed
<1> QED
  BY <1>2, <1>3, <1>4, <1>5, <1>6, <1>7, <1>8 DEF StoreStep, StoreNext

----------------------------------------------------------------------------
(* No line is repeated *)

\* A torn line is complete but for its newline, or it is not a domain.  The code
\* cannot rule out more: "a.com" may be cut to "a.co", which reads as a domain.
TornIsComplete == \A h \in Hosts : Torn[h] \subseteq {h, Invalid}

\* The lines that a crash leaves are the first of all lines.
LEMMA CrashKeepsOrder ==
  ASSUME StoreSafe, IsInjective(AllLines), ForgetStore, file' \in Seq(Hosts),
         Len(file') <= Len(file) + Len(buffer),
         \A i \in 1..Len(file') : file'[i] = (file \o buffer)[i]
  PROVE  /\ IsInjective(AllLines')
         /\ \A k \in (Len(file') + 1)..(Len(file) + Len(buffer)) :
              (file \o buffer)[k] \notin ToSet(file')
<1>1. /\ file \in Seq(Hosts) /\ buffer \in Seq(Hosts) /\ writes \in Seq(Hosts)
      /\ AllLines \in Seq(Hosts)
      /\ Len(file) \in Nat /\ Len(buffer) \in Nat /\ Len(writes) \in Nat
  BY StoreSequences, LenProperties DEF StoreSafe
<1>2. /\ file \o buffer \in Seq(Hosts)
      /\ Len(file \o buffer) = Len(file) + Len(buffer)
  BY <1>1, ConcatProperties
<1>3. AllLines = (file \o buffer) \o writes
  BY <1>1, ConcatAssociative DEF AllLines, InFlight
<1>4. /\ Len(AllLines) = Len(file) + Len(buffer) + Len(writes)
      /\ \A i \in 1..(Len(file) + Len(buffer)) : AllLines[i] = (file \o buffer)[i]
  BY <1>1, <1>2, <1>3, ConcatProperties
<1>5. Len(file') \in Nat
  BY LenProperties
<1>6. /\ Len(file') <= Len(AllLines)
      /\ \A i \in 1..Len(file') : file'[i] = AllLines[i]
  <2>1. /\ Len(file') <= Len(AllLines)
        /\ \A i \in 1..Len(file') : i \in 1..(Len(file) + Len(buffer))
    BY <1>1, <1>4, <1>5
  <2> QED
    BY <1>4, <2>1
<1>7. /\ IsInjective(file')
      /\ \A k \in (Len(file') + 1)..Len(AllLines) : AllLines[k] \notin ToSet(file')
  BY <1>1, <1>6, InjectivePart
<1>8. AllLines' = file'
  BY ConcatEmptySeq, EmptySeq DEF ForgetStore, AllLines, InFlight
<1>9. \A k \in (Len(file') + 1)..(Len(file) + Len(buffer)) :
        k \in (Len(file') + 1)..Len(AllLines) /\ k \in 1..(Len(file) + Len(buffer))
  BY <1>1, <1>4, <1>5
<1> QED
  BY <1>4, <1>7, <1>8, <1>9

\* The line that a crash leaves unfinished is not in the file.
LEMMA UnfinishedIsNew ==
  ASSUME TornIsComplete, StoreSafe, tail \notin ToSet(file)
  PROVE  \A u \in Unfinished :
           \/ u \in {Invalid, NoTail}
           \/ u \in Hosts /\ u \notin ToSet(file)
           \/ u = (file \o buffer)[Len(file) + 1] /\ Len(buffer) > 0
<1>1. /\ file \in Seq(Hosts) /\ buffer \in Seq(Hosts)
      /\ Len(file) \in Nat /\ Len(buffer) \in Nat
      /\ tail \in Hosts \cup {Invalid, NoTail}
      /\ torn => buffer # <<>>
  BY StoreSequences DEF StoreSafe, StoreTypeOK
<1>2. CASE torn
  <2>1. Head(buffer) \in Hosts /\ Head(buffer) = buffer[1] /\ Len(buffer) > 0
    BY <1>1, <1>2, HeadTailProperties, EmptySeq
  <2>2. (file \o buffer)[Len(file) + 1] = buffer[1]
    BY <1>1, <2>1, ConcatProperties
  <2> QED
    BY <1>2, <2>1, <2>2 DEF Unfinished, TornIsComplete
<1>3. CASE ~torn
  BY <1>1, <1>3 DEF Unfinished, TornIsComplete
<1> QED
  BY <1>2, <1>3

\* No step of the store repeats a line.
LEMMA DistinctStep ==
  ASSUME TornIsComplete, StoreSafe, Indexed, Distinct, StoreStep
  PROVE  Distinct'
<1>1. /\ file \in Seq(Hosts) /\ buffer \in Seq(Hosts) /\ writes \in Seq(Hosts)
      /\ AllLines \in Seq(Hosts)
      /\ Len(file) \in Nat /\ Len(buffer) \in Nat
      /\ synced \in 0..Len(file)
  BY StoreSequences DEF StoreSafe, StoreTypeOK
<1>2. file' \in Seq(Hosts) /\ Len(file') \in Nat
  BY StoreSafeStep, LenProperties DEF StoreSafe, StoreTypeOK
<1>3. NoTail \notin ToSet(file') /\ Invalid \notin ToSet(file')
  BY <1>2, LenProperties, ElementOfSeq, StoreAssumption DEF ToSet
<1>4. CASE OpenClean \/ RepairSynced \/ CloseWrites
  BY <1>4 DEF OpenClean, RepairSynced, CloseWrites, Distinct, AllLines, InFlight
<1>5. CASE OpenRepair
  <2>1. buffer = <<>> /\ writes = <<>> /\ buffer' = <<>> /\ writes' = <<>>
    BY <1>5 DEF OpenRepair, StoreSafe, NothingInFlight
  <2>2. AllLines = file /\ AllLines' = file'
    BY <1>1, <1>2, <2>1, ConcatEmptySeq, EmptySeq DEF AllLines, InFlight
  <2>3. IsInjective(Append(file, tail))
    BY <1>1, <1>5, <2>2, InjectiveAppend DEF OpenRepair, Distinct
  <2> QED
    BY <1>3, <1>5, <2>2, <2>3 DEF OpenRepair, Distinct
<1>6. ASSUME NEW domain \in Capturable, Accept(domain)
      PROVE  Distinct'
  <2>1. domain \in Hosts /\ domain \notin ToSet(AllLines)
    BY <1>6, StoreAssumption DEF Accept, Indexed
  <2>2. AllLines' = Append(AllLines, domain)
    BY <1>6, AcceptAppends
  <2>3. IsInjective(AllLines')
    BY <1>1, <2>1, <2>2, InjectiveAppend DEF Distinct
  <2> QED
    BY <1>6, <2>3 DEF Accept, Distinct
<1>7. CASE WriteLine \/ Flush \/ FlushSynced
  <2>1. tail' = NoTail
    BY <1>7 DEF WriteLine, Flush, FlushSynced, StoreSafe, TailRepaired
  <2>2. AllLines' = AllLines
    BY <1>7, WriterKeepsLines
  <2>3. IsInjective(AllLines')
    BY <2>2 DEF Distinct
  <2> QED
    BY <1>3, <2>1, <2>3 DEF Distinct
<1>8. ASSUME ForgetStore, Len(file') <= Len(file) + Len(buffer),
             \A i \in 1..Len(file') : file'[i] = (file \o buffer)[i],
             \/ tail' \in {Invalid, NoTail}
             \/ tail' \notin ToSet(file')
             \/ \E k \in (Len(file') + 1)..(Len(file) + Len(buffer)) :
                  tail' = (file \o buffer)[k]
      PROVE  Distinct'
  <2>1. /\ IsInjective(AllLines')
        /\ \A k \in (Len(file') + 1)..(Len(file) + Len(buffer)) :
             (file \o buffer)[k] \notin ToSet(file')
    BY <1>2, <1>8, CrashKeepsOrder DEF Distinct
  <2>2. tail' \notin ToSet(file')
    BY <1>3, <1>8, <2>1
  <2> QED
    BY <2>1, <2>2 DEF Distinct
<1>9. \A i \in 1..Len(file) : file[i] = (file \o buffer)[i]
  BY <1>1, ConcatProperties
<1>10. CASE Exit \/ Abandoned
  <2>1. ForgetStore /\ file' = file /\ tail' = tail
    BY <1>10 DEF Exit, Abandoned
  <2>2. Len(file') <= Len(file) + Len(buffer)
    BY <1>1, <2>1
  <2>3. tail' \notin ToSet(file')
    BY <2>1 DEF Distinct
  <2>4. \A i \in 1..Len(file') : file'[i] = (file \o buffer)[i]
    BY <1>9, <2>1
  <2> QED
    BY <1>8, <2>1, <2>2, <2>3, <2>4
<1>11. CASE Kill
  <2>1. \/ tail' \in {Invalid, NoTail}
        \/ tail' \notin ToSet(file)
        \/ tail' = (file \o buffer)[Len(file) + 1] /\ Len(buffer) > 0
    BY <1>11, UnfinishedIsNew DEF Kill, Distinct
  <2>2. ForgetStore /\ file' = file
    BY <1>11 DEF Kill, Crash
  <2>3. \/ tail' \in {Invalid, NoTail}
        \/ tail' \notin ToSet(file')
        \/ \E k \in (Len(file') + 1)..(Len(file) + Len(buffer)) :
             tail' = (file \o buffer)[k]
    <3>1. Len(buffer) > 0 =>
            Len(file) + 1 \in (Len(file) + 1)..(Len(file) + Len(buffer))
      BY <1>1
    <3> QED
      BY <2>1, <2>2, <3>1
  <2>4. Len(file') <= Len(file) + Len(buffer)
    BY <1>1, <2>2
  <2>5. \A i \in 1..Len(file') : file'[i] = (file \o buffer)[i]
    BY <1>9, <2>2
  <2> QED
    BY <1>8, <2>2, <2>3, <2>4, <2>5
<1>12. CASE WriteError
  <2>1. PICK n \in 0..(Len(buffer) - 1) :
          /\ Len(file') = Len(file) + n
          /\ \A i \in 1..Len(file') : file'[i] = (file \o buffer)[i]
          /\ tail' \in Torn[buffer[n + 1]] \cup {NoTail}
          /\ buffer[n + 1] \in Hosts
    BY <1>12, WriteErrorLeaves DEF StoreSafe
  <2>2. /\ Len(file) + n + 1 \in (Len(file') + 1)..(Len(file) + Len(buffer))
        /\ (file \o buffer)[Len(file) + n + 1] = buffer[n + 1]
    <3>1. Len(file) + n + 1 \in 1..(Len(file) + Len(buffer))
      BY <1>1
    <3>2. ~(Len(file) + n + 1 <= Len(file)) /\ (Len(file) + n + 1) - Len(file) = n + 1
      BY <1>1
    <3> QED
      BY <1>1, <2>1, <3>1, <3>2, ConcatProperties
  <2>3. tail' \in {buffer[n + 1], Invalid, NoTail}
    BY <2>1 DEF TornIsComplete
  <2>4. ForgetStore
    BY <1>12 DEF WriteError, Crash
  <2> QED
    BY <1>1, <1>8, <2>1, <2>2, <2>3, <2>4
<1>13. CASE PowerOff
  <2>1. PICK n \in synced..Len(file) :
          /\ Len(file') = n
          /\ file' = SubSeq(file, 1, n)
          /\ \A i \in 1..n : file'[i] = file[i]
          /\ tail' \in {NoTail} \cup
                       IF n < Len(file) THEN Torn[file[n + 1]] ELSE Unfinished
    BY <1>13, PowerOffLeaves DEF StoreSafe
  <2>2. ForgetStore
    BY <1>13 DEF PowerOff, Crash
  <2>3. /\ Len(file') <= Len(file) + Len(buffer)
        /\ \A i \in 1..Len(file') : file'[i] = (file \o buffer)[i]
    BY <1>1, <1>9, <2>1
  <2>4. CASE n < Len(file)
    <3>1. n + 1 \in 1..Len(file) /\ file[n + 1] \in Hosts
      BY <1>1, <2>4, ElementOfSeq
    <3>2. n + 1 \in (Len(file') + 1)..(Len(file) + Len(buffer))
      BY <1>1, <2>1, <2>4
    <3>3. tail' \in {file[n + 1], Invalid, NoTail}
      BY <2>1, <2>4, <3>1 DEF TornIsComplete
    <3>4. file[n + 1] = (file \o buffer)[n + 1]
      BY <1>9, <3>1
    <3> QED
      BY <1>8, <2>2, <2>3, <3>2, <3>3, <3>4
  <2>5. CASE n = Len(file)
    <3>1. file' = file
      BY <1>1, <2>1, <2>5, SubSeqFull
    <3>2. tail' \in {NoTail} \cup Unfinished
      BY <1>1, <2>1, <2>5
    <3>3. \/ tail' \in {Invalid, NoTail}
          \/ tail' \notin ToSet(file')
          \/ tail' = (file \o buffer)[Len(file) + 1] /\ Len(buffer) > 0
      BY <3>1, <3>2, UnfinishedIsNew DEF Distinct
    <3>4. Len(buffer) > 0 => Len(file) + 1 \in (Len(file') + 1)..(Len(file) + Len(buffer))
      BY <1>1, <3>1
    <3> QED
      BY <1>8, <2>2, <2>3, <3>3, <3>4
  <2> QED
    BY <1>1, <2>4, <2>5
<1> QED
  BY <1>4, <1>5, <1>6, <1>7, <1>10, <1>11, <1>12, <1>13 DEF StoreStep, StoreNext

----------------------------------------------------------------------------
(* The durable size *)

\* Without kills the durable size never exceeds what was synchronized.
LEMMA SynchronizedStep ==
  ASSUME "kill" \notin CrashKinds, StoreSafe, Synchronized, StoreNext
  PROVE  Synchronized'
<1>1. /\ file \in Seq(Hosts) /\ Len(file) \in Nat
      /\ synced \in 0..Len(file) /\ durable \in 0..Len(file)
      /\ dirty \in BOOLEAN
  BY StoreSequences DEF StoreSafe, StoreTypeOK
<1>2. CASE OpenClean \/ OpenRepair \/ RepairSynced \/ FlushSynced
  BY <1>1, <1>2
  DEF OpenClean, OpenRepair, RepairSynced, FlushSynced, Synchronized, StoreSafe
<1>3. CASE (\E domain \in Capturable : Accept(domain)) \/ CloseWrites
  BY <1>3 DEF Accept, CloseWrites, Synchronized
<1>4. CASE WriteLine \/ Flush
  BY <1>4 DEF WriteLine, Flush, Synchronized
<1>5. CASE Exit
  BY <1>1, <1>5 DEF Exit, ForgetStore, Synchronized
<1>6. CASE Kill \/ WriteError
  BY <1>6 DEF Kill, WriteError, Crash
<1>7. CASE PowerOff
  <2>1. synced' = Len(file') /\ synced' \in Nat
    BY <1>1, <1>7, PowerOffLeaves DEF StoreSafe
  <2> QED
    BY <1>7, <2>1 DEF PowerOff, Crash, ForgetStore, Synchronized
<1> QED
  BY <1>2, <1>3, <1>4, <1>5, <1>6, <1>7 DEF StoreNext

----------------------------------------------------------------------------
(* The store inside the client *)

\* Before the goroutines start nothing is written.
Idle == phase \in {"down", "created"} => ~dirty /\ buffer = <<>>

\* Every step of the client is a step of the store or leaves it alone; the
\* client gives up a store that its sender refuses before anything was written.
LEMMA ClientStep ==
  ASSUME [Next]_allVars
  PROVE  \/ StoreNext
         \/ Abandoned /\ phase = "down"
         \/ UNCHANGED storeVars
BY DEF Next, allVars, OpenStore, OpenSender, Refuse, Abandoned, Capture, StopReaders,
       Writer, SendTurn, SendAttempt, SendSynced, Tick, Shutdown, KillBoth,
       WriteErrorEndsBoth, PowerLoss, StoreNext

\* No step of the client writes before the goroutines have started.
LEMMA IdleStep == Idle /\ [Next]_allVars => Idle'
<1> SUFFICES ASSUME Idle, [Next]_allVars PROVE Idle'
  OBVIOUS
<1>1. CASE OpenStore
  BY <1>1 DEF OpenStore, OpenClean, OpenRepair, RepairSynced, senderVars, Idle
<1>2. CASE OpenSender
  BY <1>2 DEF OpenSender, Sender!Create, Sender!CreateSynced, Sender!Open, storeVars,
              storeMemory, Idle
<1>3. CASE Refuse \/ Shutdown \/ KillBoth \/ WriteErrorEndsBoth \/ PowerLoss
  <2>1. dirty' = FALSE /\ buffer' = <<>>
    BY <1>3 DEF Refuse, Shutdown, Exit, KillBoth, Kill, WriteErrorEndsBoth, WriteError,
                PowerLoss, PowerOff, Crash, ForgetStore
  <2> QED
    BY <2>1 DEF Idle
<1>4. CASE (\E domain \in Capturable : Capture(domain)) \/ StopReaders \/ Writer
  <2>1. phase \notin {"down", "created"} /\ phase' = phase
    BY <1>4 DEF Capture, StopReaders, Writer, Started, senderVars
  <2> QED
    BY <2>1 DEF Idle
<1>5. CASE SendTurn \/ SendAttempt \/ SendSynced
  <2>1. phase' \notin {"down", "created"}
    BY <1>5 DEF SendTurn, SendAttempt, SendSynced, Sender!Turn, Sender!SkipFresh,
                Sender!StartFresh, Sender!SkipRetry, Sender!StartRetry, Sender!Rename,
                Sender!Attempt, Sender!Acknowledged, Sender!Failed, Sender!Synced
  <2> QED
    BY <2>1 DEF Idle
<1>6. CASE Tick \/ UNCHANGED allVars
  BY <1>6 DEF Tick, Sender!Tick, allVars, storeVars, storeMemory, senderVars, Idle
<1> QED
  BY <1>1, <1>2, <1>3, <1>4, <1>5, <1>6 DEF Next

\* The invariant of the store as the client uses it.
StoreInv == StoreSafe /\ Indexed

THEOREM StoreSafeAlways == Spec => []StoreInv
<1>1. Init => StoreInv
  <2> SUFFICES ASSUME Init PROVE StoreInv
    OBVIOUS
  <2>1. StoreInit
    BY DEF Init
  <2> QED
    BY <2>1, StoreSafeInit DEF StoreInit, StoreInv, Indexed
<1>2. StoreInv /\ [Next]_allVars => StoreInv'
  <2> SUFFICES ASSUME StoreInv, [Next]_allVars PROVE StoreInv'
    OBVIOUS
  <2>1. StoreStep \/ UNCHANGED storeVars
    BY ClientStep DEF StoreStep
  <2>2. CASE StoreStep
    BY <2>2, StoreSafeStep, IndexedStep DEF StoreInv
  <2>3. CASE UNCHANGED storeVars
    BY <2>3 DEF StoreInv, StoreSafe, StoreTypeOK, NothingInFlight, TailRepaired, Indexed,
                AllLines, InFlight, storeVars, storeMemory
  <2> QED
    BY <2>1, <2>2, <2>3
<1> QED
  BY <1>1, <1>2, PTL DEF Spec

\* The deduplication set is exactly what the file, the buffer and the channel
\* hold, however often the client crashes, repairs a tail and starts again.
THEOREM SeenExact == Spec => []SeenIsAccounted
<1>1. StoreInv => SeenIsAccounted
  BY DEF StoreInv, Indexed, SeenIsAccounted, AllLines
<1> QED
  BY <1>1, StoreSafeAlways, PTL

\* The variables of the store keep their types and its queues their bounds.
THEOREM StoreTypeCorrect == Spec => []StoreTypeOK
<1>1. StoreInv => StoreTypeOK
  BY DEF StoreInv, StoreSafe
<1> QED
  BY <1>1, StoreSafeAlways, PTL

\* No domain occupies two lines of the output, across all crashes and repaired
\* tails, as long as a line cut short never reads as another domain.
THEOREM LinesDistinct ==
  ASSUME TornIsComplete
  PROVE  Spec => []NoDuplicates
<1>1. Init => Distinct
  <2> SUFFICES ASSUME Init PROVE Distinct
    OBVIOUS
  <2>1. AllLines = <<>> /\ file = <<>>
    BY DEF Init, StoreInit, AllLines, InFlight
  <2> QED
    BY <2>1 DEF Distinct, IsInjective, ToSet
<1>2. StoreInv /\ Distinct /\ [Next]_allVars => Distinct'
  <2> SUFFICES ASSUME StoreInv, Distinct, [Next]_allVars PROVE Distinct'
    OBVIOUS
  <2>1. StoreStep \/ UNCHANGED storeVars
    BY ClientStep DEF StoreStep
  <2>2. CASE StoreStep
    BY <2>2, DistinctStep DEF StoreInv
  <2>3. CASE UNCHANGED storeVars
    BY <2>3 DEF Distinct, AllLines, InFlight, storeVars, storeMemory
  <2> QED
    BY <2>1, <2>2, <2>3
<1>3. Distinct => NoDuplicates
  BY DEF Distinct, NoDuplicates, AllLines
<1> QED
  BY <1>1, <1>2, <1>3, StoreSafeAlways, PTL DEF Spec

\* Nothing is ever written before the goroutines have started.
LEMMA IdleAlways == Spec => []Idle
<1>1. Init => Idle
  BY DEF Init, StoreInit, Idle
<1> QED
  BY <1>1, IdleStep, PTL DEF Spec

\* Without kills what was not synchronized makes the store dirty.
LEMMA SynchronizedAlways ==
  ASSUME "kill" \notin CrashKinds
  PROVE  Spec => []Synchronized
<1>1. Init => Synchronized
  BY DEF Init, StoreInit, Synchronized
<1>2. StoreInv /\ Idle /\ Synchronized /\ [Next]_allVars => Synchronized'
  <2> SUFFICES ASSUME StoreInv, Idle, Synchronized, [Next]_allVars
               PROVE  Synchronized'
    OBVIOUS
  <2>1. CASE StoreNext
    BY <2>1, SynchronizedStep DEF StoreInv
  <2>2. CASE Abandoned /\ phase = "down"
    BY <2>2 DEF Abandoned, ForgetStore, Synchronized, Idle, StoreInv, StoreSafe,
                StoreTypeOK
  <2>3. CASE UNCHANGED storeVars
    BY <2>3 DEF Synchronized, storeVars, storeMemory
  <2> QED
    BY <2>1, <2>2, <2>3, ClientStep
<1> QED
  BY <1>1, <1>2, StoreSafeAlways, IdleAlways, PTL DEF Spec

\* Without kills the durable size never exceeds what a power loss preserves.
\* With them it may: openOutput takes over the size of the file as durable, and
\* what a killed process wrote was not synchronized.
THEOREM DurableKept ==
  ASSUME "kill" \notin CrashKinds
  PROVE  Spec => []DurableIsSynced
<1>1. Synchronized => DurableIsSynced
  BY DEF Synchronized, DurableIsSynced
<1> QED
  BY <1>1, SynchronizedAlways, PTL

----------------------------------------------------------------------------
(* The sender inside the client *)

\* The queue of every checkpoint is one that a start would accept; while the
\* sender is up the store runs, and all that was proved of the sender holds.
SenderInv ==
  /\ Proved!TypeOK
  /\ Proved!Ordered
  /\ \A s \in Saved : Proved!GoodQueue(s.offset, s.pending)
  /\ phase # "down" => store \in {"running", "flushed"} /\ Proved!Safe

\* The constants meet the assumptions of the sender.
LEMMA SenderConstants == Proved!SenderAssumption /\ Proved!NoStateAssumption
BY DeliveryAssumption
DEF Sender!SenderAssumption, Sender!NoStateAssumption, Sender!Checkpoint,
    Sender!PendingEntry, Proved!SenderAssumption, Proved!NoStateAssumption,
    Proved!Checkpoint, Proved!PendingEntry

\* The readable lines are the first lines of the file.
LEMMA ReadableLines ==
  ASSUME StoreTypeOK
  PROVE  /\ Readable \in Seq(Hosts)
         /\ Len(Readable) = durable
         /\ durable \in 0..Len(file)
         /\ \A i \in 1..durable : Readable[i] = file[i]
<1>1. file \in Seq(Hosts) /\ durable \in 0..Len(file)
  BY DEF StoreTypeOK
<1> QED
  BY <1>1, FirstElements DEF Readable

\* A turn of the sender here is a turn of the sender alone.
LEMMA SameTurn == Sender!Turn <=> Proved!Turn
BY DEF Sender!Turn, Sender!SkipFresh, Sender!StartFresh, Sender!SkipRetry,
       Sender!StartRetry, Sender!FreshTurn, Sender!RetryTurn, Sender!Awake,
       Sender!FreshReady, Sender!Due, Sender!IsEarliest, Sender!TakeTurn, Sender!Rename,
       Sender!RecordAt, Sender!Prepare, Sender!disk, Sender!RemoveAt,
       Proved!Turn, Proved!SkipFresh, Proved!StartFresh, Proved!SkipRetry,
       Proved!StartRetry, Proved!FreshTurn, Proved!RetryTurn, Proved!Awake,
       Proved!FreshReady, Proved!Due, Proved!IsEarliest, Proved!TakeTurn, Proved!Rename,
       Proved!RecordAt, Proved!Prepare, Proved!disk, Proved!RemoveAt

\* So is an attempt.
LEMMA SameAttempt == Sender!Attempt <=> Proved!Attempt
BY DEF Sender!Attempt, Sender!Acknowledged, Sender!Failed, Sender!FailureKinds,
       Sender!Jitter, Sender!NextDelay, Sender!Smaller, Sender!Larger, Sender!RetryAfter,
       Sender!RetryIn, Sender!Deferred, Sender!MaybeReceived, Sender!Rename,
       Sender!SendingKey, Sender!SendingOffset, Sender!NextOffset, Sender!RecordAt,
       Sender!RemoveAt,
       Proved!Attempt, Proved!Acknowledged, Proved!Failed, Proved!FailureKinds,
       Proved!Jitter, Proved!NextDelay, Proved!Smaller, Proved!Larger, Proved!RetryAfter,
       Proved!RetryIn, Proved!Deferred, Proved!MaybeReceived, Proved!Rename,
       Proved!SendingKey, Proved!SendingOffset, Proved!NextOffset, Proved!RecordAt,
       Proved!RemoveAt

\* So are its start and the end of a turn.
LEMMA SameStart ==
  /\ Sender!Create <=> Proved!Create
  /\ Sender!CreateSynced <=> Proved!CreateSynced
  /\ Sender!Open <=> Proved!Open
  /\ Sender!Synced <=> Proved!Synced
BY DEF Sender!Create, Sender!CreateSynced, Sender!Open, Sender!Load, Sender!Remembered,
       Sender!KeysUpTo, Sender!Accepts, Sender!Synced, Sender!TurnAlternates,
       Sender!memory, Sender!history, Sender!disk,
       Proved!Create, Proved!CreateSynced, Proved!Open, Proved!Load, Proved!Remembered,
       Proved!KeysUpTo, Proved!Accepts, Proved!Synced, Proved!TurnAlternates,
       Proved!memory, Proved!history, Proved!disk

\* What the sender does itself leaves the store alone.
LEMMA SenderWorks ==
  ASSUME OpenSender \/ SendTurn \/ SendAttempt \/ SendSynced
  PROVE  Proved!Work /\ UNCHANGED storeVars
BY SameTurn, SameAttempt, SameStart
DEF OpenSender, SendTurn, SendAttempt, SendSynced, Proved!Work

\* What the sender forgets.
LEMMA SameForget ==
  ASSUME SenderEnds
  PROVE  /\ Proved!Forget
         /\ phase' = "down"
         /\ UNCHANGED <<now, excluded, waived>>
BY DEF SenderEnds, Sender!Forget, Sender!MaybeReceived, Sender!SendingKey,
       Sender!SendingOffset, Sender!RecordAt, Proved!Forget, Proved!MaybeReceived,
       Proved!SendingKey, Proved!SendingOffset, Proved!RecordAt

\* The fields of a checkpoint.
LEMMA SavedFields ==
  ASSUME Proved!TypeOK, NEW s \in Saved
  PROVE  /\ s \in Proved!Checkpoint
         /\ s.offset \in Nat
         /\ s.pending \in Seq(Proved!PendingEntry)
BY DEF Proved!TypeOK, Proved!Checkpoint, Saved

\* The steps other than those of the sender, and the stuttering one.
Others ==
  \/ OpenStore \/ Refuse
  \/ (\E domain \in Capturable : Capture(domain)) \/ StopReaders \/ Writer
  \/ Tick
  \/ Shutdown \/ KillBoth \/ WriteErrorEndsBoth \/ PowerLoss
  \/ UNCHANGED allVars

\* The writer adds lines to the file, and no other step does while the sender is up
\* and stays up: for the sender its output grows.
LEMMA ReadableGrows ==
  ASSUME StoreTypeOK, StoreTypeOK', Proved!TypeOK, Others, phase # "down", phase' # "down",
         store \in {"running", "flushed"}
  PROVE  Proved!Grown /\ store' \in {"running", "flushed"}
<1>1. /\ Readable \in Seq(Hosts)
      /\ Len(Readable) = durable
      /\ durable \in 0..Len(file)
      /\ Len(file) \in Nat
      /\ \A i \in 1..durable : Readable[i] = file[i]
  BY ReadableLines, StoreSequences
<1>2. /\ Readable' \in Seq(Hosts)
      /\ Len(Readable') = durable'
      /\ durable' \in 0..Len(file')
      /\ \A i \in 1..durable' : Readable'[i] = file'[i]
  <2>1. file' \in Seq(Hosts) /\ durable' \in 0..Len(file')
    BY DEF StoreTypeOK
  <2> QED
    BY <2>1, FirstElements DEF Readable
<1>3. /\ UNCHANGED <<excluded, stateFile, stateStable, phase, senderMemory,
                     acked, waived, bypass, faults>>
      /\ now' = now \/ now' = now + 1
      /\ durable' = durable \/ durable' = Len(file)
      /\ file' = file \/ file' = file \o buffer
      /\ store' \in {"running", "flushed"}
  <2>1. CASE Tick
    BY <2>1 DEF Tick, storeVars, storeMemory, Sender!Tick, Sender!disk, Sender!memory,
                Sender!history, senderMemory
  <2>2. CASE OpenStore
    BY <2>2 DEF OpenStore, OpenClean, OpenRepair, RepairSynced
  <2>3. CASE (\E domain \in Capturable : Capture(domain)) \/ StopReaders
    BY <2>3 DEF Capture, StopReaders, Accept, CloseWrites, senderVars
  <2>4. CASE Writer
    BY <2>4 DEF Writer, WriteLine, Flush, FlushSynced, senderVars
  <2>5. CASE Refuse
    BY <2>5 DEF Refuse
  <2>6. CASE Shutdown \/ KillBoth \/ WriteErrorEndsBoth \/ PowerLoss
    BY <2>6, SameForget DEF Shutdown, KillBoth, WriteErrorEndsBoth, PowerLoss
  <2>7. CASE UNCHANGED allVars
    BY <2>7 DEF allVars, storeVars, storeMemory, senderVars
  <2> QED
    BY <2>1, <2>2, <2>3, <2>4, <2>5, <2>6, <2>7 DEF Others
<1>4. \A i \in 1..Len(file) : file'[i] = file[i]
  <2>1. buffer \in Seq(Hosts) /\ file \in Seq(Hosts)
    BY StoreSequences
  <2> QED
    BY <1>1, <1>3, <2>1, ConcatProperties
<1>5. now \in Nat
  BY DEF Proved!TypeOK
<1> QED
  BY <1>1, <1>2, <1>3, <1>4, <1>5
  DEF Proved!Grown, Proved!disk, Proved!memory, Proved!history, senderMemory

\* Nothing of the sender changes but the clock.
Stays ==
  /\ now' = now \/ now' = now + 1
  /\ UNCHANGED <<excluded, stateFile, stateStable, phase, senderMemory,
                 acked, waived, bypass, faults>>

\* The sender ends, and a power loss may bring the older checkpoint back.
Ends ==
  /\ SenderEnds
  /\ \/ stateFile' = stateFile /\ stateStable' = stateStable
     \/ stateFile' \in {stateFile, stateStable} /\ stateStable' = stateFile'

\* The other steps are of these two kinds.
LEMMA SenderLeft ==
  ASSUME Others
  PROVE  Stays \/ Ends
<1>1. CASE Tick
  BY <1>1 DEF Tick, Sender!Tick, Sender!disk, Sender!memory, Sender!history,
              senderMemory, Stays
<1>2. CASE OpenStore \/ (\E domain \in Capturable : Capture(domain)) \/ StopReaders
           \/ Writer \/ Refuse \/ UNCHANGED allVars
  BY <1>2 DEF OpenStore, Capture, StopReaders, Writer, Refuse, allVars, senderVars, Stays
<1>3. CASE Shutdown \/ KillBoth \/ WriteErrorEndsBoth
  BY <1>3 DEF Shutdown, KillBoth, WriteErrorEndsBoth, Ends
<1>4. CASE PowerLoss
  BY <1>4 DEF PowerLoss, Sender!Revert, Ends
<1> QED
  BY <1>1, <1>2, <1>3, <1>4 DEF Others

\* No other step changes a queue or the order of the checkpoints.
LEMMA SavedLeft ==
  ASSUME SenderInv, Others
  PROVE  /\ Saved' \subseteq Saved
         /\ Proved!Ordered'
         /\ acked \subseteq acked'
         /\ waived' = waived
<1>1. Saved' \subseteq Saved
  BY SenderLeft DEF Saved, Stays, Ends
<1>2. Proved!TypeOK /\ Proved!Ordered
  BY DEF SenderInv
<1>3. \A s \in Saved : s.offset \in Nat
  BY <1>2, SavedFields
<1>4. Proved!Ordered'
  BY <1>2, <1>3, SenderLeft DEF Proved!Ordered, Saved, Stays, Ends
<1>5. acked \subseteq acked' /\ waived' = waived
  BY SenderLeft DEF Stays, Ends, SenderEnds, Sender!Forget, Sender!MaybeReceived
<1> QED
  BY <1>1, <1>4, <1>5

\* The other steps keep the types of the sender.
LEMMA SenderTyped ==
  ASSUME SenderInv, StoreTypeOK', Others
  PROVE  Proved!TypeOK'
<1>1. Readable' \in Seq(Hosts)
  <2>1. file' \in Seq(Hosts) /\ durable' \in 0..Len(file')
    BY DEF StoreTypeOK
  <2> QED
    BY <2>1, FirstElements DEF Readable
<1>2. Proved!TypeOK
  BY DEF SenderInv
<1>3. CASE Ends
  <2>1. /\ Proved!Forget
        /\ phase' = "down"
        /\ UNCHANGED <<now, excluded, waived>>
    BY <1>3, SameForget DEF Ends
  <2>2. Proved!SendingReal
    BY DEF SenderInv, Proved!Safe, Proved!SendingReal
  <2>3. /\ acked' \in SUBSET Keys
        /\ pending' \in Seq(Proved!PendingEntry)
        /\ faults' \in 0..MaxFaults
    BY <1>2, <2>1, <2>2, SenderConstants, Proved!ForgetTyped
  <2>4. {stateFile', stateStable'} \subseteq {stateFile, stateStable}
    BY <1>3 DEF Ends
  <2> QED
    BY <1>1, <1>2, <2>1, <2>3, <2>4 DEF Proved!Forget, Proved!TypeOK
<1>4. CASE Stays
  BY <1>1, <1>2, <1>4 DEF Stays, Proved!TypeOK, senderMemory
<1> QED
  BY <1>3, <1>4, SenderLeft

\* A sender that is down and may start is safe: it accepts the checkpoint file,
\* and the checkpoint behind it is not ahead.
LEMMA SafeBefore ==
  ASSUME StoreTypeOK, SenderInv, OpenSender \/ SendTurn \/ SendAttempt \/ SendSynced
  PROVE  Proved!Safe /\ store \in {"running", "flushed"}
<1>1. CASE phase # "down"
  BY <1>1 DEF SenderInv
<1>2. CASE phase = "down"
  <2>1. OpenSender
    BY <1>2, SameTurn, SameAttempt
    DEF SendTurn, SendAttempt, SendSynced, Sender!Synced, Sender!Attempt, Proved!Turn,
        Proved!SkipFresh, Proved!StartFresh, Proved!SkipRetry, Proved!StartRetry,
        Proved!FreshTurn, Proved!RetryTurn, Proved!Awake
  <2>2. /\ store = "running"
        /\ stateFile = NoState \/ Proved!Accepts(stateFile)
    BY <1>2, <2>1, SameStart
    DEF OpenSender, Sender!Create, Sender!CreateSynced, Proved!Open
  <2>3. Proved!TypeOK /\ Proved!Ordered
    BY DEF SenderInv
  <2>4. Len(Readable) \in Nat
    BY ReadableLines, StoreSequences
  <2>5. ASSUME NEW s \in Saved
        PROVE  Proved!Accepts(s)
    <3>1. stateFile # NoState /\ stateFile \in Saved
      BY <2>3 DEF Saved, Proved!Ordered
    <3>2. s.offset <= stateFile.offset
      BY <2>3, SavedFields DEF Saved, Proved!Ordered
    <3>3. s.offset <= Len(Readable)
      BY <2>2, <2>3, <2>4, <3>1, <3>2, SavedFields DEF Proved!Accepts
    <3> QED
      BY <3>3 DEF SenderInv, Proved!GoodQueue, Proved!Accepts
  <2>6. Proved!StateAccepted
    BY <2>5 DEF Proved!StateAccepted, Proved!Checkpoints, Saved
  <2> QED
    BY <1>2, <2>2, <2>3, <2>6 DEF Proved!Safe, Proved!InStep, Proved!SendingReal
<1> QED
  BY <1>1, <1>2

\* What the sender does in the client is what it does alone.
LEMMA SenderInvStep ==
  ASSUME StoreTypeOK, StoreTypeOK', SenderInv, [Next]_allVars
  PROVE  SenderInv'
<1>1. CASE OpenSender \/ SendTurn \/ SendAttempt \/ SendSynced
  <2>1. Proved!Work /\ UNCHANGED storeVars
    BY <1>1, SenderWorks
  <2>2. Proved!Safe /\ store \in {"running", "flushed"}
    BY <1>1, SafeBefore
  <2>3. Proved!Safe'
    BY <2>1, <2>2, SenderConstants, Proved!SafeWork
  <2>4. Proved!Ordered'
    BY <2>1, <2>2, SenderConstants, Proved!OrderedWork DEF SenderInv
  <2>5. \A s \in Saved' : Proved!GoodQueue(s.offset, s.pending)'
    BY <2>3 DEF Proved!Safe, Proved!StateAccepted, Proved!Accepts, Proved!Checkpoints,
                Proved!GoodQueue, Saved
  <2>6. store' = store
    BY <2>1 DEF storeVars
  <2> QED
    BY <2>2, <2>3, <2>4, <2>5, <2>6 DEF SenderInv, Proved!Safe
<1>2. CASE Others
  <2>1. Saved' \subseteq Saved /\ Proved!Ordered'
    BY <1>2, SavedLeft
  <2>2. Proved!TypeOK'
    BY <1>2, SenderTyped
  <2>3. \A s \in Saved' : Proved!GoodQueue(s.offset, s.pending)'
    BY <2>1 DEF SenderInv, Proved!GoodQueue
  <2>4. ASSUME phase' # "down"
        PROVE  store' \in {"running", "flushed"} /\ Proved!Safe'
    <3>1. phase # "down"
      BY <1>2, <2>4, SenderLeft, SameForget DEF Stays, Ends
    <3>2. Proved!Grown /\ store' \in {"running", "flushed"}
      BY <1>2, <2>4, <3>1, ReadableGrows DEF SenderInv
    <3> QED
      BY <3>1, <3>2, SenderConstants, Proved!SafeGrows DEF SenderInv
  <2> QED
    BY <2>1, <2>2, <2>3, <2>4 DEF SenderInv
<1> QED
  BY <1>1, <1>2 DEF Next, Others

\* What the sender rests on holds in every reachable state of the client.
LEMMA SenderInvAlways == Spec => []SenderInv
<1>1. Init => SenderInv
  <2> SUFFICES ASSUME Init PROVE SenderInv
    OBVIOUS
  <2>1. StoreTypeOK
    BY StoreSafeInit DEF Init, StoreSafe
  <2>2. Readable \in Seq(Hosts) /\ <<>> \in Seq(Proved!PendingEntry)
    BY <2>1, ReadableLines, EmptySeq
  <2>3. /\ retryTurn \in BOOLEAN /\ retrying \in BOOLEAN
        /\ delivered \in SUBSET Keys /\ acked \in SUBSET Keys /\ waived \in SUBSET Keys
    BY DEF Init, Sender!Init
  <2>4. faults \in 0..MaxFaults
    BY SenderConstants DEF Init, Sender!Init, Proved!SenderAssumption
  <2>5. Proved!TypeOK
    BY <2>2, <2>3, <2>4 DEF Init, Sender!Init, Proved!TypeOK
  <2> QED
    BY <2>5 DEF Init, Sender!Init, SenderInv, Proved!Ordered, Saved
<1>2. StoreInv /\ StoreInv' /\ SenderInv /\ [Next]_allVars => SenderInv'
  BY SenderInvStep DEF StoreInv, StoreSafe
<1> QED
  BY <1>1, <1>2, StoreSafeAlways, PTL DEF Spec

\* Every variable of the client keeps its type, in particular the sender only
\* runs beside an open store.
THEOREM DeliveryTyped == Spec => []DeliveryTypeOK
<1>1. StoreInv /\ SenderInv => DeliveryTypeOK
  BY DEF StoreInv, StoreSafe, SenderInv, DeliveryTypeOK, Proved!TypeOK, Sender!TypeOK,
         Proved!Checkpoint, Proved!PendingEntry, Sender!Checkpoint, Sender!PendingEntry
<1> QED
  BY <1>1, StoreSafeAlways, SenderInvAlways, PTL

----------------------------------------------------------------------------
(* What the checkpoints say of the file *)

\* The lines of the file as the next start will see them.
Text == IF tail \in Hosts THEN Append(file, tail) ELSE file

\* The keys of the lines up to i that the queue q holds.
TextKeys(q, i) == {KeyOf[Text[q[j].offset + 1]] : j \in {k \in DOMAIN q : q[k].offset < i}}

\* Every line before the offset of a checkpoint, as far as the file has it, is taken
\* over, excused, or queued there by itself or by an earlier line of its key.
Settled ==
  \A s \in Saved : \A i \in 1..s.offset :
    i <= Len(Text) =>
      KeyOf[Text[i]] \in acked \cup waived \cup {NoKey} \cup TextKeys(s.pending, i)

\* Without kills no checkpoint is ahead of what survives a power loss.
Preserved == \A s \in Saved : s.offset <= synced

\* A step leaves the lines before the offset of a checkpoint as they are, or cuts
\* them off.
Kept ==
  \A s \in Saved : \A i \in 1..s.offset :
    i <= Len(Text') => i <= Len(Text) /\ Text'[i] = Text[i]

\* The next start sees the complete lines and then the unfinished one.
LEMMA TextLines ==
  ASSUME StoreTypeOK
  PROVE  /\ Text \in Seq(Hosts)
         /\ Len(Text) = Len(file) + IF tail \in Hosts THEN 1 ELSE 0
         /\ Len(Text) \in Nat
         /\ \A i \in 1..Len(file) : Text[i] = file[i]
         /\ tail \in Hosts => Text[Len(file) + 1] = tail
<1>1. file \in Seq(Hosts) /\ Len(file) \in Nat
  BY StoreSequences
<1>2. CASE tail \in Hosts
  BY <1>1, <1>2, AppendProperties DEF Text
<1>3. CASE tail \notin Hosts
  BY <1>1, <1>3 DEF Text
<1> QED
  BY <1>2, <1>3

\* So it does after the step.
LEMMA TextLinesNext ==
  ASSUME StoreTypeOK'
  PROVE  /\ Len(Text') = Len(file') + IF tail' \in Hosts THEN 1 ELSE 0
         /\ Len(file') \in Nat
         /\ \A i \in 1..Len(file') : Text'[i] = file'[i]
         /\ tail' \in Hosts => Text'[Len(file') + 1] = tail'
<1>1. file' \in Seq(Hosts) /\ Len(file') \in Nat
  BY LenProperties DEF StoreTypeOK
<1>2. CASE tail' \in Hosts
  BY <1>1, <1>2, AppendProperties DEF Text
<1>3. CASE tail' \notin Hosts
  BY <1>1, <1>3 DEF Text
<1> QED
  BY <1>2, <1>3

\* While the store is open, a checkpoint that a start accepts speaks of the same
\* lines to the sender and to the next start.
LEMMA SameLines ==
  ASSUME StoreSafe, store # "down", NEW s \in Proved!Checkpoint,
         s.offset <= Len(Readable), Proved!GoodQueue(s.offset, s.pending)
  PROVE  \A i \in 1..s.offset :
           /\ i <= Len(Text)
           /\ Readable[i] = Text[i]
           /\ Proved!KeysBefore(s.pending, i) = TextKeys(s.pending, i)
<1>1. /\ Len(Readable) = durable
      /\ durable \in 0..Len(file)
      /\ Len(file) \in Nat
      /\ \A i \in 1..durable : Readable[i] = file[i]
  BY ReadableLines, StoreSequences DEF StoreSafe
<1>2. Text = file
  BY StoreAssumption DEF StoreSafe, TailRepaired, Text
<1>3. s.offset \in Nat /\ s.pending \in Seq(Proved!PendingEntry)
  BY DEF Proved!Checkpoint
<1>4. \A i \in 1..s.offset : i <= Len(Text) /\ Readable[i] = Text[i]
  BY <1>1, <1>2, <1>3
<1>5. \A j \in DOMAIN s.pending :
        s.pending[j].offset \in Nat /\ s.pending[j].offset < s.offset
  BY <1>3, SenderConstants, Proved!EntryFields DEF Proved!GoodQueue
<1>6. \A j \in DOMAIN s.pending :
        Readable[s.pending[j].offset + 1] = Text[s.pending[j].offset + 1]
  <2>1. \A j \in DOMAIN s.pending : s.pending[j].offset + 1 \in 1..s.offset
    BY <1>3, <1>5
  <2> QED
    BY <1>4, <2>1
<1>7. \A i \in 1..s.offset : Proved!KeysBefore(s.pending, i) = TextKeys(s.pending, i)
  BY <1>6 DEF Proved!KeysBefore, Proved!RecordAt, TextKeys
<1> QED
  BY <1>4, <1>7

\* What a checkpoint says of the file is what the sender needs to know of it.
LEMMA SettledCovered ==
  ASSUME StoreSafe, Proved!Safe, store # "down", Settled,
         Proved!DeliveredCovered
  PROVE  Proved!Covered /\ Proved!FirstCovered
<1>1. ASSUME NEW s \in Saved
      PROVE  /\ s \in Proved!Checkpoint
             /\ s.offset \in Nat
             /\ s.offset <= Len(Readable)
             /\ Proved!GoodQueue(s.offset, s.pending)
  BY SavedFields DEF Proved!Safe, Proved!StateAccepted, Proved!Accepts, Proved!Checkpoints,
                     Proved!GoodQueue, Saved
<1>2. Proved!Checkpoints = Saved
  BY DEF Proved!Checkpoints, Saved
<1>3. Proved!FirstCovered
  <2> SUFFICES ASSUME NEW s \in Saved, NEW i \in 1..s.offset
               PROVE  KeyOf[Readable[i]] \in
                        acked \cup waived \cup {NoKey} \cup Proved!KeysBefore(s.pending, i)
    BY <1>2 DEF Proved!FirstCovered, Proved!FirstCovers
  <2>1. /\ i <= Len(Text)
        /\ Readable[i] = Text[i]
        /\ Proved!KeysBefore(s.pending, i) = TextKeys(s.pending, i)
    BY <1>1, SameLines
  <2> QED
    BY <2>1 DEF Settled
<1>4. ASSUME NEW s \in Saved, NEW i
      PROVE  Proved!KeysBefore(s.pending, i) \subseteq Proved!PendingKeys(s)
  BY DEF Proved!KeysBefore, Proved!PendingKeys
<1>5. Proved!NoLoss
  BY <1>2, <1>3, <1>4 DEF Proved!FirstCovered, Proved!FirstCovers, Proved!NoLoss
<1> QED
  BY <1>3, <1>5 DEF Proved!Covered

\* Where the text stays as it is, everything is kept.
LEMMA SameTextKept ==
  ASSUME UNCHANGED Text
  PROVE  Kept
BY DEF Kept

\* Where all checkpoints lie within the first n lines, these have to stay.
LEMMA PartKept ==
  ASSUME StoreTypeOK, StoreTypeOK', SenderInv, NEW n \in 0..Len(file), n <= Len(file'),
         \A s \in Saved : s.offset <= n,
         \A i \in 1..n : file'[i] = file[i]
  PROVE  Kept
<1>1. \A s \in Saved : s.offset \in Nat
  BY SavedFields DEF SenderInv
<1>2. Len(file) \in Nat /\ Len(file') \in Nat
  BY TextLinesNext, StoreSequences
<1>3. ASSUME NEW s \in Saved, NEW i \in 1..s.offset
      PROVE  i \in 1..n /\ i \in 1..Len(file) /\ i \in 1..Len(file')
  BY <1>1, <1>2, <1>3
<1>4. ASSUME NEW s \in Saved, NEW i \in 1..s.offset
      PROVE  i <= Len(Text) /\ Text'[i] = Text[i]
  BY <1>2, <1>3, <1>4, TextLines, TextLinesNext
<1> QED
  BY <1>4 DEF Kept

\* While the sender is up, every checkpoint lies within the lines of the file.
LEMMA SavedWithin ==
  ASSUME StoreTypeOK, SenderInv, phase # "down"
  PROVE  \A s \in Saved : s.offset <= durable /\ s.offset <= Len(file)
<1>1. Len(Readable) = durable /\ durable \in 0..Len(file) /\ Len(file) \in Nat
  BY ReadableLines, StoreSequences
<1>2. \A s \in Saved : s.offset \in Nat /\ s.offset <= Len(Readable)
  BY SavedFields DEF SenderInv, Proved!Safe, Proved!StateAccepted, Proved!Accepts,
                     Proved!Checkpoints, Saved
<1> QED
  BY <1>1, <1>2

\* A power loss keeps the lines that a checkpoint speaks of, where it keeps
\* anything in their place.
LEMMA PowerLossKept ==
  ASSUME StoreSafe, StoreTypeOK', Idle, SenderInv, TornIsComplete \/ Preserved, PowerOff
  PROVE  Kept
<1>1. PICK n \in synced..Len(file) :
        /\ synced' = n
        /\ Len(file') = n
        /\ \A i \in 1..n : file'[i] = file[i]
        /\ tail' \in {NoTail} \cup IF n < Len(file) THEN Torn[file[n + 1]] ELSE Unfinished
  BY PowerOffLeaves DEF StoreSafe
<1>2. /\ StoreTypeOK
      /\ Len(file) \in Nat
      /\ synced \in 0..Len(file)
      /\ n \in 0..Len(file)
      /\ \A i \in 1..Len(file) : file[i] \in Hosts
  BY StoreSequences DEF StoreSafe, StoreTypeOK
<1>3. \A s \in Saved : s.offset \in Nat
  BY SavedFields DEF SenderInv
<1>4. CASE \A s \in Saved : s.offset <= n
  BY <1>1, <1>2, <1>4, PartKept
<1>5. CASE ~(\A s \in Saved : s.offset <= n)
  <2>1. TornIsComplete
    BY <1>2, <1>3, <1>5 DEF Preserved
  <2>2. \A i \in 1..n : i <= Len(Text) /\ Text'[i] = Text[i]
    BY <1>1, <1>2, TextLines, TextLinesNext
  <2>3. ASSUME tail' \in Hosts
        PROVE  n + 1 <= Len(Text) /\ Text'[n + 1] = Text[n + 1]
    <3>1. Text'[n + 1] = tail'
      BY <1>1, <2>3, TextLinesNext
    <3>2. tail' # NoTail /\ tail' # Invalid
      BY <2>3, StoreAssumption
    <3>3. CASE n < Len(file)
      <4>1. n + 1 \in 1..Len(file)
        BY <1>2, <3>3
      <4>2. tail' = file[n + 1]
        BY <1>1, <1>2, <2>1, <3>2, <3>3, <4>1 DEF TornIsComplete
      <4>3. n + 1 <= Len(Text) /\ Text[n + 1] = file[n + 1]
        BY <1>2, <4>1, TextLines
      <4> QED
        BY <3>1, <4>2, <4>3
    <3>4. CASE ~(n < Len(file))
      <4>1. n = Len(file)
        BY <1>2, <3>4
      <4>2. phase = "down"
        BY <1>2, <1>5, <4>1, SavedWithin
      <4>3. ~torn
        BY <1>2, <4>2 DEF Idle, StoreTypeOK
      <4>4. tail' \in IF tail \in Hosts THEN {tail} \cup Torn[tail] ELSE {tail}
        BY <1>1, <3>2, <3>4, <4>3 DEF Unfinished
      <4>5. tail \in Hosts /\ tail' = tail
        BY <2>1, <2>3, <3>2, <4>4 DEF TornIsComplete
      <4> QED
        BY <1>2, <3>1, <4>1, <4>5, TextLines
    <3> QED
      BY <3>3, <3>4
  <2>4. ASSUME NEW s \in Saved, NEW i \in 1..s.offset, i <= Len(Text')
        PROVE  i <= Len(Text) /\ Text'[i] = Text[i]
    <3>1. i \in 1..n \/ (i = n + 1 /\ tail' \in Hosts)
      BY <1>1, <1>2, <1>3, <2>4, TextLinesNext
    <3> QED
      BY <2>2, <2>3, <3>1
  <2> QED
    BY <2>4 DEF Kept
<1> QED
  BY <1>4, <1>5

\* No step changes a line that a checkpoint speaks of.
LEMMA TextKept ==
  ASSUME StoreSafe, StoreTypeOK', Idle, SenderInv, TornIsComplete \/ Preserved, Others
  PROVE  Kept
<1>1. StoreTypeOK
  BY DEF StoreSafe
<1>2. /\ file \in Seq(Hosts) /\ Len(file) \in Nat
      /\ buffer \in Seq(Hosts) /\ Len(buffer) \in Nat
  BY <1>1, StoreSequences
<1>3. \A i \in 1..Len(file) : (file \o buffer)[i] = file[i]
  BY <1>2, ConcatProperties
<1>4. Len(file \o buffer) = Len(file) + Len(buffer)
  BY <1>2, ConcatProperties
<1>5. CASE OpenStore
  <2>1. CASE OpenRepair
    BY <2>1, StoreAssumption, SameTextKept DEF OpenRepair, Text
  <2>2. CASE OpenClean \/ RepairSynced
    BY <2>2, SameTextKept DEF OpenClean, RepairSynced, Text
  <2> QED
    BY <1>5, <2>1, <2>2 DEF OpenStore
<1>6. CASE Refuse \/ (\E domain \in Capturable : Capture(domain)) \/ StopReaders
           \/ Tick \/ Shutdown \/ UNCHANGED allVars
  <2>1. file' = file /\ tail' = tail
    BY <1>6 DEF Refuse, Capture, Accept, StopReaders, CloseWrites, Tick, storeVars,
                Shutdown, Exit, allVars
  <2> QED
    BY <2>1, SameTextKept DEF Text
<1>7. ASSUME phase # "down", Len(file) <= Len(file'),
             \A i \in 1..Len(file) : file'[i] = file[i]
      PROVE  Kept
  BY <1>1, <1>2, <1>7, SavedWithin, PartKept
<1>8. CASE Writer
  <2>1. phase # "down" /\ (file' = file \/ file' = file \o buffer)
    BY <1>8 DEF Writer, Started, WriteLine, Flush, FlushSynced
  <2> QED
    BY <1>2, <1>3, <1>4, <1>7, <2>1
<1>9. CASE KillBoth
  <2>1. file' = file /\ tail' \in Unfinished /\ store # "down"
    BY <1>9 DEF KillBoth, Kill
  <2>2. CASE phase # "down"
    BY <1>2, <1>7, <2>1, <2>2
  <2>3. CASE phase = "down"
    <3>1. ~torn
      BY <1>1, <2>3 DEF Idle, StoreTypeOK
    <3>2. tail = NoTail /\ tail \notin Hosts
      BY <2>1, StoreAssumption DEF StoreSafe, TailRepaired
    <3>3. tail' = tail
      BY <2>1, <3>1, <3>2 DEF Unfinished
    <3> QED
      BY <2>1, <3>3, SameTextKept DEF Text
  <2> QED
    BY <2>2, <2>3
<1>10. CASE WriteErrorEndsBoth
  <2>1. WriteError /\ dirty
    BY <1>10 DEF WriteErrorEndsBoth, WriteError
  <2>2. phase # "down"
    BY <2>1 DEF Idle
  <2>3. PICK n \in 0..(Len(buffer) - 1) :
          /\ Len(file') = Len(file) + n
          /\ \A i \in 1..Len(file') : file'[i] = (file \o buffer)[i]
    BY <1>1, <2>1, WriteErrorLeaves
  <2>4. Len(file) <= Len(file') /\ \A i \in 1..Len(file) : file'[i] = file[i]
    BY <1>2, <1>3, <2>3
  <2> QED
    BY <1>7, <2>2, <2>4
<1>11. CASE PowerLoss
  BY <1>11, PowerLossKept DEF PowerLoss
<1> QED
  BY <1>5, <1>6, <1>8, <1>9, <1>10, <1>11 DEF Others

\* What the checkpoints say stays true as long as these lines are kept.
LEMMA SettledOthers ==
  ASSUME StoreTypeOK', SenderInv, Settled, Kept, Others
  PROVE  Settled'
<1>1. /\ Saved' \subseteq Saved
      /\ acked \subseteq acked'
      /\ waived' = waived
  BY SavedLeft
<1>2. ASSUME NEW s \in Saved', NEW i \in 1..s.offset, i <= Len(Text')
      PROVE  KeyOf[Text'[i]] \in
               acked' \cup waived' \cup {NoKey} \cup TextKeys(s.pending, i)'
  <2>1. s \in Saved /\ s.offset \in Nat /\ s.pending \in Seq(Proved!PendingEntry)
    BY <1>1, SavedFields DEF SenderInv
  <2>2. i <= Len(Text) /\ Text'[i] = Text[i]
    BY <1>2, <2>1 DEF Kept
  <2>3. KeyOf[Text[i]] \in acked \cup waived \cup {NoKey} \cup TextKeys(s.pending, i)
    BY <2>1, <2>2 DEF Settled
  <2>4. \A j \in DOMAIN s.pending :
          s.pending[j].offset < i => s.pending[j].offset + 1 \in 1..s.offset
                                     /\ s.pending[j].offset + 1 <= Len(Text')
    <3>1. \A j \in DOMAIN s.pending : s.pending[j].offset \in Nat
      BY <2>1, SenderConstants, Proved!EntryFields
    <3>2. Len(Text') \in Nat
      BY TextLinesNext
    <3> QED
      BY <1>2, <2>1, <3>1, <3>2
  <2>5. \A j \in DOMAIN s.pending :
          s.pending[j].offset < i =>
            Text'[s.pending[j].offset + 1] = Text[s.pending[j].offset + 1]
    BY <2>1, <2>4 DEF Kept
  <2>6. TextKeys(s.pending, i)' = TextKeys(s.pending, i)
    BY <2>5 DEF TextKeys
  <2> QED
    BY <1>1, <2>2, <2>3, <2>6
<1> QED
  BY <1>2 DEF Settled

\* The work of the sender keeps what its checkpoints say.
LEMMA SettledWork ==
  ASSUME StoreSafe, SenderInv, Settled, Proved!DeliveredCovered,
         OpenSender \/ SendTurn \/ SendAttempt \/ SendSynced
  PROVE  Settled' /\ Proved!DeliveredCovered'
<1>1. Proved!Work /\ UNCHANGED storeVars
  BY SenderWorks
<1>2. Proved!Safe /\ store \in {"running", "flushed"}
  BY SafeBefore DEF StoreSafe
<1>3. Proved!Covered /\ Proved!FirstCovered
  BY <1>2, SettledCovered
<1>4. Proved!Safe'
  BY <1>1, <1>2, SenderConstants, Proved!SafeWork
<1>5. Proved!Covered' /\ Proved!FirstCovered'
  BY <1>1, <1>2, <1>3, SenderConstants, Proved!CoveredWork, Proved!FirstCoveredWork
<1>6. Readable' = Readable /\ Text' = Text
  BY <1>1 DEF storeVars, storeMemory, Readable, Text
<1>7. ASSUME NEW s \in Saved', NEW i \in 1..s.offset
      PROVE  KeyOf[Text'[i]] \in
               acked' \cup waived' \cup {NoKey} \cup TextKeys(s.pending, i)'
  <2>1. s \in Proved!Checkpoint
    BY <1>4 DEF Proved!Safe, Proved!TypeOK, Proved!Checkpoint, Saved
  <2>2. s.offset <= Len(Readable) /\ Proved!GoodQueue(s.offset, s.pending)
    BY <1>4, <1>6 DEF Proved!Safe, Proved!StateAccepted, Proved!Accepts,
                      Proved!Checkpoints, Proved!GoodQueue, Saved
  <2>3. Readable[i] = Text[i] /\ Proved!KeysBefore(s.pending, i) = TextKeys(s.pending, i)
    BY <1>2, <2>1, <2>2, SameLines
  <2>4. KeyOf[Readable'[i]] \in
          acked' \cup waived' \cup {NoKey} \cup Proved!KeysBefore(s.pending, i)'
    BY <1>5, <1>7 DEF Proved!FirstCovered, Proved!FirstCovers, Proved!Checkpoints, Saved
  <2>5. /\ Proved!KeysBefore(s.pending, i)' = Proved!KeysBefore(s.pending, i)
        /\ TextKeys(s.pending, i)' = TextKeys(s.pending, i)
    BY <1>6 DEF Proved!KeysBefore, Proved!RecordAt, TextKeys
  <2> QED
    BY <1>6, <2>3, <2>4, <2>5
<1> QED
  BY <1>5, <1>7 DEF Settled, Proved!Covered

\* No step of the client skips a line.
LEMMA SettledStep ==
  ASSUME StoreSafe, StoreTypeOK', Idle, SenderInv, TornIsComplete \/ Preserved,
         Settled, Proved!DeliveredCovered, [Next]_allVars
  PROVE  Settled' /\ Proved!DeliveredCovered'
<1>1. CASE OpenSender \/ SendTurn \/ SendAttempt \/ SendSynced
  BY <1>1, SettledWork
<1>2. CASE Others
  <2>1. Settled'
    BY <1>2, TextKept, SettledOthers
  <2>2. CASE phase' = "down"
    BY <2>1, <2>2 DEF Proved!DeliveredCovered
  <2>3. CASE phase' # "down"
    <3>1. phase # "down"
      BY <1>2, <2>3, SenderLeft, SameForget DEF Stays, Ends
    <3>2. Proved!Safe /\ store \in {"running", "flushed"}
      BY <3>1 DEF SenderInv
    <3>3. Proved!Covered
      BY <3>2, SettledCovered
    <3>4. Proved!Grown
      BY <1>2, <2>3, <3>1, <3>2, ReadableGrows DEF StoreSafe, SenderInv
    <3> QED
      BY <2>1, <3>2, <3>3, <3>4, SenderConstants, Proved!CoveredGrows DEF Proved!Covered
  <2> QED
    BY <2>2, <2>3
<1> QED
  BY <1>1, <1>2 DEF Next, Others

\* What a checkpoint says is all that NothingSkipped asks for.
LEMMA SettledSkipsNothing ==
  ASSUME StoreTypeOK, SenderInv, Settled
  PROVE  NothingSkipped
<1>1. ASSUME NEW s \in Saved, NEW i \in 1..s.offset, i <= Len(file)
      PROVE  KeyOf[file[i]] \in acked \cup waived \cup {NoKey} \cup QueuedKeys(s)
  <2>1. s.offset \in Nat /\ s.pending \in Seq(Proved!PendingEntry) /\ Len(file) \in Nat
    BY SavedFields, StoreSequences DEF SenderInv
  <2>2. i \in 1..Len(file)
    BY <1>1, <2>1
  <2>3. i <= Len(Text) /\ Text[i] = file[i]
    BY <2>1, <2>2, TextLines
  <2>4. ASSUME NEW j \in DOMAIN s.pending, s.pending[j].offset < i
        PROVE  KeyOf[Text[s.pending[j].offset + 1]] \in QueuedKeys(s)
    <3>1. s.pending[j].offset \in Nat
      BY <2>1, SenderConstants, Proved!EntryFields
    <3>2. s.pending[j].offset + 1 \in 1..Len(file)
      BY <2>1, <2>2, <2>4, <3>1
    <3>3. Text[s.pending[j].offset + 1] = file[s.pending[j].offset + 1]
      BY <3>2, TextLines
    <3> QED
      BY <3>2, <3>3 DEF QueuedKeys
  <2>5. TextKeys(s.pending, i) \subseteq QueuedKeys(s)
    BY <2>4 DEF TextKeys
  <2>6. KeyOf[Text[i]] \in acked \cup waived \cup {NoKey} \cup TextKeys(s.pending, i)
    BY <1>1, <2>3 DEF Settled
  <2> QED
    BY <2>3, <2>5, <2>6
<1> QED
  BY <1>1 DEF NothingSkipped

\* No step of the client lets a checkpoint run ahead of what was synchronized.
LEMMA PreservedStep ==
  ASSUME StoreSafe, Synchronized, SenderInv, SenderInv', Preserved, [Next]_allVars
  PROVE  Preserved'
<1>1. /\ StoreTypeOK
      /\ Len(Readable) = durable
      /\ durable \in 0..Len(file)
      /\ Len(file) \in Nat
      /\ synced \in 0..Len(file)
  BY ReadableLines, StoreSequences DEF StoreSafe, StoreTypeOK
<1>2. CASE OpenSender \/ SendTurn \/ SendAttempt \/ SendSynced
  <2>1. UNCHANGED storeVars
    BY <1>2, SenderWorks
  <2>2. Proved!Safe'
    BY <1>1, <1>2, SafeBefore, SenderWorks, SenderConstants, Proved!SafeWork
  <2>3. synced' = synced /\ Readable' = Readable
    BY <2>1 DEF storeVars, storeMemory, Readable
  <2>4. \A s \in Saved' : s.offset \in Nat /\ s.offset <= Len(Readable)
    BY <2>2, <2>3 DEF Proved!Safe, Proved!TypeOK, Proved!Checkpoint,
                      Proved!StateAccepted, Proved!Accepts, Proved!Checkpoints, Saved
  <2>5. \A s \in Saved' : s.offset <= synced'
    BY <1>1, <2>3, <2>4 DEF Synchronized
  <2> QED
    BY <2>5 DEF Preserved
<1>3. CASE Others
  <2>1. Saved' \subseteq Saved
    BY <1>3, SavedLeft
  <2>2. \A s \in Saved : s.offset \in Nat
    BY SavedFields DEF SenderInv
  <2>3. synced' \in Nat /\ synced <= synced'
    <3>1. CASE OpenStore \/ Writer
      BY <1>1, <3>1 DEF OpenStore, OpenClean, OpenRepair, RepairSynced, Writer, WriteLine,
                        Flush, FlushSynced
    <3>2. CASE Refuse \/ (\E domain \in Capturable : Capture(domain)) \/ StopReaders
               \/ Tick \/ Shutdown \/ KillBoth \/ WriteErrorEndsBoth \/ UNCHANGED allVars
      <4>1. synced' = synced
        BY <3>2 DEF Refuse, Capture, Accept, StopReaders, CloseWrites, Tick, storeVars,
                    Shutdown, Exit, KillBoth, Kill, WriteErrorEndsBoth, WriteError, allVars
      <4> QED
        BY <1>1, <4>1
    <3>3. CASE PowerLoss
      BY <1>1, <3>3, PowerOffLeaves DEF PowerLoss
    <3> QED
      BY <1>3, <3>1, <3>2, <3>3 DEF Others
  <2> QED
    BY <1>1, <2>1, <2>2, <2>3 DEF Preserved
<1> QED
  BY <1>2, <1>3 DEF Next, Others

\* Without kills every checkpoint lies within the synchronized lines.
LEMMA PreservedAlways ==
  ASSUME "kill" \notin CrashKinds
  PROVE  Spec => []Preserved
<1>1. Init => Preserved
  BY DEF Init, Sender!Init, Preserved, Saved
<1>2. /\ StoreInv /\ Synchronized /\ SenderInv /\ SenderInv' /\ Preserved
      /\ [Next]_allVars
      => Preserved'
  BY PreservedStep DEF StoreInv
<1> QED
  BY <1>1, <1>2, StoreSafeAlways, SynchronizedAlways, SenderInvAlways, PTL DEF Spec

\* Without kills no start refuses the checkpoint it finds.  With them it may: a
\* start takes over the size of the file as durable, the sender reads that far and
\* saves its offset, and a power loss then cuts the file back behind it.
THEOREM StartsAccepted ==
  ASSUME "kill" \notin CrashKinds
  PROVE  Spec => []NeverRefused
<1>1. StoreInv /\ SenderInv /\ Preserved => NeverRefused
  <2> SUFFICES ASSUME StoreInv, SenderInv, Preserved
               PROVE  \A s \in Saved : s.offset <= Len(file) + IF tail \in Hosts THEN 1 ELSE 0
    BY DEF NeverRefused
  <2>1. Len(file) \in Nat /\ synced \in 0..Len(file)
    BY StoreSequences DEF StoreInv, StoreSafe, StoreTypeOK
  <2>2. \A s \in Saved : s.offset \in Nat /\ s.offset <= synced
    BY SavedFields DEF SenderInv, Preserved
  <2> QED
    BY <2>1, <2>2
<1> QED
  BY <1>1, StoreSafeAlways, SenderInvAlways, PreservedAlways, PTL

\* Each line before a checkpoint's offset is taken over, excused, or queued in that
\* checkpoint, also where a crash has cut the file back and it grew again: if a line
\* cut short never reads as another domain, or if only the power fails.
THEOREM LinesAccounted ==
  ASSUME TornIsComplete \/ "kill" \notin CrashKinds
  PROVE  Spec => []NothingSkipped
<1>1. Init => Settled /\ Proved!DeliveredCovered
  BY DEF Init, Sender!Init, Settled, Saved, Proved!DeliveredCovered
<1>2. /\ StoreInv /\ StoreInv' /\ Idle /\ SenderInv
      /\ TornIsComplete \/ Preserved
      /\ Settled /\ Proved!DeliveredCovered
      /\ [Next]_allVars
      => Settled' /\ Proved!DeliveredCovered'
  BY SettledStep DEF StoreInv, StoreSafe
<1>3. StoreInv /\ SenderInv /\ Settled => NothingSkipped
  BY SettledSkipsNothing DEF StoreInv, StoreSafe
<1>4. CASE TornIsComplete
  <2>1. /\ StoreInv /\ StoreInv' /\ Idle /\ SenderInv
        /\ Settled /\ Proved!DeliveredCovered
        /\ [Next]_allVars
        => Settled' /\ Proved!DeliveredCovered'
    BY <1>2, <1>4
  <2> QED
    BY <1>1, <2>1, <1>3, StoreSafeAlways, IdleAlways, SenderInvAlways, PTL DEF Spec
<1>5. CASE "kill" \notin CrashKinds
  BY <1>1, <1>2, <1>3, <1>5, StoreSafeAlways, IdleAlways, SenderInvAlways, PreservedAlways,
     PTL DEF Spec
<1> QED
  BY <1>4, <1>5
=============================================================================
