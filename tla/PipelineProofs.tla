--------------------------- MODULE PipelineProofs ---------------------------
(***************************************************************************)
(* What holds of Pipeline for any number of controllers, any capacities of *)
(* the queues and any pattern of failures, proved with TLAPS.  Closing is  *)
(* about the candidate channel, Reporting about the results that Run       *)
(* collects, Accounting about where a submitted host can be.               *)
(***************************************************************************)
EXTENDS Pipeline, SequenceTheorems, TLAPS

----------------------------------------------------------------------------
(* The conjuncts of the inductive invariants *)

\* A goroutine that submits or hands over has something in its hand.
HandsFull ==
  /\ \A i \in Instances : reader[i] = "submitting" => offered[i] \in Hosts
  /\ \A i \in Instances : snapshot[i] = "submitting" => snapOffered[i] \in Hosts
  /\ processor = "sending" => accepted \in Domains

Typed == TypeOK /\ HandsFull

\* A reader outlives its snapshot, and the channel is closed after the readers.
Closing ==
  /\ \A i \in Instances : snapshot[i] # "none" => reader[i] # "done"
  /\ candidatesClosed => \A i \in Instances : reader[i] = "done"

\* Only goroutines that have ended fail or are collected, and the error to
\* return is there as soon as one of the collected ones has failed.
Reporting ==
  /\ \A g \in consumed \cup failed : Ended(g)
  /\ fatal = NoError <=> failed \cap consumed = {}
  /\ fatal \in failed \cup {NoError}
  /\ main = "selecting" => consumed = {}
  /\ main = "returned" => consumed = Workers

\* q holds y.
Holds(q, y) == \E j \in DOMAIN q : q[j] = y

\* What the processor has not seen is still queued; what it has seen is on its
\* way or saved; a goroutine that ended in order left nothing behind.
HostsAccounted ==
  "processor" \notin failed =>
    \A host \in submitted :
      Project[host] \in seen \cup {NoDomain} \/ Holds(candidates, host)

DomainsAccounted ==
  "writer" \notin failed =>
    \A domain \in seen :
      \/ domain \in saved \cup buffered
      \/ Holds(writes, domain)
      \/ processor = "sending" /\ accepted = domain

WriterDrained ==
  writer = "done" /\ "writer" \notin failed =>
    processor = "done" /\ writes = <<>> /\ buffered = {}

ProcessorDrained ==
  processor = "done" /\ failed \cap {"processor", "writer"} = {} =>
    candidatesClosed /\ candidates = <<>>

Accounting == HostsAccounted /\ DomainsAccounted /\ WriterDrained /\ ProcessorDrained

----------------------------------------------------------------------------
(* Lemmas about channels *)

\* What a channel holds after a send.
LEMMA SendProperties ==
  ASSUME NEW S, NEW q \in Seq(S), NEW x \in S
  PROVE  /\ Append(q, x) \in Seq(S)
         /\ Len(Append(q, x)) = Len(q) + 1
         /\ \A y : Holds(q, y) \/ y = x => Holds(Append(q, x), y)
<1>1. /\ Append(q, x) \in Seq(S)
      /\ Len(Append(q, x)) = Len(q) + 1
      /\ \A j \in 1..Len(q) : Append(q, x)[j] = q[j]
      /\ Append(q, x)[Len(q) + 1] = x
  BY AppendProperties
<1>2. /\ Len(q) \in Nat
      /\ DOMAIN q = 1..Len(q)
      /\ DOMAIN Append(q, x) = 1..(Len(q) + 1)
  BY <1>1, LenProperties
<1>3. ASSUME NEW y, Holds(q, y) \/ y = x
      PROVE  Holds(Append(q, x), y)
  <2>1. CASE Holds(q, y)
    BY <1>1, <1>2, <2>1 DEF Holds
  <2>2. CASE y = x
    BY <1>1, <1>2, <2>2 DEF Holds
  <2> QED
    BY <1>3, <2>1, <2>2
<1> QED
  BY <1>1, <1>3

\* What a channel holds after a receive.
LEMMA ReceiveProperties ==
  ASSUME NEW S, NEW q \in Seq(S), q # <<>>
  PROVE  /\ Tail(q) \in Seq(S)
         /\ Len(Tail(q)) = Len(q) - 1
         /\ Head(q) \in S
         /\ \A y : Holds(q, y) => y = Head(q) \/ Holds(Tail(q), y)
<1>1. /\ Tail(q) \in Seq(S)
      /\ Head(q) \in S
      /\ Head(q) = q[1]
      /\ Len(Tail(q)) = Len(q) - 1
      /\ \A j \in 1..Len(Tail(q)) : Tail(q)[j] = q[j + 1]
  BY HeadTailProperties
<1>2. /\ Len(q) \in Nat
      /\ DOMAIN q = 1..Len(q)
      /\ DOMAIN Tail(q) = 1..(Len(q) - 1)
  BY <1>1, LenProperties
<1>3. ASSUME NEW y, Holds(q, y), y # Head(q)
      PROVE  Holds(Tail(q), y)
  <2>1. PICK j \in 1..Len(q) : q[j] = y
    BY <1>2, <1>3 DEF Holds
  <2>2. j - 1 \in 1..(Len(q) - 1) /\ Tail(q)[j - 1] = q[j]
    BY <1>1, <1>2, <1>3, <2>1
  <2> QED
    BY <1>2, <2>1, <2>2 DEF Holds
<1> QED
  BY <1>1, <1>3

\* An empty channel holds nothing.
LEMMA EmptyHolds == \A y : ~Holds(<<>>, y)
BY DEF Holds

----------------------------------------------------------------------------
(* Types *)

\* The initial state is typed.
LEMMA TypedInit == Init => Typed
<1> SUFFICES ASSUME Init
             PROVE  Typed
  OBVIOUS
<1> USE PipelineAssumption DEF Init, PipelineAssumption
<1>1. shutdown \in BOOLEAN /\ cancelled \in BOOLEAN /\ (shutdown => cancelled)
  OBVIOUS
<1>2. candidatesClosed \in BOOLEAN
  OBVIOUS
<1>3. /\ candidates \in Seq(Hosts) /\ Len(candidates) <= CandidateQueue
      /\ writes \in Seq(Domains) /\ Len(writes) <= WriteQueue
  BY EmptySeq
<1>4. HandsFull
  BY DEF HandsFull
<1>5. /\ fatal \in Workers \cup {NoError}
      /\ failed \in SUBSET MayFail /\ consumed \in SUBSET Workers
      /\ submitted \in SUBSET Hosts /\ lines \in Nat
  BY DEF NoError
<1> QED
  BY <1>1, <1>2, <1>3, <1>4, <1>5 DEF Typed, TypeOK

\* Steps of a reader.
LEMMA TypedReader ==
  ASSUME Typed, NEW i \in Instances, Reader(i)
  PROVE  Typed'
<1> USE PipelineAssumption
    DEF PipelineAssumption, Typed, TypeOK, HandsFull, readers, queues, processing,
        writing, ending
<1>1. CASE Connect(i)
  BY <1>1 DEF Connect, ReaderStep
<1>2. CASE Disconnect(i)
  BY <1>2 DEF Disconnect
<1>3. CASE Reconnect(i)
  BY <1>3 DEF Reconnect, ReaderStep
<1>4. CASE StopWaiting(i)
  BY <1>4 DEF StopWaiting, ReaderStep
<1>5. ASSUME NEW host \in Hosts, ReadLine(i, host)
      PROVE  Typed'
  BY <1>5 DEF ReadLine, ReaderStep
<1>6. CASE Submit(i)
  <2>1. offered[i] \in Hosts
    BY <1>6 DEF Submit, ReaderStep
  <2>2. candidates' \in Seq(Hosts) /\ Len(candidates') <= CandidateQueue
    BY <1>6, <2>1, SendProperties, LenProperties DEF Submit, Enqueue
  <2> QED
    BY <1>6, <2>1, <2>2 DEF Submit, ReaderStep, Enqueue
<1>7. CASE SubmitCancelled(i)
  BY <1>7 DEF SubmitCancelled, ReaderStep
<1>8. CASE Leave(i)
  BY <1>8 DEF Leave, ReaderStep
<1> QED
  BY <1>1, <1>2, <1>3, <1>4, <1>5, <1>6, <1>7, <1>8 DEF Reader

\* Steps of a snapshot goroutine.
LEMMA TypedSnapshot ==
  ASSUME Typed, NEW i \in Instances, Snapshot(i)
  PROVE  Typed'
<1> USE PipelineAssumption
    DEF PipelineAssumption, Typed, TypeOK, HandsFull, readers, queues, processing,
        writing, ending
<1>1. ASSUME NEW host \in Hosts, SnapshotOffers(i, host)
      PROVE  Typed'
  BY <1>1 DEF SnapshotOffers, SnapshotStep
<1>2. CASE SnapshotSubmits(i)
  <2>1. snapOffered[i] \in Hosts
    BY <1>2 DEF SnapshotSubmits, SnapshotStep
  <2>2. candidates' \in Seq(Hosts) /\ Len(candidates') <= CandidateQueue
    BY <1>2, <2>1, SendProperties, LenProperties DEF SnapshotSubmits, Enqueue
  <2> QED
    BY <1>2, <2>1, <2>2 DEF SnapshotSubmits, SnapshotStep, Enqueue
<1>3. CASE SnapshotEnds(i)
  BY <1>3 DEF SnapshotEnds
<1> QED
  BY <1>1, <1>2, <1>3 DEF Snapshot

\* Steps of the processor, the writer and the sender.
LEMMA TypedWorker ==
  ASSUME Typed, Processor \/ Writer \/ Sender
  PROVE  Typed'
<1> USE PipelineAssumption
    DEF PipelineAssumption, Typed, TypeOK, HandsFull, readers, queues, processing,
        writing, ending
<1>1. CASE Receive
  <2>1. candidates' \in Seq(Hosts) /\ Len(candidates') <= CandidateQueue
        /\ Head(candidates) \in Hosts
    BY <1>1, ReceiveProperties, LenProperties DEF Receive
  <2> QED
    BY <1>1, <2>1 DEF Receive
<1>2. CASE IndexFails
  <2>1. candidates' \in Seq(Hosts) /\ Len(candidates') <= CandidateQueue
    BY <1>2, ReceiveProperties, LenProperties DEF IndexFails
  <2> QED
    BY <1>2, <2>1 DEF IndexFails, ProcessorEnds
<1>3. CASE HandOver
  <2>1. writes' \in Seq(Domains) /\ Len(writes') <= WriteQueue
    BY <1>3, SendProperties, LenProperties DEF HandOver
  <2> QED
    BY <1>3, <2>1 DEF HandOver
<1>4. CASE GiveUp
  BY <1>4 DEF GiveUp, ProcessorEnds
<1>5. CASE Finish
  BY <1>5 DEF Finish, ProcessorEnds
<1>6. CASE WriteOne
  <2>1. writes' \in Seq(Domains) /\ Len(writes') <= WriteQueue
        /\ Head(writes) \in Domains
    BY <1>6, ReceiveProperties, LenProperties DEF WriteOne
  <2> QED
    BY <1>6, <2>1 DEF WriteOne
<1>7. CASE Sync
  BY <1>7 DEF Sync
<1>8. CASE WriterFinishes
  BY <1>8 DEF WriterFinishes
<1>9. CASE WriterFails
  BY <1>9 DEF WriterFails
<1>10. CASE SenderStops
  BY <1>10 DEF SenderStops
<1>11. CASE SenderFails
  BY <1>11 DEF SenderFails
<1> QED
  BY <1>1, <1>2, <1>3, <1>4, <1>6, <1>7, <1>10, <1>11, <1>5, <1>8, <1>9
     DEF Processor, Writer, Sender

\* Steps of Run, and the signal.
LEMMA TypedMain ==
  ASSUME Typed, Main \/ RequestShutdown \/ Terminated \/ UNCHANGED vars
  PROVE  Typed'
<1> USE PipelineAssumption
    DEF PipelineAssumption, Typed, TypeOK, HandsFull, readers, queues, processing,
        writing, ending
<1>1. CASE SelectShutdown
  BY <1>1 DEF SelectShutdown
<1>2. ASSUME NEW g \in Workers, SelectResult(g)
      PROVE  Typed'
  BY <1>2 DEF SelectResult
<1>3. CASE ReadersJoined
  BY <1>3 DEF ReadersJoined
<1>4. CASE ProcessorJoined
  BY <1>4 DEF ProcessorJoined
<1>5. CASE Collect
  BY <1>5 DEF Collect
<1>6. CASE Return
  BY <1>6 DEF Return
<1>7. CASE RequestShutdown
  BY <1>7 DEF RequestShutdown
<1>8. CASE UNCHANGED vars
  BY <1>8 DEF vars
<1>9. CASE Terminated
  BY <1>8, <1>9 DEF Terminated
<1> QED
  BY <1>1, <1>2, <1>3, <1>4, <1>5, <1>6, <1>7, <1>8, <1>9 DEF Main

\* Every step keeps the types.
LEMMA TypedStep == Typed /\ [Next]_vars => Typed'
BY TypedReader, TypedSnapshot, TypedWorker, TypedMain DEF Next

\* Every variable keeps its type: in particular no queue exceeds its capacity.
THEOREM TypesKept == Spec => []TypeOK
<1>1. Init => Typed
  BY TypedInit
<1>2. Typed /\ [Next]_vars => Typed'
  BY TypedStep
<1>3. Typed => TypeOK
  BY DEF Typed
<1> QED
  BY <1>1, <1>2, <1>3, PTL DEF Spec

\* The same of the strengthening.
LEMMA TypedAlways == Spec => []Typed
BY TypedInit, TypedStep, PTL DEF Spec

----------------------------------------------------------------------------
(* The candidate channel *)

\* No step of the pipeline disturbs Closing.
LEMMA ClosingStep == Typed /\ Closing /\ [Next]_vars => Closing'
<1> SUFFICES ASSUME Typed, Closing, [Next]_vars
             PROVE  Closing'
  OBVIOUS
<1> USE DEF Typed, TypeOK, Closing, readers, queues, processing, writing, ending
<1>1. ASSUME NEW i \in Instances, Reader(i)
      PROVE  Closing'
  <2>1. CASE Connect(i)
    BY <2>1 DEF Connect, ReaderStep
  <2>2. CASE Disconnect(i) \/ Reconnect(i) \/ StopWaiting(i) \/ SubmitCancelled(i)
    BY <2>2 DEF Disconnect, Reconnect, StopWaiting, SubmitCancelled, ReaderStep
  <2>3. ASSUME NEW host \in Hosts, ReadLine(i, host)
        PROVE  Closing'
    BY <2>3 DEF ReadLine, ReaderStep
  <2>4. CASE Submit(i)
    BY <2>4 DEF Submit, Enqueue, ReaderStep
  <2>5. CASE Leave(i)
    BY <2>5 DEF Leave, ReaderStep
  <2> QED
    BY <1>1, <2>1, <2>2, <2>3, <2>4, <2>5 DEF Reader
<1>2. ASSUME NEW i \in Instances, Snapshot(i)
      PROVE  Closing'
  BY <1>2 DEF Snapshot, SnapshotOffers, SnapshotSubmits, SnapshotEnds, SnapshotStep,
              Enqueue
<1>3. CASE Processor
  BY <1>3 DEF Processor, Receive, IndexFails, HandOver, GiveUp, Finish
<1>4. CASE Writer \/ Sender
  BY <1>4 DEF Writer, WriteOne, Sync, WriterFinishes, WriterFails, Sender, SenderStops,
              SenderFails
<1>5. CASE ReadersJoined
  BY <1>5 DEF ReadersJoined
<1>6. CASE Main /\ ~ReadersJoined
  BY <1>6 DEF Main, SelectShutdown, SelectResult, ProcessorJoined, Collect, Return
<1>7. CASE RequestShutdown \/ Terminated \/ UNCHANGED vars
  BY <1>7 DEF RequestShutdown, Terminated, vars
<1> QED
  BY <1>1, <1>2, <1>3, <1>4, <1>5, <1>6, <1>7 DEF Next

\* Closing always holds.
LEMMA ClosingAlways == Spec => []Closing
<1>1. Init => Closing
  BY DEF Init, Closing
<1> QED
  BY <1>1, ClosingStep, TypedAlways, PTL DEF Spec

\* No goroutine that could send is left when the candidate channel is closed
\* (app.go:189-190 with the deferred snapshots.Wait at app.go:236).
THEOREM ChannelClosedLast == Spec => []NoSendOnClosed
<1>1. Typed /\ Closing => NoSendOnClosed
  BY DEF Closing, NoSendOnClosed
<1> QED
  BY <1>1, ClosingAlways, TypedAlways, PTL

----------------------------------------------------------------------------
(* The results *)

\* A step in which Run does nothing and h, at most, fails.
LEMMA ReportingWorker ==
  ASSUME Typed, Reporting, NEW h \in Workers,
         UNCHANGED <<main, consumed, fatal>>,
         \A g \in Workers : Ended(g) => Ended(g)',
         \/ failed' = failed
         \/ failed' = failed \cup {h} /\ ~Ended(h) /\ Ended(h)'
  PROVE  Reporting'
<1>1. consumed \cup failed \subseteq Workers
  BY PipelineAssumption DEF PipelineAssumption, Typed, TypeOK, Workers
<1>2. CASE failed' = failed
  <2>1. \A g \in consumed' \cup failed' : Ended(g)'
    BY <1>1, <1>2 DEF Reporting
  <2> QED
    BY <1>2, <2>1 DEF Reporting
<1>3. CASE failed' = failed \cup {h} /\ ~Ended(h) /\ Ended(h)'
  <2>1. \A g \in consumed' \cup failed' : Ended(g)'
    BY <1>1, <1>3 DEF Reporting
  <2>2. failed' \cap consumed' = failed \cap consumed
    BY <1>3 DEF Reporting
  <2> QED
    BY <1>3, <2>1, <2>2 DEF Reporting
<1> QED
  BY <1>2, <1>3

\* Steps of the goroutines.
LEMMA ReportingGoroutines ==
  ASSUME Typed, Reporting,
         \/ \E i \in Instances : Reader(i) \/ Snapshot(i)
         \/ Processor \/ Writer \/ Sender
  PROVE  Reporting'
<1> USE DEF readers, queues, processing, writing, ending
<1>1. ASSUME NEW i \in Instances, Reader(i) \/ Snapshot(i)
      PROVE  Reporting'
  <2>1. UNCHANGED <<processor, writer, sender, main, consumed, fatal, failed>>
    BY <1>1 DEF Reader, Connect, Disconnect, Reconnect, StopWaiting, ReadLine, Submit,
                SubmitCancelled, Leave, Snapshot, SnapshotOffers, SnapshotSubmits,
                SnapshotEnds
  <2> QED
    BY <2>1, ReportingWorker DEF Workers, Ended
<1>2. CASE Receive \/ HandOver \/ GiveUp \/ Finish
  <2>1. /\ UNCHANGED <<writer, sender, main, consumed, fatal, failed>>
        /\ processor # "done"
    BY <1>2 DEF Receive, HandOver, GiveUp, Finish
  <2> QED
    BY <2>1, ReportingWorker DEF Workers, Ended
<1>3. CASE IndexFails
  BY <1>3, ReportingWorker DEF IndexFails, ProcessorEnds, Workers, Ended
<1>4. CASE WriteOne \/ Sync \/ WriterFinishes
  <2>1. /\ UNCHANGED <<processor, sender, main, consumed, fatal, failed>>
        /\ writer # "done"
    BY <1>4 DEF WriteOne, Sync, WriterFinishes
  <2> QED
    BY <2>1, ReportingWorker DEF Workers, Ended
<1>5. CASE WriterFails
  BY <1>5, ReportingWorker DEF WriterFails, Workers, Ended
<1>6. CASE SenderStops
  BY <1>6, ReportingWorker DEF SenderStops, Workers, Ended
<1>7. CASE SenderFails
  BY <1>7, ReportingWorker DEF SenderFails, Workers, Ended
<1> QED
  BY <1>1, <1>2, <1>3, <1>4, <1>5, <1>6, <1>7 DEF Processor, Writer, Sender

\* Steps of Run, and the signal.
LEMMA ReportingMain ==
  ASSUME Typed, Reporting, Main \/ RequestShutdown \/ UNCHANGED vars
  PROVE  Reporting'
<1> USE DEF readers, queues, processing, writing, ending
<1>1. NoError \notin Workers /\ failed \subseteq Workers
  BY PipelineAssumption DEF PipelineAssumption, Typed, TypeOK, NoError, Workers
<1>2. CASE SelectShutdown \/ ReadersJoined \/ ProcessorJoined
  <2>1. /\ UNCHANGED <<processor, writer, sender, consumed, fatal, failed>>
        /\ main' \notin {"selecting", "returned"}
    BY <1>2 DEF SelectShutdown, ReadersJoined, ProcessorJoined
  <2> QED
    BY <2>1 DEF Reporting, Ended
<1>3. ASSUME NEW g \in Workers, SelectResult(g)
      PROVE  Reporting'
  <2>1. /\ UNCHANGED <<processor, writer, sender, failed>>
        /\ main' \notin {"selecting", "returned"}
        /\ consumed' = {g}
        /\ Ended(g)
        /\ fatal' = IF g \in failed THEN g ELSE NoError
    BY <1>3 DEF SelectResult
  <2>2. \A w \in consumed' \cup failed' : Ended(w)'
    BY <2>1 DEF Reporting, Ended
  <2> QED
    BY <1>1, <2>1, <2>2 DEF Reporting
<1>4. CASE Collect
  <2>1. PICK g \in Workers \ consumed :
          /\ Ended(g)
          /\ consumed' = consumed \cup {g}
          /\ fatal' = IF fatal = NoError /\ g \in failed THEN g ELSE fatal
    BY <1>4 DEF Collect
  <2>2. /\ UNCHANGED <<processor, writer, sender, failed>>
        /\ main' \notin {"selecting", "returned"}
    BY <1>4 DEF Collect
  <2>3. \A w \in consumed' \cup failed' : Ended(w)'
    BY <2>1, <2>2 DEF Reporting, Ended
  <2> QED
    BY <1>1, <2>1, <2>2, <2>3 DEF Reporting
<1>5. CASE Return
  <2>1. /\ UNCHANGED <<processor, writer, sender, consumed, fatal, failed>>
        /\ main' = "returned"
        /\ Workers \subseteq consumed
    BY <1>5 DEF Return, Awaited
  <2>2. consumed = Workers
    BY <2>1 DEF Typed, TypeOK
  <2> QED
    BY <2>1, <2>2 DEF Reporting, Ended
<1>6. CASE RequestShutdown
  BY <1>6 DEF RequestShutdown, Reporting, Ended
<1>7. CASE UNCHANGED vars
  BY <1>7 DEF vars, Reporting, Ended
<1> QED
  BY <1>2, <1>3, <1>4, <1>5, <1>6, <1>7 DEF Main

\* Reporting always holds.
LEMMA ReportingAlways == Spec => []Reporting
<1>1. Init => Reporting
  BY DEF Init, Reporting, NoError
<1>2. Typed /\ Reporting /\ [Next]_vars => Reporting'
  BY ReportingGoroutines, ReportingMain DEF Next, Terminated
<1> QED
  BY <1>1, <1>2, TypedAlways, PTL DEF Spec

\* Run returns an error exactly when some goroutine failed, whichever result
\* its select receives first (app.go:166-212).
THEOREM FailuresReported == Spec => []ErrorReported
<1>1. Typed /\ Reporting => ErrorReported
  BY PipelineAssumption
     DEF PipelineAssumption, Typed, TypeOK, Reporting, ErrorReported, Workers
<1> QED
  BY <1>1, ReportingAlways, TypedAlways, PTL

----------------------------------------------------------------------------
(* Where hosts and domains are *)

\* A host enters the candidate channel, which somebody still holds open.
LEMMA AccountingEnqueue ==
  ASSUME Typed, Accounting, NEW host \in Hosts, Enqueue(host), ~candidatesClosed,
         UNCHANGED <<processing, writes, writing, failed>>
  PROVE  Accounting'
<1> USE DEF processing, writing
<1>1. HostsAccounted'
  <2> SUFFICES ASSUME "processor" \notin failed, NEW h \in submitted'
               PROVE  Project[h] \in seen \cup {NoDomain} \/ Holds(candidates', h)
    BY DEF HostsAccounted
  <2>1. \A y : Holds(candidates, y) \/ y = host => Holds(candidates', y)
    BY SendProperties DEF Typed, TypeOK, Enqueue
  <2> QED
    BY <2>1 DEF Accounting, HostsAccounted, Enqueue
<1>2. DomainsAccounted' /\ WriterDrained'
  BY DEF Accounting, DomainsAccounted, WriterDrained
<1>3. ProcessorDrained'
  BY DEF Accounting, ProcessorDrained
<1> QED
  BY <1>1, <1>2, <1>3 DEF Accounting

\* A step that leaves the processor, the writer and the channels alone.
LEMMA AccountingIdle ==
  ASSUME Accounting, UNCHANGED <<candidates, submitted, processing, writes, writing>>,
         candidatesClosed => candidatesClosed',
         failed' \in {failed, failed \cup {"sender"}}
  PROVE  Accounting'
BY DEF Accounting, HostsAccounted, DomainsAccounted, WriterDrained, ProcessorDrained,
       processing, writing

\* Steps of readers and snapshot goroutines.
LEMMA AccountingReaders ==
  ASSUME Typed, Closing, Accounting, NEW i \in Instances, Reader(i) \/ Snapshot(i)
  PROVE  Accounting'
<1> USE DEF queues
<1>1. CASE Submit(i)
  <2>1. offered[i] \in Hosts /\ ~candidatesClosed
    BY <1>1 DEF Submit, ReaderStep, Typed, HandsFull, Closing
  <2> QED
    BY <1>1, <2>1, AccountingEnqueue DEF Submit
<1>2. CASE SnapshotSubmits(i)
  <2>1. snapOffered[i] \in Hosts /\ ~candidatesClosed
    BY <1>2 DEF SnapshotSubmits, SnapshotStep, Typed, HandsFull, Closing
  <2> QED
    BY <1>2, <2>1, AccountingEnqueue DEF SnapshotSubmits
<1>3. CASE ~Submit(i) /\ ~SnapshotSubmits(i)
  <2>1. UNCHANGED <<queues, processing, writes, writing, failed>>
    BY <1>3 DEF Reader, Connect, Disconnect, Reconnect, StopWaiting, ReadLine,
                SubmitCancelled, Leave, Snapshot, SnapshotOffers, SnapshotEnds
  <2> QED
    BY <2>1, AccountingIdle
<1> QED
  BY <1>1, <1>2, <1>3

\* Steps of the processor.
LEMMA AccountingProcessor ==
  ASSUME Typed, Accounting, Processor
  PROVE  Accounting'
<1> USE DEF Accounting, HostsAccounted, DomainsAccounted, WriterDrained,
            ProcessorDrained, writing
<1>1. CASE Receive
  <2>1. candidates \in Seq(Hosts) /\ candidates # <<>>
    BY <1>1 DEF Receive, Typed, TypeOK
  <2>2. \A y : Holds(candidates, y) => y = Head(candidates) \/ Holds(candidates', y)
    BY <1>1, <2>1, ReceiveProperties DEF Receive
  <2>3. /\ seen \subseteq seen'
        /\ Project[Head(candidates)] \in seen' \cup {NoDomain}
        /\ \A domain \in seen' \ seen : processor' = "sending" /\ accepted' = domain
        /\ processor = "receiving" /\ processor' # "done"
        /\ UNCHANGED <<submitted, writes, writer, buffered, saved, failed>>
    BY <1>1 DEF Receive
  <2>4. HostsAccounted'
    BY <2>2, <2>3
  <2>5. DomainsAccounted'
    BY <2>3
  <2> QED
    BY <2>3, <2>4, <2>5
<1>2. CASE IndexFails
  <2>1. /\ processor = "receiving" /\ "processor" \in failed'
        /\ failed' = failed \cup {"processor"}
        /\ UNCHANGED <<seen, writes, writer, buffered, saved>>
    BY <1>2 DEF IndexFails
  <2> QED
    BY <2>1
<1>3. CASE HandOver
  <2>1. /\ processor = "sending" /\ processor' = "receiving"
        /\ accepted \in Domains /\ writes \in Seq(Domains)
        /\ writes' = Append(writes, accepted)
        /\ UNCHANGED <<seen, candidates, submitted, writer, buffered, saved, failed>>
    BY <1>3 DEF HandOver, queues, Typed, TypeOK, HandsFull
  <2>2. \A y : Holds(writes, y) \/ y = accepted => Holds(writes', y)
    BY <2>1, SendProperties
  <2> QED
    BY <2>1, <2>2
<1>4. CASE GiveUp
  <2>1. /\ processor = "sending" /\ writer = "done"
        /\ UNCHANGED <<seen, candidates, submitted, writer, failed>>
    BY <1>4 DEF GiveUp, queues
  <2>2. "writer" \in failed
    BY <2>1
  <2> QED
    BY <2>1, <2>2
<1>5. CASE Finish
  <2>1. /\ processor = "receiving" /\ candidatesClosed /\ candidates = <<>>
        /\ UNCHANGED <<seen, candidates, candidatesClosed, submitted, writes, writer,
                       buffered, saved, failed>>
    BY <1>5 DEF Finish, queues
  <2> QED
    BY <2>1
<1> QED
  BY <1>1, <1>2, <1>3, <1>4, <1>5 DEF Processor

\* Steps of the writer.
LEMMA AccountingWriter ==
  ASSUME Typed, Accounting, Writer
  PROVE  Accounting'
<1> USE DEF Accounting, HostsAccounted, DomainsAccounted, WriterDrained,
            ProcessorDrained, queues, processing
<1>1. CASE WriteOne
  <2>1. writes \in Seq(Domains) /\ writes # <<>>
    BY <1>1 DEF WriteOne, Typed, TypeOK
  <2>2. \A y : Holds(writes, y) => y = Head(writes) \/ Holds(writes', y)
    BY <1>1, <2>1, ReceiveProperties DEF WriteOne
  <2> QED
    BY <1>1, <2>2 DEF WriteOne
<1>2. CASE Sync
  BY <1>2 DEF Sync
<1>3. CASE WriterFinishes
  BY <1>3 DEF WriterFinishes
<1>4. CASE WriterFails
  BY <1>4 DEF WriterFails
<1> QED
  BY <1>1, <1>2, <1>3, <1>4 DEF Writer

\* Steps of the sender and of Run, and the signal.
LEMMA AccountingOthers ==
  ASSUME Accounting, Sender \/ Main \/ RequestShutdown \/ UNCHANGED vars
  PROVE  Accounting'
<1>1. /\ UNCHANGED <<candidates, submitted, processing, writes, writing>>
      /\ candidatesClosed => candidatesClosed'
      /\ failed' \in {failed, failed \cup {"sender"}}
  BY DEF Sender, SenderStops, SenderFails, Main, SelectShutdown, SelectResult,
         ReadersJoined, ProcessorJoined, Collect, Return, RequestShutdown, vars,
         queues, processing, writing
<1> QED
  BY <1>1, AccountingIdle

\* Accounting always holds.
LEMMA AccountingAlways == Spec => []Accounting
<1>1. Init => Accounting
  BY DEF Init, Accounting, HostsAccounted, DomainsAccounted, WriterDrained,
         ProcessorDrained
<1>2. Typed /\ Closing /\ Accounting /\ [Next]_vars => Accounting'
  BY AccountingReaders, AccountingProcessor, AccountingWriter, AccountingOthers
     DEF Next, Terminated
<1> QED
  BY <1>1, <1>2, TypedAlways, ClosingAlways, PTL DEF Spec

\* When Run returns and neither the writer nor the index failed, every host that
\* was submitted is saved or has no projection (docs/design-contract.md:36-37).
THEOREM NothingLeftBehind == Spec => []Drained
<1>1. Reporting /\ Accounting => Drained
  <2> SUFFICES ASSUME Reporting, Accounting, main = "returned",
                      failed \cap {"processor", "writer"} = {},
                      NEW host \in submitted
               PROVE  Project[host] \in saved \cup {NoDomain}
    BY DEF Drained
  <2>1. processor = "done" /\ writer = "done"
    BY DEF Reporting, Workers, Ended
  <2>2. candidates = <<>> /\ writes = <<>> /\ buffered = {}
    BY <2>1 DEF Accounting, WriterDrained, ProcessorDrained
  <2>3. Project[host] \in seen \cup {NoDomain}
    BY <2>2, EmptyHolds DEF Accounting, HostsAccounted
  <2>4. seen \subseteq saved
    BY <2>1, <2>2, EmptyHolds DEF Accounting, DomainsAccounted
  <2> QED
    BY <2>3, <2>4
<1> QED
  BY <1>1, ReportingAlways, AccountingAlways, PTL
=============================================================================
