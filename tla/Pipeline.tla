------------------------------ MODULE Pipeline ------------------------------
(***************************************************************************)
(* The goroutines of one client process and the way they end (Run and      *)
(* runInstance of internal/client/app.go): per controller a reader and at  *)
(* most one snapshot goroutine, the processor with the deduplication set,  *)
(* the writer, the Rule-Bot sender, and Run itself, which waits for the    *)
(* first of them to end or for a shutdown and then takes the pipeline down *)
(* in order.                                                               *)
(*                                                                         *)
(* A goroutine that ends and the result it leaves in a channel of capacity *)
(* one are one step: nobody can see the one without the other.             *)
(***************************************************************************)
EXTENDS Integers, SequencesExt

CONSTANTS
  Instances,       \* the controllers there are
  Configurations,  \* which of them are configured, and as a bound how many hosts
                   \* they report: records [instances, lines]
  Hosts,           \* what controllers report
  Domains,         \* what is stored for them
  NoDomain,        \* a host with no projection, and the absence of a host
  Project,         \* projectDomain: a domain or NoDomain
  CandidateQueue,  \* candidateQueueSize
  WriteQueue,      \* writeQueueSize
  MayFail          \* the goroutines that may end with an error

ASSUME PipelineAssumption ==
  /\ Configurations \subseteq [instances : SUBSET Instances, lines : Nat]
  /\ NoDomain \notin Domains \cup Hosts
  /\ Project \in [Hosts -> Domains \cup {NoDomain}]
  /\ CandidateQueue \in Nat \ {0}
  /\ WriteQueue \in Nat \ {0}
  /\ MayFail \subseteq {"processor", "writer", "sender"}

VARIABLES
  shutdown,         \* ctx is done: a signal has arrived
  cancelled,        \* runCtx is done
  reader,           \* where the reader of each controller stands
  offered,          \* the host a reader is submitting
  snapshot,         \* the snapshot goroutine of each controller
  snapOffered,      \* the host it is submitting
  candidates,       \* the channel to the processor
  candidatesClosed,
  processor,        \* "receiving", "sending", "done"
  accepted,         \* the domain the processor is handing to the writer
  seen,             \* the deduplication set
  writes,           \* the channel to the writer
  writer,           \* "running", "done"
  buffered,         \* domains written and not yet synchronized
  saved,            \* domains in the synchronized output
  sender,           \* "running", "done"
  main,             \* where Run stands
  consumed,         \* the goroutines whose result Run has received
  fatal,            \* the goroutine whose error Run will return
  failed,           \* history: the goroutines that ended with an error
  submitted,        \* history: the hosts that entered the channel
  lines             \* bound: how many hosts are still reported

readers == <<reader, offered, snapshot, snapOffered, lines>>
queues == <<candidates, candidatesClosed, submitted>>
processing == <<processor, accepted, seen>>
writing == <<writer, buffered, saved>>
ending == <<shutdown, cancelled, main, consumed, fatal>>
vars == <<readers, queues, processing, writes, writing, sender, ending, failed>>

Workers == {"processor", "writer", "sender"}
NoError == "none"

Init ==
  /\ shutdown = FALSE
  /\ cancelled = FALSE
  /\ \E c \in Configurations :
       /\ reader = [i \in Instances |-> IF i \in c.instances THEN "connecting" ELSE "done"]
       /\ lines = c.lines
  /\ offered = [i \in Instances |-> NoDomain]
  /\ snapshot = [i \in Instances |-> "none"]
  /\ snapOffered = [i \in Instances |-> NoDomain]
  /\ candidates = <<>>
  /\ candidatesClosed = FALSE
  /\ processor = "receiving"
  /\ accepted = NoDomain
  /\ seen = {}
  /\ writes = <<>>
  /\ writer = "running"
  /\ buffered = {}
  /\ saved = {}
  /\ sender = "running"
  /\ main = "selecting"
  /\ consumed = {}
  /\ fatal = NoError
  /\ failed = {}
  /\ submitted = {}

----------------------------------------------------------------------------
(* runInstance: the reader of one controller *)

ReaderStep(i, from, to) == reader[i] = from /\ reader' = [reader EXCEPT ![i] = to]

\* The stream opens; a snapshot is started if the slot is free.
Connect(i) ==
  /\ ReaderStep(i, "connecting", "streaming")
  /\ snapshot' = IF snapshot[i] = "none" THEN [snapshot EXCEPT ![i] = "fetching"]
                 ELSE snapshot
  /\ UNCHANGED <<offered, snapOffered, lines, queues, processing, writes, writing,
                 sender, ending, failed>>

\* The connection or the stream fails, or is torn down with the context.
Disconnect(i) ==
  /\ reader[i] \in {"connecting", "streaming"}
  /\ reader' = [reader EXCEPT ![i] = IF cancelled THEN "leaving" ELSE "waiting"]
  /\ UNCHANGED <<offered, snapshot, snapOffered, lines, queues, processing, writes,
                 writing, sender, ending, failed>>

\* The backoff elapses, or the context ends it.
Reconnect(i) ==
  /\ ReaderStep(i, "waiting", "connecting")
  /\ UNCHANGED <<offered, snapshot, snapOffered, lines, queues, processing, writes,
                 writing, sender, ending, failed>>

StopWaiting(i) ==
  /\ cancelled
  /\ ReaderStep(i, "waiting", "leaving")
  /\ UNCHANGED <<offered, snapshot, snapOffered, lines, queues, processing, writes,
                 writing, sender, ending, failed>>

ReadLine(i, host) ==
  /\ lines > 0
  /\ lines' = lines - 1
  /\ ReaderStep(i, "streaming", "submitting")
  /\ offered' = [offered EXCEPT ![i] = host]
  /\ UNCHANGED <<snapshot, snapOffered, queues, processing, writes, writing, sender,
                 ending, failed>>

\* A send on the channel.  Faulty variants: the channel has no bound; a host
\* that finds it full is dropped.
EnqueueUnbounded(host) ==
  /\ candidates' = Append(candidates, host)
  /\ submitted' = submitted \cup {host}
  /\ UNCHANGED candidatesClosed
EnqueueOrDrop(host) ==
  /\ candidates' = IF Len(candidates) < CandidateQueue THEN Append(candidates, host)
                   ELSE candidates
  /\ submitted' = submitted \cup {host}
  /\ UNCHANGED candidatesClosed
Enqueue(host) ==
  /\ Len(candidates) < CandidateQueue
  /\ candidates' = Append(candidates, host)
  /\ submitted' = submitted \cup {host}
  /\ UNCHANGED candidatesClosed

Submit(i) ==
  /\ ReaderStep(i, "submitting", "streaming")
  /\ Enqueue(offered[i])
  /\ offered' = [offered EXCEPT ![i] = NoDomain]
  /\ UNCHANGED <<snapshot, snapOffered, lines, processing, writes, writing, sender,
                 ending, failed>>

\* submit returns false only when the context is done: the reader ends.
\* Faulty variant: the select of submit has no case for the context.
NeverCancelled(i) ==
  /\ FALSE
  /\ UNCHANGED vars
SubmitCancelled(i) ==
  /\ cancelled
  /\ ReaderStep(i, "submitting", "leaving")
  /\ offered' = [offered EXCEPT ![i] = NoDomain]
  /\ UNCHANGED <<snapshot, snapOffered, lines, queues, processing, writes, writing,
                 sender, ending, failed>>

\* The reader ends after its snapshot.  Faulty variant: it does not wait.
LeaveAtOnce(i) ==
  /\ ReaderStep(i, "leaving", "done")
  /\ UNCHANGED <<offered, snapshot, snapOffered, lines, queues, processing, writes,
                 writing, sender, ending, failed>>
Leave(i) ==
  /\ snapshot[i] = "none"
  /\ ReaderStep(i, "leaving", "done")
  /\ UNCHANGED <<offered, snapshot, snapOffered, lines, queues, processing, writes,
                 writing, sender, ending, failed>>

(* The snapshot goroutine.  Its time limit ends the request but not a submit. *)

SnapshotStep(i, from, to) ==
  snapshot[i] = from /\ snapshot' = [snapshot EXCEPT ![i] = to]

SnapshotOffers(i, host) ==
  /\ lines > 0
  /\ lines' = lines - 1
  /\ SnapshotStep(i, "fetching", "submitting")
  /\ snapOffered' = [snapOffered EXCEPT ![i] = host]
  /\ UNCHANGED <<reader, offered, queues, processing, writes, writing, sender, ending,
                 failed>>

SnapshotSubmits(i) ==
  /\ SnapshotStep(i, "submitting", "fetching")
  /\ Enqueue(snapOffered[i])
  /\ snapOffered' = [snapOffered EXCEPT ![i] = NoDomain]
  /\ UNCHANGED <<reader, offered, lines, processing, writes, writing, sender, ending,
                 failed>>

\* All hosts are submitted, the request failed, or the context is done.
SnapshotEnds(i) ==
  /\ snapshot[i] = "fetching" \/ (cancelled /\ snapshot[i] = "submitting")
  /\ snapshot' = [snapshot EXCEPT ![i] = "none"]
  /\ snapOffered' = [snapOffered EXCEPT ![i] = NoDomain]
  /\ UNCHANGED <<reader, offered, lines, queues, processing, writes, writing, sender,
                 ending, failed>>

----------------------------------------------------------------------------
(* The processor *)

ProcessorEnds ==
  /\ processor' = "done"
  /\ accepted' = NoDomain

\* A candidate without projection or seen before is passed over.
Receive ==
  /\ processor = "receiving"
  /\ candidates # <<>>
  /\ candidates' = Tail(candidates)
  /\ LET domain == Project[Head(candidates)]
         isNew == domain # NoDomain /\ domain \notin seen
     IN  /\ processor' = IF isNew THEN "sending" ELSE "receiving"
         /\ accepted' = IF isNew THEN domain ELSE NoDomain
         /\ seen' = IF isNew THEN seen \cup {domain} ELSE seen
  /\ UNCHANGED <<candidatesClosed, submitted, readers, writes, writing, sender, ending,
                 failed>>

\* seen.Add fails (the cache on disk): the candidate is lost with the error.
IndexFails ==
  /\ "processor" \in MayFail
  /\ processor = "receiving"
  /\ candidates # <<>>
  /\ Project[Head(candidates)] # NoDomain
  /\ candidates' = Tail(candidates)
  /\ ProcessorEnds
  /\ failed' = failed \cup {"processor"}
  /\ UNCHANGED <<candidatesClosed, submitted, seen, readers, writes, writing, sender,
                 ending>>

HandOver ==
  /\ processor = "sending"
  /\ Len(writes) < WriteQueue
  /\ writes' = Append(writes, accepted)
  /\ processor' = "receiving"
  /\ accepted' = NoDomain
  /\ UNCHANGED <<seen, readers, queues, writing, sender, ending, failed>>

\* writerDone: the writer has ended, nobody will receive.
GiveUp ==
  /\ processor = "sending"
  /\ writer = "done"
  /\ ProcessorEnds
  /\ UNCHANGED <<seen, readers, queues, writes, writing, sender, ending, failed>>

\* The candidates are closed and drained.  Faulty variant: not drained.
FinishUndrained ==
  /\ processor = "receiving"
  /\ cancelled
  /\ ProcessorEnds
  /\ UNCHANGED <<seen, readers, queues, writes, writing, sender, ending, failed>>
Finish ==
  /\ processor = "receiving"
  /\ candidatesClosed
  /\ candidates = <<>>
  /\ ProcessorEnds
  /\ UNCHANGED <<seen, readers, queues, writes, writing, sender, ending, failed>>

(* The writer.  The processor closes its channel when it ends. *)

WriteOne ==
  /\ writer = "running"
  /\ writes # <<>>
  /\ writes' = Tail(writes)
  /\ buffered' = buffered \cup {Head(writes)}
  /\ UNCHANGED <<writer, saved, readers, queues, processing, sender, ending, failed>>

Sync ==
  /\ writer = "running"
  /\ buffered # {}
  /\ buffered' = {}
  /\ saved' = saved \cup buffered
  /\ UNCHANGED <<writer, writes, readers, queues, processing, sender, ending, failed>>

WriterFinishes ==
  /\ writer = "running"
  /\ processor = "done"
  /\ writes = <<>>
  /\ writer' = "done"
  /\ buffered' = {}
  /\ saved' = saved \cup buffered
  /\ UNCHANGED <<writes, readers, queues, processing, sender, ending, failed>>

\* A write or an fsync fails, or the storage reserve is reached.
WriterFails ==
  /\ "writer" \in MayFail
  /\ writer = "running"
  /\ writes # <<>> \/ buffered # {}
  /\ writer' = "done"
  /\ failed' = failed \cup {"writer"}
  /\ UNCHANGED <<buffered, saved, writes, readers, queues, processing, sender, ending>>

(* The Rule-Bot sender, as Run sees it *)

SenderStops ==
  /\ sender = "running"
  /\ cancelled
  /\ sender' = "done"
  /\ UNCHANGED <<readers, queues, processing, writes, writing, ending, failed>>

SenderFails ==
  /\ "sender" \in MayFail
  /\ sender = "running"
  /\ sender' = "done"
  /\ failed' = failed \cup {"sender"}
  /\ UNCHANGED <<readers, queues, processing, writes, writing, ending>>

----------------------------------------------------------------------------
(* Run *)

Ended(g) ==
  CASE g = "processor" -> processor = "done"
    [] g = "writer" -> writer = "done"
    [] g = "sender" -> sender = "done"

\* A signal; runCtx is derived from ctx.
RequestShutdown ==
  /\ ~shutdown
  /\ main # "returned"
  /\ shutdown' = TRUE
  /\ cancelled' = TRUE
  /\ UNCHANGED <<main, consumed, fatal, readers, queues, processing, writes, writing,
                 sender, failed>>

\* The select takes any of the events that are ready.
SelectShutdown ==
  /\ main = "selecting"
  /\ shutdown
  /\ main' = "readers"
  /\ UNCHANGED <<shutdown, cancelled, consumed, fatal, readers, queues, processing,
                 writes, writing, sender, failed>>

SelectResult(g) ==
  /\ main = "selecting"
  /\ Ended(g)
  /\ main' = "readers"
  /\ cancelled' = TRUE
  /\ consumed' = {g}
  /\ fatal' = IF g \in failed THEN g ELSE NoError
  /\ UNCHANGED <<shutdown, readers, queues, processing, writes, writing, sender,
                 failed>>

ReadersJoined ==
  /\ main = "readers"
  /\ \A i \in Instances : reader[i] = "done"
  /\ candidatesClosed' = TRUE
  /\ main' = "processor"
  /\ UNCHANGED <<shutdown, cancelled, consumed, fatal, candidates, submitted, readers,
                 processing, writes, writing, sender, failed>>

ProcessorJoined ==
  /\ main = "processor"
  /\ processor = "done"
  /\ main' = "collecting"
  /\ UNCHANGED <<shutdown, cancelled, consumed, fatal, readers, queues, processing,
                 writes, writing, sender, failed>>

\* The goroutines whose results are received before that of g.
Before(g) ==
  CASE g = "processor" -> {}
    [] g = "writer" -> {"processor"}
    [] g = "sender" -> {"processor", "writer"}

Collect ==
  /\ main = "collecting"
  /\ \E g \in Workers \ consumed :
       /\ Before(g) \subseteq consumed
       /\ Ended(g)
       /\ consumed' = consumed \cup {g}
       /\ fatal' = IF fatal = NoError /\ g \in failed THEN g ELSE fatal
  /\ UNCHANGED <<shutdown, cancelled, main, readers, queues, processing, writes,
                 writing, sender, failed>>

\* The results Run waits for.  Faulty variant: not for the writer's.
AwaitedButWriter == Workers \ {"writer"}
Awaited == Workers

Return ==
  /\ main = "collecting"
  /\ Awaited \subseteq consumed
  /\ main' = "returned"
  /\ UNCHANGED <<shutdown, cancelled, consumed, fatal, readers, queues, processing,
                 writes, writing, sender, failed>>

\* The process has ended: not a deadlock.
Terminated == main = "returned" /\ UNCHANGED vars

----------------------------------------------------------------------------
Reader(i) ==
  \/ Connect(i) \/ Disconnect(i) \/ Reconnect(i) \/ StopWaiting(i)
  \/ \E host \in Hosts : ReadLine(i, host)
  \/ Submit(i) \/ SubmitCancelled(i) \/ Leave(i)

Snapshot(i) ==
  \/ \E host \in Hosts : SnapshotOffers(i, host)
  \/ SnapshotSubmits(i) \/ SnapshotEnds(i)

Processor == Receive \/ IndexFails \/ HandOver \/ GiveUp \/ Finish
Writer == WriteOne \/ Sync \/ WriterFinishes \/ WriterFails
Sender == SenderStops \/ SenderFails

Main ==
  \/ SelectShutdown
  \/ \E g \in Workers : SelectResult(g)
  \/ ReadersJoined \/ ProcessorJoined \/ Collect \/ Return

Next ==
  \/ \E i \in Instances : Reader(i) \/ Snapshot(i)
  \/ Processor \/ Writer \/ Sender \/ Main
  \/ RequestShutdown
  \/ Terminated

Spec == Init /\ [][Next]_vars

\* What a reader does without waiting for a controller: a connection attempt
\* and a backoff end, and so does a blocking read once the context is done.
ReaderGoesOn(i) ==
  \/ Connect(i) \/ Reconnect(i) \/ StopWaiting(i)
  \/ (reader[i] = "connecting" \/ cancelled) /\ Disconnect(i)
  \/ Submit(i) \/ SubmitCancelled(i) \/ Leave(i)

\* Every goroutine that can go on does so, and the writer's ticker fires.
\* Nothing makes a controller report, a stream break, a worker fail or a signal
\* arrive.
FairSpec ==
  /\ Spec
  /\ \A i \in Instances :
       /\ WF_vars(ReaderGoesOn(i))
       /\ WF_vars(SnapshotSubmits(i) \/ SnapshotEnds(i))
  /\ WF_vars(Processor)
  /\ WF_vars(WriteOne \/ WriterFinishes)
  /\ WF_vars(Sync)
  /\ WF_vars(SenderStops)
  /\ WF_vars(Main)

----------------------------------------------------------------------------
(* Properties *)

TypeOK ==
  /\ shutdown \in BOOLEAN
  /\ cancelled \in BOOLEAN
  /\ shutdown => cancelled
  /\ reader \in [Instances -> {"connecting", "streaming", "submitting", "waiting",
                               "leaving", "done"}]
  /\ offered \in [Instances -> Hosts \cup {NoDomain}]
  /\ snapshot \in [Instances -> {"none", "fetching", "submitting"}]
  /\ snapOffered \in [Instances -> Hosts \cup {NoDomain}]
  /\ candidates \in Seq(Hosts)
  /\ Len(candidates) <= CandidateQueue
  /\ candidatesClosed \in BOOLEAN
  /\ processor \in {"receiving", "sending", "done"}
  /\ accepted \in Domains \cup {NoDomain}
  /\ seen \in SUBSET Domains
  /\ writes \in Seq(Domains)
  /\ Len(writes) <= WriteQueue
  /\ writer \in {"running", "done"}
  /\ buffered \in SUBSET Domains
  /\ saved \in SUBSET Domains
  /\ sender \in {"running", "done"}
  /\ main \in {"selecting", "readers", "processor", "collecting", "returned"}
  /\ consumed \in SUBSET Workers
  /\ fatal \in Workers \cup {NoError}
  /\ failed \in SUBSET MayFail
  /\ submitted \in SUBSET Hosts
  /\ lines \in Nat

\* Nobody is left who could send on the candidate channel once it is closed,
\* which would panic: the snapshots of an earlier connection included.
NoSendOnClosed ==
  candidatesClosed =>
    \A i \in Instances : reader[i] = "done" /\ snapshot[i] = "none"

\* docs/design-contract.md:36-37: when Run returns, every candidate that was
\* submitted is in the synchronized output, unless the output or its index
\* failed.  A failure of the sender or of a controller costs no domain.
Drained ==
  main = "returned" /\ failed \cap {"processor", "writer"} = {} =>
    \A host \in submitted : Project[host] \in saved \cup {NoDomain}

\* docs/design-contract.md:27, output failures are fatal: Run returns an error
\* exactly when some goroutine failed, whichever result the select took first
\* and although the processor ends without an error when the writer fails.
ErrorReported ==
  main = "returned" => (fatal = NoError <=> failed = {}) /\ fatal \in failed \cup {NoError}

\* A signal, or the failure of any goroutine, ends the process: no goroutine
\* waits for ever on a full queue whose receiver has gone, be it the processor
\* before the writer's queue or a reader and a snapshot before the candidates'.
EventuallyReturns == (shutdown \/ failed # {}) ~> main = "returned"

\* A domain that a reader has in hand is saved, unless the process is asked to
\* end or fails; the trouble of another instance, a snapshot that blocks and
\* full queues do not change that (docs/design-contract.md:27-28).
InHand(domain) ==
  \E i \in Instances : reader[i] = "submitting" /\ Project[offered[i]] = domain

EventuallySaved ==
  \A domain \in Domains :
    InHand(domain) ~> domain \in saved \/ cancelled \/ failed # {}
=============================================================================
