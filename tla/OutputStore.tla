---------------------------- MODULE OutputStore ----------------------------
(***************************************************************************)
(* The output store of internal/client/writer.go, with the processor that  *)
(* feeds it (the goroutine in app.go:126-151): an append-only file of one  *)
(* domain per line, a user-space buffer in front of it, an fsync at every  *)
(* tick, and the set of domains seen, rebuilt from the file at each start. *)
(*                                                                         *)
(* The file is a sequence of complete lines plus, after a crash, possibly  *)
(* a tail without its newline.  What is written survives the death of the  *)
(* process; only what was synchronized is certain to survive a power loss, *)
(* of the rest any prefix may remain.                                      *)
(***************************************************************************)
EXTENDS Integers, SequencesExt

CONSTANTS
  Hosts,        \* the domains, captured ones and what torn lines may read as
  Capturable,   \* the domains the controllers report
  Invalid,      \* a tail that is not a domain
  NoTail,       \* the file ends with a newline, or is empty
  Torn,         \* what a line reads as when its end is missing
  WriteQueue,   \* capacity of the channel to the writer (writeQueueSize)
  BufferLines,  \* lines the user-space buffer holds (outputBufferSize)
  CrashKinds,   \* the crashes considered: "kill", "power"
  MaxLines,     \* bound: lines ever captured
  MaxCrashes    \* bound: crashes

ASSUME StoreAssumption ==
  /\ Capturable \subseteq Hosts
  /\ Invalid \notin Hosts
  /\ NoTail \notin Hosts \cup {Invalid}
  /\ Torn \in [Hosts -> SUBSET (Hosts \cup {Invalid})]
  /\ WriteQueue \in Nat \ {0}
  /\ BufferLines \in Nat \ {0}
  /\ CrashKinds \subseteq {"kill", "power"}
  /\ MaxLines \in Nat
  /\ MaxCrashes \in Nat

VARIABLES
  file,      \* the complete lines of the output file
  tail,      \* the unfinished last line, found at the next start
  synced,    \* how many lines are certain to survive a power loss
  store,     \* "down", "repairing", "running", "flushed"
  seen,      \* the deduplication set
  writes,    \* the channel from the processor to the writer
  closing,   \* the processor has closed the channel
  buffer,    \* the lines in the user-space buffer
  torn,      \* part of the first of them is in the file already
  dirty,     \* s.dirty
  durable,   \* s.durable, in lines
  crashes    \* number of crashes so far

storeMemory == <<seen, writes, closing, buffer, torn, dirty, durable>>
storeVars == <<file, tail, synced, store, storeMemory, crashes>>

\* Every line on its way into the file.
InFlight == buffer \o writes

----------------------------------------------------------------------------
StoreInit ==
  /\ file = <<>>
  /\ tail = NoTail
  /\ synced = 0
  /\ store = "down"
  /\ seen = {}
  /\ writes = <<>>
  /\ closing = FALSE
  /\ buffer = <<>>
  /\ torn = FALSE
  /\ dirty = FALSE
  /\ durable = 0
  /\ crashes = 0

(* openOutput and loadExistingDomains *)

\* Faulty variant: the deduplication set is not rebuilt.
OpenUnindexed ==
  /\ store = "down"
  /\ tail = NoTail
  /\ store' = "running"
  /\ seen' = {}
  /\ durable' = Len(file)
  /\ UNCHANGED <<file, tail, synced, writes, closing, buffer, torn, dirty, crashes>>

\* The file is complete: its size becomes the durable size, without an fsync.
OpenClean ==
  /\ store = "down"
  /\ tail = NoTail
  /\ store' = "running"
  /\ seen' = ToSet(file)
  /\ durable' = Len(file)
  /\ UNCHANGED <<file, tail, synced, writes, closing, buffer, torn, dirty, crashes>>

\* Faulty variant: the repaired line is missing from the deduplication set.
RepairUnindexed ==
  /\ store = "down"
  /\ tail \in Hosts
  /\ file' = Append(file, tail)
  /\ tail' = NoTail
  /\ seen' = ToSet(file)
  /\ store' = "repairing"
  /\ UNCHANGED <<synced, writes, closing, buffer, torn, dirty, durable, crashes>>

\* The last line has no newline but reads as a domain: the newline is added.
OpenRepair ==
  /\ store = "down"
  /\ tail \in Hosts
  /\ file' = Append(file, tail)
  /\ tail' = NoTail
  /\ seen' = ToSet(file')
  /\ store' = "repairing"
  /\ UNCHANGED <<synced, writes, closing, buffer, torn, dirty, durable, crashes>>

\* Faulty variant: the repair is not synchronized.
RepairUnsynced ==
  /\ store = "repairing"
  /\ durable' = Len(file)
  /\ store' = "running"
  /\ UNCHANGED <<file, tail, synced, seen, writes, closing, buffer, torn, dirty, crashes>>

\* The added newline is synchronized before the size becomes durable.
RepairSynced ==
  /\ store = "repairing"
  /\ synced' = Len(file)
  /\ durable' = Len(file)
  /\ store' = "running"
  /\ UNCHANGED <<file, tail, seen, writes, closing, buffer, torn, dirty, crashes>>

(* The processor goroutine *)

Accept(domain) ==
  /\ store \in {"running", "flushed"}
  /\ ~closing
  /\ domain \notin seen
  /\ Len(writes) < WriteQueue
  /\ Len(file) + Len(InFlight) < MaxLines
  /\ seen' = seen \cup {domain}
  /\ writes' = Append(writes, domain)
  /\ UNCHANGED <<file, tail, synced, store, closing, buffer, torn, dirty, durable, crashes>>

\* Shutdown: the readers have stopped and the candidates are drained.
CloseWrites ==
  /\ store \in {"running", "flushed"}
  /\ ~closing
  /\ closing' = TRUE
  /\ UNCHANGED <<file, tail, synced, store, seen, writes, buffer, torn, dirty,
                 durable, crashes>>

(* The writer goroutine, outputStore.Run *)

\* Faulty variant: the durable size is counted as the lines are accepted, and so
\* includes the ones that are still in the buffer.
WriteLineCounted ==
  /\ store = "running"
  /\ writes # <<>>
  /\ writes' = Tail(writes)
  /\ dirty' = TRUE
  /\ durable' = Len(file) + Len(buffer) + 1
  /\ IF Len(buffer) < BufferLines
     THEN /\ buffer' = Append(buffer, Head(writes))
          /\ UNCHANGED <<file, torn>>
     ELSE /\ file' = file \o buffer
          /\ buffer' = <<Head(writes)>>
          /\ torn' \in BOOLEAN
  /\ UNCHANGED <<tail, synced, store, seen, closing, crashes>>

\* A line goes into the buffer.  A buffer without room for it is first written
\* out; unless it was filled to the byte, the line is then split in two.
WriteLine ==
  /\ store = "running"
  /\ writes # <<>>
  /\ writes' = Tail(writes)
  /\ dirty' = TRUE
  /\ IF Len(buffer) < BufferLines
     THEN /\ buffer' = Append(buffer, Head(writes))
          /\ UNCHANGED <<file, torn>>
     ELSE /\ file' = file \o buffer
          /\ buffer' = <<Head(writes)>>
          /\ torn' \in BOOLEAN
  /\ UNCHANGED <<tail, synced, store, seen, closing, durable, crashes>>

\* Faulty variant: the size becomes durable before the fsync.
FlushPublishes ==
  /\ store = "running"
  /\ dirty
  /\ file' = file \o buffer
  /\ buffer' = <<>>
  /\ torn' = FALSE
  /\ durable' = Len(file')
  /\ store' = "flushed"
  /\ UNCHANGED <<tail, synced, seen, writes, closing, dirty, crashes>>

\* flushAndSync, at a tick of the flush interval or when the channel is closed.
Flush ==
  /\ store = "running"
  /\ dirty
  /\ file' = file \o buffer
  /\ buffer' = <<>>
  /\ torn' = FALSE
  /\ store' = "flushed"
  /\ UNCHANGED <<tail, synced, seen, writes, closing, dirty, durable, crashes>>

\* The fsync returns: the size of the file becomes the durable size.
FlushSynced ==
  /\ store = "flushed"
  /\ synced' = Len(file)
  /\ durable' = Len(file)
  /\ dirty' = FALSE
  /\ store' = "running"
  /\ UNCHANGED <<file, tail, seen, writes, closing, buffer, torn, crashes>>

ForgetStore ==
  /\ store' = "down"
  /\ seen' = {}
  /\ writes' = <<>>
  /\ closing' = FALSE
  /\ buffer' = <<>>
  /\ torn' = FALSE
  /\ dirty' = FALSE
  /\ durable' = 0

\* The channel is closed and drained, and the last flushAndSync is done.
Exit ==
  /\ store = "running"
  /\ closing
  /\ writes = <<>>
  /\ ~dirty
  /\ ForgetStore
  /\ UNCHANGED <<file, tail, synced, crashes>>

(* Failures *)

Crash(kind) ==
  /\ kind \in CrashKinds
  /\ crashes < MaxCrashes
  /\ crashes' = crashes + 1
  /\ ForgetStore

\* What an unfinished last line may read as after a crash.
Unfinished == IF torn THEN Torn[Head(buffer)]
              ELSE IF tail \in Hosts THEN {tail} \cup Torn[tail] ELSE {tail}

Kill ==
  /\ store # "down"
  /\ Crash("kill")
  /\ tail' \in Unfinished
  /\ UNCHANGED <<file, synced>>

\* A write fails half way (disk full): Run returns the error, the client exits.
WriteError ==
  /\ store = "running"
  /\ dirty
  /\ Crash("kill")
  /\ \E n \in 0..(Len(buffer) - 1) :
       /\ file' = file \o SubSeq(buffer, 1, n)
       /\ tail' \in Torn[buffer[n + 1]] \cup IF torn /\ n = 0 THEN {} ELSE {NoTail}
  /\ UNCHANGED synced

\* Lines after the synchronized ones may be gone, the first of them cut short.
PowerOff ==
  /\ Crash("power")
  /\ \E n \in synced..Len(file) :
       /\ file' = SubSeq(file, 1, n)
       /\ synced' = n
       /\ tail' \in {NoTail} \cup
                    IF n < Len(file) THEN Torn[file[n + 1]] ELSE Unfinished

StoreNext ==
  \/ OpenClean \/ OpenRepair \/ RepairSynced
  \/ \E domain \in Capturable : Accept(domain)
  \/ CloseWrites
  \/ WriteLine \/ Flush \/ FlushSynced \/ Exit
  \/ Kill \/ WriteError \/ PowerOff

StoreSpec == StoreInit /\ [][StoreNext]_storeVars

----------------------------------------------------------------------------
(* Properties *)

StoreTypeOK ==
  /\ file \in Seq(Hosts)
  /\ tail \in Hosts \cup {Invalid, NoTail}
  /\ synced \in 0..Len(file)
  /\ store \in {"down", "repairing", "running", "flushed"}
  /\ seen \in SUBSET Hosts
  /\ writes \in Seq(Hosts)
  /\ Len(writes) <= WriteQueue
  /\ closing \in BOOLEAN
  /\ buffer \in Seq(Hosts)
  /\ Len(buffer) <= BufferLines
  /\ torn \in BOOLEAN
  /\ torn => buffer # <<>>
  /\ dirty \in BOOLEAN
  /\ durable \in 0..Len(file)
  /\ crashes \in 0..MaxCrashes

\* The deduplication set is exactly what the file, the buffer and the channel
\* hold: a domain in the set but in none of them would never be recorded again,
\* one in them but not in the set would be recorded twice.
SeenIsAccounted ==
  store \in {"running", "flushed"} => seen = ToSet(file \o InFlight)

\* No domain occupies two lines, across restarts and repaired tails
\* (README.md:46, a deduplicated list).
NoDuplicates == IsInjective(file \o InFlight)

\* The durable size, which bounds what the sender may read, never exceeds what
\* a power loss preserves (docs/design-contract.md:34).
DurableIsSynced == durable <= synced
=============================================================================
