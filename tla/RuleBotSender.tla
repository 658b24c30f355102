--------------------------- MODULE RuleBotSender ---------------------------
(***************************************************************************)
(* The Rule-Bot sender of internal/client/rulebot.go: one goroutine that   *)
(* scans the durable part of the append-only output file, sends each new   *)
(* domain to an HTTP endpoint, and keeps a checkpoint file holding a scan  *)
(* offset, a bounded queue of deferred records and an endpoint pause.      *)
(*                                                                         *)
(* An offset is counted in records (lines) and not in bytes: `offset` is   *)
(* the number of records before it, so a pending entry with offset o       *)
(* stands for record o+1.  Time is a clock in abstract ticks; it advances  *)
(* only while some deadline lies ahead of it, because the code compares    *)
(* the clock with nothing else.                                            *)
(***************************************************************************)
EXTENDS Integers, SequencesExt

CONSTANTS
  Hosts,          \* host names the output may hold
  Keys,           \* what is sent for them: registrable domains or the hosts
  NoKey,          \* a host that is never sent (.cn, no registrable domain)
  KeyOf,          \* the projection of a host: a key or NoKey
  ExclusionLists, \* the sets of hosts the configured exclusions may cover
  SendExisting,   \* rule_bot.send_existing
  MaxPending,     \* maxRuleBotPending
  InitialDelay,   \* rule_bot.retry.initial_delay, in ticks
  MaxDelay,       \* rule_bot.retry.max_delay, in ticks
  AuthFloor,      \* the 30 s minimum after a 401, 403 or 429
  Day,            \* 24 h, the cap of every delay and of Retry-After
  RetryAfters,    \* the Retry-After values the server may answer with
  NoState,        \* there is no checkpoint file
  MaxOutput,      \* bound: records ever appended to the output
  MaxFaults       \* bound: failed attempts plus stops of the process

ASSUME SenderAssumption ==
  /\ NoKey \notin Keys
  /\ KeyOf \in [Hosts -> Keys \cup {NoKey}]
  /\ ExclusionLists \subseteq SUBSET Hosts
  /\ ExclusionLists # {}
  /\ SendExisting \in BOOLEAN
  /\ MaxPending \in Nat \ {0}
  /\ Day \in Nat \ {0}
  /\ MaxDelay \in Nat \ {0}
  /\ InitialDelay \in 1..MaxDelay
  /\ AuthFloor \in Nat
  /\ RetryAfters \subseteq Nat
  /\ MaxOutput \in Nat
  /\ MaxFaults \in Nat

PendingEntry == [offset : Nat, next : Nat, delay : Nat]
Checkpoint == [offset : Nat, pending : Seq(PendingEntry), pause : Nat]

ASSUME NoStateAssumption == NoState \notin Checkpoint

VARIABLES
  output,      \* the records of the output file up to the durable offset
  now,         \* the wall clock
  excluded,    \* the hosts the exclusions cover at present
  stateFile,   \* the checkpoint file as the file system shows it
  stateStable, \* the checkpoint a power loss is certain to preserve
  phase,       \* where the sender stands, see TypeOK
  offset,      \* s.offset
  pending,     \* s.pending
  pauseUntil,  \* s.pauseUntil
  delivered,   \* s.delivered, the keys already handed to the endpoint
  retryTurn,   \* the local retryTurn of Run
  retrying,    \* the local retrying of the current turn of Run
  index,       \* the local retryIndex of the current turn of Run
  acked,       \* history: keys the server has taken responsibility for
  waived,      \* history: keys of records the configuration said not to send
  bypass,      \* history: turns in a row that passed over the other kind
  faults       \* number of failed attempts and stops so far

memory == <<offset, pending, pauseUntil, delivered, retryTurn, retrying, index>>
disk == <<stateFile, stateStable>>
history == <<acked, waived, bypass, faults>>
vars == <<output, now, excluded, disk, phase, memory, history>>

----------------------------------------------------------------------------
(* Helpers *)

\* readDurableDomain: the record that starts at offset o.
RecordAt(o) == output[o + 1]

\* prepareRuleBotDomain under the exclusions ex: the key to send, or NoKey.
Prepare(host, ex) == IF host \in ex THEN NoKey ELSE KeyOf[host]

\* The distinct keys of the first n records.  Faulty variant, then the code's.
KeysUpToWithNoKey(n) == {KeyOf[output[i]] : i \in (1..n) \cap DOMAIN output}
KeysUpTo(n) == {KeyOf[output[i]] : i \in (1..n) \cap DOMAIN output} \ {NoKey}

\* Records a later turn must still deliver according to checkpoint s.
PendingKeys(s) == {KeyOf[RecordAt(s.pending[i].offset)] : i \in DOMAIN s.pending}

\* jitter (app.go): a fifth of the delay either way.
Jitter(d) == LET spread == d \div 5 IN (d - spread) .. (d + spread)

Smaller(a, b) == IF a <= b THEN a ELSE b
Larger(a, b) == IF a >= b THEN a ELSE b

\* The delay of the next attempt; entry 0 is a fresh record.
\* Faulty variant: the cap is forgotten.
NextDelayUncapped(i) == IF i = 0 THEN InitialDelay ELSE pending[i].delay * 2
NextDelay(i) ==
  LET doubled == IF i = 0 THEN InitialDelay ELSE pending[i].delay * 2
  IN  Smaller(doubled, Smaller(MaxDelay, Day))

\* ruleBotRetryAfter: the header is capped at one day.
RetryAfter(v) == Smaller(v, Day)

\* The entries whose deadline has come.
Due == {i \in DOMAIN pending : pending[i].next <= now}

\* The entry Run retries: the earliest deadline, the first one of equals.
IsEarliest(i) ==
  \A j \in Due : \/ pending[i].next < pending[j].next
                 \/ pending[i].next = pending[j].next /\ i <= j

FreshReady == offset < Len(output) /\ Len(pending) < MaxPending

\* What loadRuleBotState and openRuleBotSender require of a checkpoint.
Accepts(s) ==
  /\ s.offset <= Len(output)
  /\ Len(s.pending) <= MaxPending
  /\ \A i \in DOMAIN s.pending :
       /\ s.pending[i].offset < s.offset
       /\ s.pending[i].delay \in 1..Day
       /\ \A j \in DOMAIN s.pending :
            i # j => s.pending[i].offset # s.pending[j].offset

----------------------------------------------------------------------------
(* Initial states: no checkpoint yet, and an output that may already hold  *)
(* records captured before delivery was enabled.                           *)

Init ==
  /\ output \in BoundedSeq(Hosts, MaxOutput)
  /\ now = 0
  /\ excluded \in ExclusionLists
  /\ stateFile = NoState
  /\ stateStable = NoState
  /\ phase = "down"
  /\ offset = 0
  /\ pending = <<>>
  /\ pauseUntil = 0
  /\ delivered = {}
  /\ retryTurn = TRUE
  /\ retrying = FALSE
  /\ index = 0
  /\ acked = {}
  /\ waived = {}
  /\ bypass = 0
  /\ faults = 0

(* The environment *)

\* The writer synchronizes one more record (outputStore.flushAndSync).
Append1(host) ==
  /\ Len(output) < MaxOutput
  /\ output' = Append(output, host)
  /\ UNCHANGED <<now, excluded, disk, phase, memory, history>>

Deadlines(s) == {s.pause} \cup {s.pending[i].next : i \in DOMAIN s.pending}

PersistedDeadlines ==
  UNION {Deadlines(s) : s \in {stateFile, stateStable} \ {NoState}}

Tick ==
  /\ \E d \in PersistedDeadlines \cup {pauseUntil} : d > now
  /\ now' = now + 1
  /\ UNCHANGED <<output, excluded, disk, phase, memory, history>>

\* The user edits the exclude file, which is reread for every record.
EditExclusions ==
  /\ \E ex \in ExclusionLists \ {excluded} : excluded' = ex
  /\ UNCHANGED <<output, now, disk, phase, memory, history>>

(* openRuleBotSender *)

\* loadDeliveredRuleBotDomains: exclusions do not apply to what lies behind.
\* Faulty variants: one record too many, or nothing rebuilt.
RememberedTooMany(s) == KeysUpTo(s.offset + 1)
RememberedNone(s) == {}
Remembered(s) == KeysUpTo(s.offset)

\* Memory as the checkpoint says.  Faulty variant: the pause is not restored.
LoadWithoutPause(s) ==
  /\ phase' = "idle"
  /\ offset' = s.offset
  /\ pending' = s.pending
  /\ pauseUntil' = 0
  /\ delivered' = Remembered(s)
  /\ retryTurn' = TRUE
  /\ retrying' = FALSE
  /\ index' = 0

Load(s) ==
  /\ phase' = "idle"
  /\ offset' = s.offset
  /\ pending' = s.pending
  /\ pauseUntil' = s.pause
  /\ delivered' = Remembered(s)
  /\ retryTurn' = TRUE
  /\ retrying' = FALSE
  /\ index' = 0

\* The first start creates the checkpoint (rename done, directory not synced).
Create ==
  /\ phase = "down"
  /\ stateFile = NoState
  /\ stateFile' = [offset |-> IF SendExisting THEN 0 ELSE Len(output),
                   pending |-> <<>>, pause |-> 0]
  /\ waived' = IF SendExisting THEN waived ELSE waived \cup KeysUpTo(Len(output))
  /\ phase' = "created"
  /\ UNCHANGED <<output, now, excluded, stateStable, memory, acked, bypass, faults>>

CreateSynced ==
  /\ phase = "created"
  /\ stateStable' = stateFile
  /\ Load(stateFile)
  /\ UNCHANGED <<output, now, excluded, stateFile, history>>

Open ==
  /\ phase = "down"
  /\ stateFile # NoState
  /\ Accepts(stateFile)
  /\ Load(stateFile)
  /\ UNCHANGED <<output, now, excluded, disk, history>>

(* One turn of Run *)

Awake == phase = "idle" /\ pauseUntil <= now

FreshTurn == Awake /\ FreshReady /\ (Due = {} \/ ~retryTurn)

\* Faulty variant: a retry waits for its turn even when no record is fresh.
RetryTurnStrict(i) == Awake /\ i \in Due /\ IsEarliest(i) /\ retryTurn
RetryTurn(i) == Awake /\ i \in Due /\ IsEarliest(i) /\ (~FreshReady \/ retryTurn)

\* Bookkeeping of a turn of the given kind that passes over the other kind or not.
TakeTurn(isRetry, i, passesOver) ==
  /\ retrying' = isRetry
  /\ index' = i
  /\ bypass' = IF ~passesOver THEN 0
               ELSE IF retrying = isRetry THEN bypass + 1 ELSE 1

\* writeRuleBotState up to and including the rename.
Rename(s) == stateFile' = s /\ phase' = "renamed"

\* A record that is not sent: .cn, excluded, or its key was handled before.
SkipFresh ==
  /\ FreshTurn
  /\ LET host == RecordAt(offset) IN
     /\ Prepare(host, excluded) \in delivered \cup {NoKey}
     /\ waived' = IF host \in excluded THEN waived \cup ({KeyOf[host]} \ {NoKey})
                  ELSE waived
  /\ Rename([offset |-> offset + 1, pending |-> pending, pause |-> pauseUntil])
  /\ TakeTurn(FALSE, 0, Due # {})
  /\ UNCHANGED <<output, now, excluded, stateStable, offset, pending, pauseUntil,
                 delivered, retryTurn, acked, faults>>

StartFresh ==
  /\ FreshTurn
  /\ Prepare(RecordAt(offset), excluded) \notin delivered \cup {NoKey}
  /\ delivered' = delivered \cup {KeyOf[RecordAt(offset)]}
  /\ phase' = "sending"
  /\ TakeTurn(FALSE, 0, Due # {})
  /\ UNCHANGED <<output, now, excluded, disk, offset, pending, pauseUntil,
                 retryTurn, acked, waived, faults>>

\* The record was excluded after it had been deferred.
SkipRetry(i) ==
  /\ RetryTurn(i)
  /\ LET host == RecordAt(pending[i].offset) IN
     /\ Prepare(host, excluded) = NoKey
     /\ waived' = waived \cup ({KeyOf[host]} \ {NoKey})
  /\ pending' = RemoveAt(pending, i)
  /\ Rename([offset |-> offset, pending |-> pending', pause |-> pauseUntil])
  /\ TakeTurn(TRUE, i, FreshReady)
  /\ UNCHANGED <<output, now, excluded, stateStable, offset, pauseUntil,
                 delivered, retryTurn, acked, faults>>

StartRetry(i) ==
  /\ RetryTurn(i)
  /\ Prepare(RecordAt(pending[i].offset), excluded) # NoKey
  /\ phase' = "sending"
  /\ TakeTurn(TRUE, i, FreshReady)
  /\ UNCHANGED <<output, now, excluded, disk, offset, pending, pauseUntil,
                 delivered, retryTurn, acked, waived, faults>>

SendingOffset == IF retrying THEN pending[index].offset ELSE offset
SendingKey == KeyOf[RecordAt(SendingOffset)]
\* The offset after the turn.
NextOffset == IF retrying THEN offset ELSE offset + 1

\* A terminal status with the matching HTTP code.
Acknowledged ==
  /\ phase = "sending"
  /\ acked' = acked \cup {SendingKey}
  /\ pending' = IF retrying THEN RemoveAt(pending, index) ELSE pending
  /\ Rename([offset |-> NextOffset, pending |-> pending', pause |-> pauseUntil])
  /\ UNCHANGED <<output, now, excluded, stateStable, offset, pauseUntil, delivered,
                 retryTurn, retrying, index, waived, bypass, faults>>

\* The request may have reached the server before the answer was lost.
MaybeReceived == acked' \in {acked, acked \cup {SendingKey}}

\* An application temporary_error concerns its record alone; a failure of
\* transport or of the endpoint pauses the sender; so does an authentication
\* or throttling failure, for AuthFloor at least.
FailureKinds == {"temporary", "endpoint", "throttled"}

RetryIn(kind, wait, retryAfter) ==
  LET asked == Larger(wait, RetryAfter(retryAfter))
  IN  IF kind = "throttled" THEN Larger(asked, AuthFloor) ELSE asked

\* The retry entry is updated in place, or appended for a fresh record.
\* Faulty variant: a retry is given up after its second failure.
DeferredOnce(entry) == IF retrying THEN RemoveAt(pending, index)
                       ELSE Append(pending, entry)
Deferred(entry) == IF retrying THEN [pending EXCEPT ![index] = entry]
                   ELSE Append(pending, entry)

Failed(kind, wait, retryAfter) ==
  /\ phase = "sending"
  /\ faults < MaxFaults
  /\ faults' = faults + 1
  /\ MaybeReceived
  /\ wait \in Jitter(NextDelay(index))
  /\ LET retryIn == RetryIn(kind, wait, retryAfter)
         entry == [offset |-> SendingOffset, next |-> now + retryIn,
                   delay |-> NextDelay(index)]
     IN  /\ pauseUntil' = IF kind = "temporary" THEN pauseUntil ELSE now + retryIn
         /\ pending' = Deferred(entry)
  /\ Rename([offset |-> NextOffset, pending |-> pending', pause |-> pauseUntil'])
  /\ UNCHANGED <<output, now, excluded, stateStable, offset, delivered, retryTurn,
                 retrying, index, waived, bypass>>

\* The kind of turn that goes first next time.  Faulty variant: the same again.
TurnSticks == retrying
TurnAlternates == ~retrying

\* The directory sync that ends writeRuleBotState, and the end of the turn.
Synced ==
  /\ phase = "renamed"
  /\ stateStable' = stateFile
  /\ offset' = stateFile.offset
  /\ retryTurn' = TurnAlternates
  /\ phase' = "idle"
  /\ UNCHANGED <<output, now, excluded, stateFile, pending, pauseUntil, delivered,
                 retrying, index, history>>

(* Stops *)

Forget ==
  /\ phase' = "down"
  /\ offset' = 0
  /\ pending' = <<>>
  /\ pauseUntil' = 0
  /\ delivered' = {}
  /\ retryTurn' = TRUE
  /\ retrying' = FALSE
  /\ index' = 0
  /\ bypass' = 0
  /\ IF phase = "sending" THEN MaybeReceived ELSE acked' = acked
  /\ faults < MaxFaults
  /\ faults' = faults + 1

\* The process ends: a shutdown, an error that Run returns, a kill.
Stop ==
  /\ phase # "down"
  /\ Forget
  /\ UNCHANGED <<output, now, excluded, disk, waived>>

\* A power loss may undo a rename that was not followed by a directory sync.
Revert == stateFile' \in {stateFile, stateStable} /\ stateStable' = stateFile'

PowerLoss ==
  /\ Forget
  /\ Revert
  /\ UNCHANGED <<output, now, excluded, waived>>

----------------------------------------------------------------------------
Attempt ==
  /\ phase = "sending"
  /\ \/ Acknowledged
     \/ \E kind \in FailureKinds, retryAfter \in RetryAfters :
          \E wait \in Jitter(NextDelay(index)) : Failed(kind, wait, retryAfter)

Turn == \/ SkipFresh \/ StartFresh
        \/ \E i \in DOMAIN pending : SkipRetry(i) \/ StartRetry(i)

Environment == (\E host \in Hosts : Append1(host)) \/ Tick \/ EditExclusions

Next == \/ Environment
        \/ Create \/ CreateSynced \/ Open
        \/ Turn \/ Attempt \/ Synced
        \/ Stop \/ PowerLoss

Spec == Init /\ [][Next]_vars

\* The sender's goroutine is scheduled, the clock advances, every attempt ends
\* (http.Client.Timeout is 30 s), and a stopped client is started again by its
\* service manager.  Faults are bounded by MaxFaults.
Fairness ==
  /\ WF_vars(Create \/ CreateSynced \/ Open)
  /\ WF_vars(Turn)
  /\ WF_vars(Attempt)
  /\ WF_vars(Synced)
  /\ WF_vars(Tick)

FairSpec == Spec /\ Fairness

----------------------------------------------------------------------------
(* Properties *)

TypeOK ==
  /\ output \in Seq(Hosts)
  /\ now \in Nat
  /\ excluded \in ExclusionLists
  /\ stateFile \in Checkpoint \cup {NoState}
  /\ stateStable \in Checkpoint \cup {NoState}
  /\ phase \in {"down", "created", "idle", "sending", "renamed"}
  /\ offset \in Nat
  /\ pending \in Seq(PendingEntry)
  /\ pauseUntil \in Nat
  /\ delivered \in SUBSET Keys
  /\ retryTurn \in BOOLEAN
  /\ retrying \in BOOLEAN
  /\ index \in Nat
  /\ acked \in SUBSET Keys
  /\ waived \in SUBSET Keys
  /\ bypass \in Nat
  /\ faults \in 0..MaxFaults

Checkpoints == {stateFile, stateStable} \ {NoState}

\* Every checkpoint that any crash can leave behind is one that a later start
\* accepts: offset within the durable output, queue within its limit, entries
\* before the offset, without repetition, with a delay in range
\* (rulebot.go:146, 561-570).  Otherwise a restart would refuse to run.
StateAccepted == \A s \in Checkpoints : Accepts(s)

\* No record is forgotten: each record before a checkpoint's offset has been
\* taken over by the server, is still queued in that same checkpoint, or has a
\* key the configuration excused (.cn, excluded, older than the first start).
NoLoss ==
  \A s \in Checkpoints : \A i \in 1..s.offset :
    KeyOf[output[i]] \in acked \cup waived \cup {NoKey} \cup PendingKeys(s)

\* docs/design-contract.md:94, "This gives at-least-once delivery": a scanned
\* record that no exclusion covers is either queued or was delivered.
AtLeastOnce ==
  SendExisting =>
    \A s \in Checkpoints : \A i \in 1..s.offset :
      (\A ex \in ExclusionLists : output[i] \notin ex) =>
        KeyOf[output[i]] \in acked \cup {NoKey} \cup PendingKeys(s)

\* A retry and a fresh record that are both ready take turns (retryTurn,
\* rulebot.go:309): neither kind passes over the other twice in a row.
Alternation == bypass <= 1

StartsSending == phase # "sending" /\ phase' = "sending"

\* docs/design-contract.md:92-93: pauses and Retry-After survive restarts.  No
\* request leaves before the pause, nor before the record's own deadline, of
\* the checkpoint on disk.
DeadlinesHonoured ==
  [][StartsSending =>
       /\ stateFile.pause <= now
       /\ \A i \in DOMAIN stateFile.pending :
            stateFile.pending[i].offset = SendingOffset' =>
              stateFile.pending[i].next <= now]_vars

\* PRIVACY.md:10, a registrable domain is sent once: a key whose
\* acknowledgement reached the checkpoint is never sent again, although the
\* set of delivered keys lives in memory and is rebuilt at every start.
NoResend ==
  [][StartsSending =>
       SendingKey' \notin acked \cap
         (KeysUpTo(stateFile.offset) \ PendingKeys(stateFile))]_vars

\* Every key found in the output is delivered in the end, or excused by the
\* configuration, whatever the order of failures, pauses, full queues, edits of
\* the exclusions and restarts.
EventuallyDelivered ==
  \A k \in Keys : k \in KeysUpTo(Len(output)) ~> k \in acked \cup waived

\* Records the stable checkpoint accounts for and does not queue.
SettledRecords ==
  IF stateStable = NoState THEN {}
  ELSE {i \in 1..stateStable.offset : KeyOf[output[i]] \notin PendingKeys(stateStable)}

Forwarding == INSTANCE ReliableForwarding WITH settled <- SettledRecords

\* The sender with its checkpoints, queue, pauses and crashes forwards every
\* record at least once: it implements the abstract specification.
ImplementsForwarding == Forwarding!Spec
=============================================================================
