------------------------------ MODULE Delivery ------------------------------
(***************************************************************************)
(* The durability chain of the client: OutputStore and RuleBotSender in    *)
(* one process (app.go, Run).  The store is opened before the sender; the  *)
(* sender reads the file up to the store's durable size; both die together *)
(* and a power loss takes from both what was not synchronized.             *)
(***************************************************************************)
EXTENDS OutputStore

CONSTANTS Keys, NoKey, KeyOf, ExclusionLists, SendExisting, MaxPending,
          InitialDelay, MaxDelay, AuthFloor, Day, RetryAfters, NoState, MaxFaults

VARIABLES
  now, excluded, stateFile, stateStable, phase, offset, pending, pauseUntil,
  delivered, retryTurn, retrying, index, acked, waived, bypass, faults

senderMemory == <<offset, pending, pauseUntil, delivered, retryTurn, retrying, index>>
senderVars == <<now, excluded, stateFile, stateStable, phase, senderMemory,
                acked, waived, bypass, faults>>
allVars == <<storeVars, senderVars>>

\* DurableSize: what the sender may read of the file.
Readable == SubSeq(file, 1, durable)

Sender == INSTANCE RuleBotSender WITH output <- Readable, MaxOutput <- MaxLines

\* The constants are those that the sender's own specification asks for.
ASSUME DeliveryAssumption == Sender!SenderAssumption /\ Sender!NoStateAssumption

Init ==
  /\ StoreInit
  /\ Sender!Init

----------------------------------------------------------------------------
(* Steps of the store alone.  The goroutines start after both were opened;  *)
(* FlushSynced is what Append1 stands for in the sender's own specification. *)

Started == phase \notin {"down", "created"}

OpenStore == (OpenClean \/ OpenRepair \/ RepairSynced) /\ UNCHANGED senderVars

Capture(domain) == Started /\ Accept(domain) /\ UNCHANGED senderVars
StopReaders == Started /\ CloseWrites /\ UNCHANGED senderVars
Writer == Started /\ (WriteLine \/ Flush \/ FlushSynced) /\ UNCHANGED senderVars

(* Steps of the sender alone; it is opened after the store. *)

OpenSender ==
  /\ store = "running"
  /\ UNCHANGED storeVars
  /\ Sender!Create \/ Sender!CreateSynced \/ Sender!Open

SendTurn == UNCHANGED storeVars /\ Sender!Turn
SendAttempt == UNCHANGED storeVars /\ Sender!Attempt
SendSynced == UNCHANGED storeVars /\ Sender!Synced
Tick == UNCHANGED storeVars /\ Sender!Tick

\* The sender refuses the checkpoint, and the client exits (app.go:90-94).
Refuse ==
  /\ store = "running"
  /\ phase = "down"
  /\ stateFile # NoState
  /\ ~Sender!Accepts(stateFile)
  /\ ForgetStore
  /\ UNCHANGED <<file, tail, synced, crashes, senderVars>>

(* Both end together. *)

SenderEnds == Sender!Forget /\ UNCHANGED <<now, excluded, waived>>

\* A shutdown waits for the checkpoint being written, not for an attempt.
Shutdown ==
  /\ phase \in {"idle", "sending"}
  /\ Exit
  /\ SenderEnds
  /\ UNCHANGED <<stateFile, stateStable>>

KillBoth == Kill /\ SenderEnds /\ UNCHANGED <<stateFile, stateStable>>
WriteErrorEndsBoth == WriteError /\ SenderEnds /\ UNCHANGED <<stateFile, stateStable>>
PowerLoss == PowerOff /\ SenderEnds /\ Sender!Revert

Next ==
  \/ OpenStore \/ OpenSender \/ Refuse
  \/ (\E domain \in Capturable : Capture(domain)) \/ StopReaders \/ Writer
  \/ SendTurn \/ SendAttempt \/ SendSynced \/ Tick
  \/ Shutdown \/ KillBoth \/ WriteErrorEndsBoth \/ PowerLoss

Spec == Init /\ [][Next]_allVars

\* Goroutines are scheduled, tickers fire, attempts end, and the service
\* manager starts a client that went down again.
FairSpec ==
  /\ Spec
  /\ WF_allVars(OpenStore)
  /\ WF_allVars(OpenSender)
  /\ WF_allVars(Writer)
  /\ WF_allVars(SendTurn)
  /\ WF_allVars(SendAttempt)
  /\ WF_allVars(SendSynced)
  /\ WF_allVars(Tick)

----------------------------------------------------------------------------
(* Properties *)

DeliveryTypeOK ==
  /\ StoreTypeOK
  /\ Sender!TypeOK
  /\ phase # "down" => store \in {"running", "flushed"}

Saved == {stateFile, stateStable} \ {NoState}

\* The keys of the lines that checkpoint s still queues.
QueuedKeys(s) ==
  {KeyOf[file[n]] : n \in {m \in 1..Len(file) :
     \E i \in DOMAIN s.pending : s.pending[i].offset + 1 = m}}

\* A start after any crash accepts the checkpoint it finds: whatever the crash
\* has left of the output, once its tail is repaired, is as long as the offset
\* (the check at rulebot.go:146).
NeverRefused ==
  tail # Invalid =>
    \A s \in Saved : s.offset <= Len(file) + IF tail \in Hosts THEN 1 ELSE 0

\* End to end: each line before a checkpoint's offset is delivered, or queued
\* in that checkpoint, also after the file was cut back and grew again.
NothingSkipped ==
  \A s \in Saved : \A i \in 1..s.offset :
    i <= Len(file) => KeyOf[file[i]] \in acked \cup waived \cup {NoKey} \cup QueuedKeys(s)

\* A domain the sender may read is delivered in the end, across crashes and
\* restarts, unless a broken tail keeps the client from starting at all
\* (docs/design-contract.md:80-81).
EndToEnd ==
  \A domain \in Capturable :
    domain \in ToSet(Readable) ~> KeyOf[domain] \in acked \/ tail = Invalid
=============================================================================
