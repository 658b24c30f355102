----------------------------- MODULE Controller -----------------------------
(***************************************************************************)
(* One controller instance of the client: it follows the log stream of     *)
(* the controller, takes a snapshot of the open connections when a stream  *)
(* begins, submits the domains that the final rule has matched, waits      *)
(* between attempts, and keeps the status file.  The controller is         *)
(* external: it tracks a connection, logs its rule, and forgets it.        *)
(***************************************************************************)
EXTENDS Integers, FiniteSets, Sequences, SequencesExt

CONSTANTS Conns,          \* connections through the controller, each to a host of its own
          Peers,          \* hosts that only other texts of a line mention
          Names, Errors,  \* texts in a line: names of proxies and rules, and of errors
          Mixes,          \* how the connections may turn out: functions to Kinds
          IncludeFailed,  \* include_failed_connections
          InitialDelay, MaxDelay,  \* reconnect delays
          Floor,          \* the least delay after 401 and 403
          MaxMishaps,     \* bound: broken streams, refusals, failing snapshots and writes
          None            \* no snapshot, no status file

(* Matched by the final rule or by another one, or failed under one of them. *)
Kinds == {"final", "other", "failed_final", "failed_other"}

(* The parts of a log line that the parser tells apart: hosts with their ports, the four
   markers, the address of the source, and words of no meaning to it.                  *)
Hosts == Conns \cup Peers
Words == {"arrow", "success", "failure", "error", "source", "word"}

ASSUME ControllerAssumption ==
  /\ Mixes \subseteq [Conns -> Kinds]
  /\ IncludeFailed \in BOOLEAN
  /\ InitialDelay \in Nat \ {0} /\ MaxDelay \in Nat /\ InitialDelay <= MaxDelay
  /\ Floor \in Nat /\ MaxMishaps \in Nat
  /\ None \notin Conns
  /\ Hosts \cap Words = {}
  /\ Names \subseteq Seq(Hosts \cup Words) /\ Errors \subseteq Seq(Hosts \cup Words)

VARIABLES
  kind,       \* how each connection turns out
  conn,       \* what has become of each connection
  link,       \* runInstance: "down", "asked", "up", "waiting", "refused" (it waits after 401
              \* or 403) or "ended"
  stream,     \* connections whose log line has not been read yet
  delay,      \* the delay before jitter
  wait,       \* the delay in force
  snap,       \* the snapshot that holds the slot: its step, the domains to submit and
              \* whether its stream is still the current one; or None
  covered,    \* history: the snapshot of the current stream is complete
  submitted,  \* domains sent to the pipeline
  misled,     \* history: those of lines in which a name or an error held a marker
  mem,        \* the status in memory: connected, captured domains (events in the code)
  dirty,      \* a wake-up lies in the channel
  file,       \* the status file, or None
  rep,        \* the reporter: its step, what it writes, whether it is the last time
  cancelled,  \* the context is done
  mishaps     \* mishaps so far

controller == <<kind, conn>>
snapshot == <<snap, covered>>
captured == <<submitted, misled>>
retry == <<delay, wait>>
reporting == <<file, rep>>
vars == <<controller, link, stream, retry, snapshot, captured, mem, dirty, reporting,
          cancelled, mishaps>>

Mishap == mishaps < MaxMishaps /\ mishaps' = mishaps + 1

-----------------------------------------------------------------------------
(* The log line of a connection of some kind.  The names of its rule and its proxy and the
   text of an error are whatever they are: they may hold markers and targets of their own. *)
Texts == [proxy : Names, rule : Names, error : Errors]

Line(k, c, t) ==
  CASE k = "final" -> <<"source", "arrow", c, "success">> \o t.proxy
    [] k = "other" -> <<"source", "arrow", c, "word">> \o t.rule \o <<"word">> \o t.proxy
    [] k = "failed_final" ->
         <<"word">> \o t.proxy \o <<"failure", "source", "arrow", c, "error">> \o t.error
    [] k = "failed_other" ->
         <<"word">> \o t.proxy \o <<"word">> \o t.rule \o <<"source", "arrow", c, "error">>
           \o t.error

(* A marker stands where the parser may take it for the one of the line. *)
Marked(t) ==
  \/ {"success", "failure", "error"} \cap (ToSet(t.proxy) \cup ToSet(t.rule)) # {}
  \/ {"success", "failure"} \cap ToSet(t.error) # {}

First(l, t) == SelectInSeq(l, LAMBDA x : x = t)
LastBefore(l, n, t) == SelectLastInSubSeq(l, 1, n - 1, LAMBDA x : x = t)

(* Where the target of a line must end, or 0: parseLogPayload.  Faulty variant: a failure
   is not asked for its rule.                                                           *)
TargetEndOfAny(l) ==
  IF First(l, "success") # 0 THEN First(l, "success")
  ELSE IF IncludeFailed THEN First(l, "error") ELSE 0

TargetEnd(l) ==
  IF First(l, "success") # 0 THEN First(l, "success")
  ELSE IF IncludeFailed /\ First(l, "failure") # 0 THEN First(l, "error") ELSE 0

(* The domain between the last arrow before that and the end, if there is one: whatever
   follows a host up to there is its port, unless it has a colon.                      *)
Colons == Hosts \cup {"source", "error"}

Parsed(l) ==
  LET end == TargetEnd(l)
      target == LastBefore(l, end, "arrow") + 1
  IN  IF /\ 1 < target /\ target < end
         /\ \A i \in (target + 1)..(end - 1) : l[i] \notin Colons
      THEN {l[target]} \cap Hosts ELSE {}

(* What a line of a connection may be read as. *)
Readings == [k \in Kinds |-> [c \in Conns |->
               {[domains |-> Parsed(Line(k, c, t)), marked |-> Marked(t)] : t \in Texts}]]

-----------------------------------------------------------------------------
Init ==
  /\ kind \in Mixes
  /\ conn = [c \in Conns |-> "none"]
  /\ link = "down" /\ stream = <<>>
  /\ delay = InitialDelay /\ wait = 0
  /\ snap = None /\ covered = FALSE
  /\ submitted = {} /\ misled = {}
  /\ mem = [connected |-> FALSE, captured |-> {}] /\ dirty = FALSE
  /\ file = None
  /\ rep = [pc |-> "awake", data |-> None, last |-> FALSE]
  /\ cancelled = FALSE /\ mishaps = 0

(* The controller. *)
Opens(c) ==
  /\ conn[c] = "none" /\ kind[c] \in {"final", "other"}
  /\ conn' = [conn EXCEPT ![c] = "tracked"]
  /\ UNCHANGED <<kind, link, stream, retry, snapshot, captured, mem, dirty, reporting,
                 cancelled, mishaps>>

Logs(c) ==
  /\ conn[c] = IF kind[c] \in {"final", "other"} THEN "tracked" ELSE "none"
  /\ conn' = [conn EXCEPT ![c] = IF kind[c] \in {"final", "other"} THEN "open" ELSE "closed"]
  /\ stream' = IF link \in {"asked", "up"} THEN Append(stream, c) ELSE stream
  /\ UNCHANGED <<kind, link, retry, snapshot, captured, mem, dirty, reporting, cancelled,
                 mishaps>>

Closes(c) ==
  /\ conn[c] = "open"
  /\ conn' = [conn EXCEPT ![c] = "closed"]
  /\ UNCHANGED <<kind, link, stream, retry, snapshot, captured, mem, dirty, reporting,
                 cancelled, mishaps>>

-----------------------------------------------------------------------------
(* runInstance. *)

(* connected, disconnected and event change the status and leave a wake-up, one at most. *)
Shows(m) == mem' = m /\ dirty' = TRUE

(* openLogs: the controller follows from here on; its answer may take until it logs. *)
Asks ==
  /\ link = "down"
  /\ link' = "asked" /\ stream' = <<>>
  /\ UNCHANGED <<controller, retry, snapshot, captured, mem, dirty, reporting, cancelled,
                 mishaps>>

(* The stream begins, and a snapshot with it, unless an older one holds the slot.  Faulty
   variant: the older one is taken for the snapshot of this stream.                     *)
SlotReused == IF snap # None THEN [snap EXCEPT !.now = TRUE]
              ELSE [pc |-> "asked", todo |-> {}, now |-> TRUE]

Slot == IF snap # None THEN snap ELSE [pc |-> "asked", todo |-> {}, now |-> TRUE]

Connects ==
  /\ link = "asked"
  /\ link' = "up"
  /\ Shows([mem EXCEPT !.connected = TRUE])
  /\ delay' = InitialDelay
  /\ snap' = Slot /\ covered' = FALSE
  /\ UNCHANGED <<controller, stream, wait, captured, reporting, cancelled, mishaps>>

Submits(c) ==
  /\ submitted' = submitted \cup {c}
  /\ Shows([mem EXCEPT !.captured = submitted'])

(* consumeLogStream: the next line. *)
Reads ==
  /\ link = "up" /\ stream # <<>>
  /\ stream' = Tail(stream)
  /\ \E r \in Readings[kind[Head(stream)]][Head(stream)] :
       /\ misled' = IF r.marked THEN misled \cup r.domains ELSE misled
       /\ IF r.domains = {} THEN UNCHANGED <<submitted, mem, dirty>>
          ELSE \E c \in r.domains : Submits(c)
  /\ UNCHANGED <<controller, link, retry, snapshot, reporting, cancelled, mishaps>>

(* No stream, or no more of it: what has not been read is lost.  The jitter is a fifth at
   most; its extremes stand for it.                                                      *)
Jittered == {delay - (delay \div 5), delay + (delay \div 5)}
Pause(denied) == {IF denied /\ d < Floor THEN Floor ELSE d : d \in Jittered}

Disconnects(denied) ==
  /\ link \in (IF denied THEN {"asked"} ELSE {"asked", "up"})
  /\ ~cancelled
  /\ Mishap
  /\ link' = (IF denied THEN "refused" ELSE "waiting") /\ stream' = <<>>
  /\ wait' \in Pause(denied)
  /\ Shows([mem EXCEPT !.connected = FALSE])
  /\ snap' = IF snap = None THEN None ELSE [snap EXCEPT !.now = FALSE]
  /\ covered' = FALSE
  /\ UNCHANGED <<controller, delay, captured, reporting, cancelled>>

(* Faulty variant: the doubled delay is not cut back to the maximum. *)
BackoffUncapped(d) == IF d < MaxDelay THEN 2 * d ELSE d
Backoff(d) == IF d < MaxDelay THEN (IF 2 * d > MaxDelay THEN MaxDelay ELSE 2 * d) ELSE d

TriesAgain ==
  /\ link \in {"waiting", "refused"}
  /\ link' = "down" /\ wait' = 0
  /\ delay' = Backoff(delay)
  /\ UNCHANGED <<controller, stream, snapshot, captured, mem, dirty, reporting, cancelled,
                 mishaps>>

(* The context is done: every blocking step returns. *)
Cancels ==
  /\ ~cancelled /\ cancelled' = TRUE
  /\ UNCHANGED <<controller, link, stream, retry, snapshot, captured, mem, dirty, reporting,
                 mishaps>>

Ends ==
  /\ cancelled /\ link # "ended"
  /\ link' = "ended" /\ stream' = <<>>
  /\ covered' = FALSE
  /\ UNCHANGED <<controller, retry, snap, captured, mem, dirty, reporting, cancelled, mishaps>>

-----------------------------------------------------------------------------
(* The snapshot goroutine: the connections whose rule is exactly that of the final one. *)
Matched == {c \in Conns : conn[c] \in {"tracked", "open"} /\ kind[c] = "final"}

TakesSnapshot ==
  /\ snap # None /\ snap.pc = "asked"
  /\ snap' = [snap EXCEPT !.pc = "submitting", !.todo = Matched]
  /\ UNCHANGED <<controller, link, stream, retry, covered, captured, mem, dirty, reporting,
                 cancelled, mishaps>>

SubmitsSnapshot ==
  /\ snap # None /\ snap.pc = "submitting"
  /\ \E c \in snap.todo :
       Submits(c) /\ snap' = [snap EXCEPT !.todo = @ \ {c}]
  /\ UNCHANGED <<controller, link, stream, retry, covered, misled, reporting, cancelled,
                 mishaps>>

EndsSnapshot ==
  /\ snap # None /\ snap.pc = "submitting" /\ snap.todo = {}
  /\ snap' = None
  /\ covered' = (covered \/ snap.now)
  /\ UNCHANGED <<controller, link, stream, retry, captured, mem, dirty, reporting, cancelled,
                 mishaps>>

(* No answer in 15 seconds, a bad one, or the end of the context. *)
GivesSnapshotUp ==
  /\ snap # None
  /\ IF cancelled THEN UNCHANGED mishaps ELSE snap.pc = "asked" /\ Mishap
  /\ snap' = None
  /\ UNCHANGED <<controller, link, stream, retry, covered, captured, mem, dirty, reporting,
                 cancelled>>

-----------------------------------------------------------------------------
(* The status reporter. *)
Done == link = "ended" /\ snap = None

WakesUp ==
  /\ rep.pc = "idle"
  /\ \/ dirty /\ dirty' = FALSE /\ rep' = [rep EXCEPT !.pc = "awake"]
     \/ Done /\ rep' = [rep EXCEPT !.pc = "awake", !.last = TRUE] /\ UNCHANGED dirty
  /\ UNCHANGED <<controller, link, stream, retry, snapshot, captured, mem, file, cancelled,
                 mishaps>>

(* Every five seconds, whatever has happened.  Faulty variant: there is no ticker. *)
NoTick == FALSE
Tick == rep.pc = "idle"

WakesByTicker ==
  /\ Tick
  /\ rep' = [rep EXCEPT !.pc = "awake"]
  /\ UNCHANGED <<controller, link, stream, retry, snapshot, captured, mem, dirty, file,
                 cancelled, mishaps>>

Marshals ==
  /\ rep.pc = "awake"
  /\ rep' = [rep EXCEPT !.pc = "write", !.data = mem]
  /\ UNCHANGED <<controller, link, stream, retry, snapshot, captured, mem, dirty, file,
                 cancelled, mishaps>>

Writes ==
  /\ rep.pc = "write"
  /\ file' = rep.data
  /\ rep' = [rep EXCEPT !.pc = IF rep.last THEN "stopped" ELSE "idle", !.data = None]
  /\ UNCHANGED <<controller, link, stream, retry, snapshot, captured, mem, dirty, cancelled,
                 mishaps>>

(* A failing write is passed over in silence. *)
WriteFails ==
  /\ rep.pc = "write"
  /\ Mishap
  /\ rep' = [rep EXCEPT !.pc = IF rep.last THEN "lost" ELSE "idle", !.data = None]
  /\ UNCHANGED <<controller, link, stream, retry, snapshot, captured, mem, dirty, file,
                 cancelled>>

-----------------------------------------------------------------------------
Next ==
  \/ \E c \in Conns : Opens(c) \/ Logs(c) \/ Closes(c)
  \/ Asks \/ Connects \/ Reads \/ TriesAgain \/ Cancels \/ Ends
  \/ \E denied \in BOOLEAN : Disconnects(denied)
  \/ TakesSnapshot \/ SubmitsSnapshot \/ EndsSnapshot \/ GivesSnapshotUp
  \/ WakesUp \/ WakesByTicker \/ Marshals \/ Writes \/ WriteFails

Spec == Init /\ [][Next]_vars

(* The reporter runs, and its ticker ticks. *)
FairSpec == /\ Spec
            /\ WF_vars(WakesUp) /\ WF_vars(WakesByTicker)
            /\ WF_vars(Marshals) /\ WF_vars(Writes)

-----------------------------------------------------------------------------
(* The types of the variables, with the bounds of the delays: never shorter than the
   jittered initial delay or, after a refusal, than the floor, never longer than the
   jittered maximum or the floor.                                                       *)
TypeOK ==
  /\ kind \in Mixes
  /\ conn \in [Conns -> {"none", "tracked", "open", "closed"}]
  /\ link \in {"down", "asked", "up", "waiting", "refused", "ended"}
  /\ stream \in Seq(Conns)
  /\ delay \in InitialDelay..MaxDelay
  /\ link \in {"waiting", "refused"} =>
       /\ wait >= InitialDelay - (InitialDelay \div 5)
       /\ wait <= MaxDelay + (MaxDelay \div 5) \/ wait = Floor
  /\ link = "refused" => wait >= Floor
  /\ snap \in [pc : {"asked", "submitting"}, todo : SUBSET Conns, now : BOOLEAN] \cup {None}
  /\ covered \in BOOLEAN
  /\ submitted \subseteq Hosts /\ misled \subseteq Hosts
  /\ mem \in [connected : BOOLEAN, captured : SUBSET Hosts]
  /\ {dirty, cancelled} \subseteq BOOLEAN
  /\ file \in [connected : BOOLEAN, captured : SUBSET Hosts] \cup {None}
  /\ rep.pc \in {"awake", "write", "idle", "stopped", "lost"}
  /\ mishaps \in 0..MaxMishaps

(* Only hosts of connections that the final rule has matched are submitted, and of attempts
   that failed under it if those are wanted: never a host that an error mentions, whatever
   else the texts of the line are.  The exception, against docs/design-contract.md:51, are
   lines in which a name or an error holds a marker itself.                            *)
OnlyFinal ==
  \A h \in submitted :
    \/ h \in misled
    \/ h \in Conns /\ (kind[h] = "final" \/ (IncludeFailed /\ kind[h] = "failed_final"))

(* Stream and snapshot leave no gap: once the snapshot of a stream is complete, each open
   connection of the final rule has been submitted or its line is still to be logged or
   read.  It says nothing about a stream without a snapshot.                            *)
NothingMissed ==
  link = "up" /\ covered =>
    \A c \in Conns : kind[c] = "final" /\ conn[c] = "open"
                       => c \in submitted \/ \E i \in DOMAIN stream : stream[i] = c

(* The status file shows the last change in the end, although wake-ups are merged and
   failing writes are not repeated; only a failure of the very last write leaves it behind. *)
EventuallyShown == <>[](file = mem \/ rep.pc = "lost")
=============================================================================
