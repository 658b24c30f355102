---------------------------- MODULE DataArchive ----------------------------
(***************************************************************************)
(* Clearing, backing up and restoring the collected domains and the        *)
(* checkpoint of the Rule-Bot sender on OpenWrt.  The requests run one at  *)
(* a time in the helper, each stops and starts the service, and the client *)
(* keeps collecting and delivering before and after.  The package scripts, *)
(* a changed configuration or the operator run the init script at any time *)
(* too.  Stopping the service is taken to end the client.  The power may   *)
(* fail at any step.                                                       *)
(***************************************************************************)
EXTENDS Naturals, Sequences, SequencesExt

CONSTANTS None,          \* an absent file, no archive, no process
          SendExisting,  \* a new sender starts with the lines that are already there
          MaxLines,      \* bound: lines collected in a behaviour
          MaxRequests,   \* bound: requests
          MaxMishaps     \* bound: failing operations, slow starts, runs of the init
                         \* script from outside and power losses

Lines == 1..MaxLines
Outputs == SeqOf(Lines, MaxLines) \cup {None}
Checkpoints == 0..MaxLines \cup {None}
Archives == [enabled : BOOLEAN, out : Outputs, ckpt : Checkpoints]
Clients == [log : Outputs \ {None}, linked : BOOLEAN, sent : 0..MaxLines, young : BOOLEAN]

ASSUME ArchiveAssumption == /\ SendExisting \in BOOLEAN
                            /\ {MaxLines, MaxRequests, MaxMishaps} \subseteq Nat
                            /\ None \notin Nat
                            /\ None \notin SeqOf(Lines, MaxLines)
                            /\ None \notin Archives /\ None \notin Clients
                            /\ None \notin {"clear", "backup", "restore"}

VARIABLES
  enabled,   \* the enabled option of the UCI file
  out,       \* domains.txt: the collected lines, in order, or None
  ckpt,      \* rulebot-state.json: how many lines have been dealt with, or None
  owned,     \* which of the two files the client may open
  svc,       \* procd has an instance of the client
  client,    \* the running client: the lines of the file it has open, whether that is
             \* still domains.txt, its offset, and whether it was started for the restore
             \* that waits for a client; or None
  rpc,       \* the helper process: pc, request, archive to restore, snapshot, which of
             \* the two is being applied
  other,     \* a run of the init script from outside: "idle", or "init" once it has found
             \* the service enabled
  archive,   \* the backup that the operator holds; at first None or one without data
  used,      \* lines, requests and mishaps so far
  handled,   \* history: lines delivered, or passed over by a sender that starts anew
  answer,    \* history: the answer to the last request
  torn,      \* history: the checkpoint that was put back last lies behind its output
  cut,       \* history: a replacement of the files was cut off or could not be undone
  astray,    \* history: a client ran while the files were replaced
  broken,    \* history: the last start of the service failed
  lost       \* history: a start from outside put settings back that a restore had replaced

disk == <<enabled, out, ckpt, owned>>
starts == <<broken, lost>>
history == <<torn, cut, astray, starts>>
vars == <<disk, svc, client, rpc, other, archive, used, handled, answer, history>>

NoRequest == [pc |-> "idle", kind |-> None, new |-> None, pre |-> None, src |-> None]
Idle == rpc = NoRequest
To(pc) == rpc' = [rpc EXCEPT !.pc = pc]
Spent(what) == used' = [used EXCEPT ![what] = @ + 1]
Mishap == used.mishaps < MaxMishaps /\ Spent("mishaps")
Answers(a) == rpc' = NoRequest /\ answer' = a

(* Some of the files may be new and others old. *)
Replacing == \/ rpc.pc \in {"own_output", "remove_state", "purge_state", "settings", "output",
                            "state"}
             \/ rpc.pc = "purge" /\ rpc.src = "pre"

(* The checkpoint does not lie behind the output.  Faulty variant: lengths not compared. *)
FitsUnchecked(c, o) == c # None => o # None
Fits(c, o) == c # None => o # None /\ c <= Len(o)

Init ==
  /\ enabled \in BOOLEAN
  /\ out = None /\ ckpt = None /\ owned = {}
  /\ svc = enabled
  /\ client = None
  /\ rpc = NoRequest /\ answer = None /\ other = "idle"
  /\ archive \in {None} \cup [enabled : BOOLEAN, out : {None}, ckpt : {None}]
  /\ used = [lines |-> 0, requests |-> 0, mishaps |-> 0]
  /\ handled = {}
  /\ torn = FALSE /\ cut = FALSE /\ astray = FALSE /\ broken = FALSE /\ lost = FALSE

-----------------------------------------------------------------------------
(* The client, as far as its two files go; Delivery has the details. *)

(* What openOutput finds, and where a sender starts on it. *)
Found == IF out = None THEN <<>> ELSE out
Offset == IF ckpt # None THEN ckpt ELSE IF SendExisting THEN 0 ELSE Len(Found)

(* openRuleBotSender refuses a checkpoint that lies behind the output. *)
CanOpen == /\ svc
           /\ out # None => "out" \in owned
           /\ ckpt # None => "ckpt" \in owned
           /\ Fits(Offset, Found)

ClientOpens ==
  /\ client = None /\ CanOpen
  /\ out' = Found /\ ckpt' = Offset
  /\ owned' = {"out", "ckpt"}
  /\ client' = [log |-> Found, linked |-> TRUE, sent |-> Offset, young |-> rpc.pc = "confirm"]
  /\ handled' = IF ckpt = None THEN handled \cup {Found[i] : i \in 1..Offset} ELSE handled
  /\ astray' = (astray \/ Replacing)
  /\ UNCHANGED <<enabled, svc, rpc, other, archive, used, answer, torn, cut, starts>>

(* A new domain is written and synchronized, to the file that the client has open. *)
Collects ==
  /\ client # None
  /\ used.lines < MaxLines
  /\ Spent("lines")
  /\ client' = [client EXCEPT !.log = Append(@, used.lines + 1)]
  /\ out' = IF client.linked THEN client'.log ELSE out
  /\ UNCHANGED <<enabled, ckpt, owned, svc, rpc, other, archive, handled, answer, history>>

(* The next line is delivered; writeRuleBotState replaces the file of that name. *)
Delivers ==
  /\ client # None
  /\ client.sent < Len(client.log)
  /\ client' = [client EXCEPT !.sent = @ + 1]
  /\ handled' = handled \cup {client.log[client'.sent]}
  /\ ckpt' = client'.sent
  /\ owned' = owned \cup {"ckpt"}
  /\ UNCHANGED <<enabled, out, svc, rpc, other, archive, used, answer, history>>

-----------------------------------------------------------------------------
(* Requests, up to the point where the service is stopped. *)

(* The page restores what it downloaded; parseBackup has accepted it. *)
Begins(kind) ==
  /\ Idle
  /\ used.requests < MaxRequests
  /\ Spent("requests")
  /\ kind = "restore" => archive # None
  /\ rpc' = [pc |-> "read", kind |-> kind, new |-> archive, pre |-> None, src |-> "new"]
  /\ answer' = None
  /\ UNCHANGED <<disk, svc, client, other, archive, handled, history>>

(* createBackup and snapshotFiles read the output first ... *)
ReadsOutput ==
  /\ rpc.pc = "read"
  /\ rpc' = [rpc EXCEPT !.pc = "read_state",
                        !.pre = [enabled |-> enabled, out |-> out, ckpt |-> None]]
  /\ UNCHANGED <<disk, svc, client, other, archive, used, handled, answer, history>>

(* ... and then the checkpoint, while the client goes on. *)
ReadsState ==
  /\ rpc.pc = "read_state"
  /\ LET pre == [rpc.pre EXCEPT !.ckpt = ckpt]
     IN  IF rpc.kind = "backup"
           THEN Answers("ok") /\ archive' = pre
           ELSE /\ rpc' = [rpc EXCEPT !.pc = "stop", !.pre = pre]
                /\ UNCHANGED <<archive, answer>>
  /\ UNCHANGED <<disk, svc, client, other, used, handled, history>>

Stops ==
  /\ rpc.pc = "stop"
  /\ svc' = FALSE /\ client' = None
  /\ To(IF rpc.kind = "clear" THEN "truncate" ELSE "purge")
  /\ UNCHANGED <<disk, other, archive, used, handled, answer, history>>

(* Nothing has been changed yet, and nothing is rolled back. *)
StopFails ==
  /\ rpc.pc = "stop"
  /\ Mishap
  /\ Answers("error")
  /\ UNCHANGED <<disk, svc, client, other, archive, handled, history>>

-----------------------------------------------------------------------------
(* Replacing files.  atomicWrite makes a file of root; the client may have it open. *)

Touched == astray' = (astray \/ client # None)

(* domains.txt becomes o, or is removed. *)
Replace(o) ==
  /\ out' = o
  /\ owned' = owned \ {"out"}
  /\ Touched
  /\ client' = IF client = None THEN None ELSE [client EXCEPT !.linked = FALSE]

(* clear: an empty output, made writable, and then no checkpoint. *)
Truncates ==
  /\ rpc.pc = "truncate"
  /\ Replace(<<>>)
  /\ To("own_output")
  /\ UNCHANGED <<enabled, ckpt, svc, other, archive, used, handled, answer, torn, cut, starts>>

OwnsOutput ==
  /\ rpc.pc = "own_output"
  /\ owned' = owned \cup {"out"}
  /\ To("remove_state")
  /\ UNCHANGED <<enabled, out, ckpt, svc, client, other, archive, used, handled, answer,
                 history>>

RemovesState ==
  /\ rpc.pc = "remove_state"
  /\ ckpt' = None
  /\ torn' = FALSE
  /\ Touched
  /\ To("start")
  /\ UNCHANGED <<enabled, out, owned, svc, client, other, archive, used, handled, answer, cut,
                 starts>>

(* The archive, or on the way back the snapshot. *)
Source == IF rpc.src = "new" THEN rpc.new ELSE rpc.pre

(* Files that the archive does not have.  Faulty variant: an old checkpoint is left. *)
StaleOutput(s) == IF s.out = None THEN {"out"} ELSE {}
Stale(s) == StaleOutput(s) \cup (IF s.ckpt = None THEN {"ckpt"} ELSE {})

(* applyParsedBackup: reconcileBackupDirectory removes in the order of the names ... *)
PurgesOutput ==
  /\ rpc.pc = "purge"
  /\ IF "out" \in Stale(Source) THEN Replace(None)
     ELSE UNCHANGED <<out, owned, astray, client>>
  /\ To("purge_state")
  /\ UNCHANGED <<enabled, ckpt, svc, other, archive, used, handled, answer, torn, cut, starts>>

PurgesState ==
  /\ rpc.pc = "purge_state"
  /\ IF "ckpt" \in Stale(Source) THEN ckpt' = None /\ Touched ELSE UNCHANGED <<ckpt, astray>>
  /\ To("settings")
  /\ UNCHANGED <<enabled, out, owned, svc, client, other, archive, used, handled, answer, torn,
                 cut, starts>>

(* ... and the entries are written in that order, then secureRuntimeData. *)
AppliesSettings ==
  /\ rpc.pc = "settings"
  /\ enabled' = Source.enabled
  /\ To("output")
  /\ UNCHANGED <<out, ckpt, owned, svc, client, other, archive, used, handled, answer, history>>

(* restoreFiles, which undoes a clear, writes or removes each of the two files. *)
AppliesOutput ==
  /\ rpc.pc = "output"
  /\ IF Source.out # None \/ rpc.kind = "clear" THEN Replace(Source.out)
     ELSE UNCHANGED <<out, owned, astray, client>>
  /\ To("state")
  /\ UNCHANGED <<enabled, ckpt, svc, other, archive, used, handled, answer, torn, cut, starts>>

AppliesState ==
  /\ rpc.pc = "state"
  /\ IF Source.ckpt # None \/ rpc.kind = "clear"
       THEN ckpt' = Source.ckpt /\ owned' = owned \ {"ckpt"} /\ Touched
       ELSE UNCHANGED <<ckpt, owned, astray>>
  /\ torn' = ~Fits(Source.ckpt, Source.out)
  /\ To("own")
  /\ UNCHANGED <<enabled, out, svc, client, other, archive, used, handled, answer, cut, starts>>

OwnsFiles ==
  /\ rpc.pc = "own"
  /\ owned' = {"out", "ckpt"}
  /\ To("start")
  /\ UNCHANGED <<enabled, out, ckpt, svc, client, other, archive, used, handled, answer,
                 history>>

-----------------------------------------------------------------------------
(* Starting the service again, and rolling back. *)

RollBack == rpc' = [rpc EXCEPT !.pc = IF rpc.kind = "clear" THEN "output" ELSE "purge",
                               !.src = "pre"]

(* A rollback always calls the init script; a restore if the settings it has restored say
   so, and a clear if those it has loaded do.  Faulty variant: a restore goes by the
   settings from before it.                                                              *)
StartWantedBefore == rpc.src = "pre" \/ rpc.pre.enabled
StartWanted == rpc.src = "pre" \/ (IF rpc.kind = "restore" THEN enabled ELSE rpc.pre.enabled)

(* The init script, whoever runs it: initialize secures the files, and procd keeps a client
   that runs with the same configuration.                                                *)
Launches ==
  /\ svc' = TRUE
  /\ client' \in {client, None}
  /\ owned' = {"out", "ckpt"}

Down == svc' = FALSE /\ client' = None

(* On the way back the outcome is not looked at. *)
Starts ==
  /\ rpc.pc = "start"
  /\ CASE ~StartWanted            -> UNCHANGED <<svc, client, owned, broken>>
       [] StartWanted /\ enabled  -> Launches /\ broken' = FALSE
       [] StartWanted /\ ~enabled -> Down /\ broken' = FALSE /\ UNCHANGED owned
  /\ IF rpc.src = "pre" THEN Answers("error")
     ELSE IF rpc.kind = "restore" /\ StartWanted THEN To("confirm") /\ UNCHANGED answer
     ELSE Answers("ok")
  /\ UNCHANGED <<enabled, out, ckpt, other, archive, used, handled, torn, cut, astray,
                 lost>>

StartFails ==
  /\ rpc.pc = "start" /\ StartWanted /\ enabled
  /\ Mishap
  /\ Down /\ broken' = TRUE
  /\ IF rpc.src = "pre" THEN Answers("error") ELSE RollBack /\ UNCHANGED answer
  /\ UNCHANGED <<disk, other, archive, handled, torn, cut, astray, lost>>

(* A client that was started for this restore has published its status. *)
Confirms ==
  /\ rpc.pc = "confirm" /\ client # None
  /\ client.young
  /\ Answers("ok")
  /\ UNCHANGED <<disk, svc, client, other, archive, used, handled, history>>

(* No fresh status in 12 s: the client is an older one, cannot open its files, or is slow. *)
Slow == client = None /\ CanOpen
NotConfirmed ==
  /\ rpc.pc = "confirm" /\ (client # None => ~client.young)
  /\ IF Slow THEN Mishap ELSE UNCHANGED used
  /\ RollBack
  /\ UNCHANGED <<disk, svc, client, other, archive, handled, answer, history>>

(* A file operation fails.  On the way back restoreFiles goes on with the next file, and a
   restore gives up and starts the client on what it left.                             *)
NextFile == IF rpc.kind = "clear" /\ rpc.pc # "own"
              THEN [output |-> "state", state |-> "own"][rpc.pc]
              ELSE "start"

Fails ==
  /\ rpc.pc \in {"truncate", "own_output", "remove_state", "purge", "purge_state", "settings",
                 "output", "state", "own"}
  /\ Mishap
  /\ IF rpc.src = "pre" THEN To(NextFile) /\ cut' = TRUE ELSE RollBack /\ UNCHANGED cut
  /\ UNCHANGED <<disk, svc, client, other, archive, handled, answer, torn, astray, starts>>

-----------------------------------------------------------------------------
(* What nobody in the helper knows of. *)

(* A package script, a reload trigger or the operator starts the init script, most of them
   after a stop; a service that is disabled is down then.                                *)
OutsideBegins ==
  /\ other = "idle"
  /\ Mishap
  /\ Down \/ (enabled /\ UNCHANGED <<svc, client>>)
  /\ other' = IF enabled THEN "init" ELSE "idle"
  /\ UNCHANGED <<disk, rpc, archive, handled, answer, history>>

(* initialize writes the settings back that it has loaded, perhaps before a restore. *)
OutsideStarts ==
  /\ other = "init"
  /\ Launches
  /\ enabled' \in {enabled, TRUE}
  /\ lost' = (lost \/ enabled' # enabled)
  /\ broken' = FALSE
  /\ other' = "idle"
  /\ UNCHANGED <<out, ckpt, rpc, archive, used, handled, answer, torn, cut, astray>>

OutsideFails ==
  /\ other = "init"
  /\ Mishap
  /\ Down /\ broken' = TRUE
  /\ other' = "idle"
  /\ UNCHANGED <<disk, rpc, archive, handled, answer, torn, cut, astray, lost>>

(* The power fails; the boot runs the init script. *)
PowerLoss ==
  /\ Mishap
  /\ rpc' = NoRequest /\ answer' = None /\ other' = "idle"
  /\ client' = None
  /\ svc' = enabled
  /\ owned' = IF enabled THEN {"out", "ckpt"} ELSE owned
  /\ cut' = (cut \/ Replacing)
  /\ broken' = FALSE
  /\ UNCHANGED <<enabled, out, ckpt, archive, handled, torn, astray, lost>>

-----------------------------------------------------------------------------
RequestSteps ==
  \/ ReadsOutput \/ ReadsState \/ Stops
  \/ Truncates \/ OwnsOutput \/ RemovesState
  \/ PurgesOutput \/ PurgesState \/ AppliesSettings \/ AppliesOutput \/ AppliesState \/ OwnsFiles
  \/ Starts \/ Confirms

Next ==
  \/ ClientOpens \/ Collects \/ Delivers
  \/ \E kind \in {"clear", "backup", "restore"} : Begins(kind)
  \/ RequestSteps
  \/ StopFails \/ StartFails \/ NotConfirmed \/ Fails
  \/ OutsideBegins \/ OutsideStarts \/ OutsideFails
  \/ PowerLoss

Spec == Init /\ [][Next]_vars

(* The helper, the init script and the client run; a restore gives up a client that cannot
   open its files or is an older one.                                                    *)
FairSpec == /\ Spec
            /\ WF_vars(RequestSteps) /\ WF_vars(ClientOpens) /\ WF_vars(OutsideStarts)
            /\ WF_vars(NotConfirmed /\ ~Slow)

-----------------------------------------------------------------------------
(* The types of the variables; a sender never stands behind the end of its file, because
   openRuleBotSender refuses such a checkpoint whoever has put it there.                 *)
TypeOK ==
  /\ enabled \in BOOLEAN
  /\ out \in Outputs
  /\ ckpt \in Checkpoints
  /\ owned \subseteq {"out", "ckpt"}
  /\ svc \in BOOLEAN
  /\ client \in Clients \cup {None}
  /\ other \in {"idle", "init"}
  /\ rpc.kind \in {"clear", "backup", "restore", None}
  /\ rpc.new \in Archives \cup {None}
  /\ rpc.pre \in Archives \cup {None}
  /\ archive \in Archives \cup {None}
  /\ handled \subseteq Lines
  /\ answer \in {"ok", "error", None}
  /\ {torn, cut, astray, broken, lost} \subseteq BOOLEAN
  /\ client # None => client.sent <= Len(client.log)

(* Between requests the checkpoint fits the output, unless a pair that does not fit was the
   last one put back; and if it does, every line before it was delivered or passed over on
   purpose, so that clearing, restoring and rolling back make the sender skip no line.  It
   holds while no replacement was cut off and no client ran during one.                  *)
CheckpointCovers ==
  Idle /\ ~cut /\ ~astray /\ ckpt # None =>
    /\ ~torn => Fits(ckpt, out)
    /\ Fits(ckpt, out) => \A i \in 1..ckpt : out[i] \in handled

(* In the end every request is answered, and an enabled service has its client back, whatever
   failed and whoever started it in between, unless the last start failed, openRuleBotSender
   must refuse the checkpoint that it finds, or older settings were put back.            *)
EventuallyBack ==
  <>[](/\ Idle
       /\ enabled /\ ~broken /\ ~lost /\ Fits(ckpt, out) => client # None)
=============================================================================
