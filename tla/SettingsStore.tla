--------------------------- MODULE SettingsStore ---------------------------
(***************************************************************************)
(* The settings of the OpenWrt package: the UCI file, the credential       *)
(* files, the generated runtime configuration, and the service that reads  *)
(* them.  Requests of the web interface are handled one at a time (the     *)
(* rpcd bridge waits for each helper process), but the package scripts and *)
(* procd run the init script at any time, and no lock is shared.  Files    *)
(* are replaced by atomicWrite, one step each.  The machine may lose power *)
(* between any two steps.                                                  *)
(***************************************************************************)
EXTENDS Integers, FiniteSets

CONSTANTS Sources,       \* stable IDs of controllers
          Token,         \* the Rule-Bot token, a credential like the others
          Secrets,       \* contents of a credential file
          None,          \* an absent file, or no process
          Requests,      \* settings requests that the pages may submit
          Installed,     \* settings and credentials that earlier requests may have left
          MaxRequests,   \* bound: requests in a behaviour
          MaxMishaps     \* bound: failing operations, outside restarts and power losses

Creds == Sources \cup {Token}
Edits == {"keep", "clear"} \cup Secrets
UCI == [enabled : BOOLEAN, auto : BOOLEAN, rulebot : BOOLEAN,
        sources : (SUBSET Sources) \ {{}}]

(* What is stored. *)
Values == [uci : UCI, creds : [Creds -> Secrets \cup {None}]]

(* A validated request: the settings and one edit per credential file. *)
SaveRequest == [uci : UCI, edit : [Creds -> Edits]]

ASSUME SettingsAssumption ==
         /\ Token \notin Sources
         /\ None \notin Secrets \cup Values
         /\ {"uci", "conf"} \cap Creds = {}
         /\ {"keep", "clear"} \cap Secrets = {}
         /\ Requests \subseteq SaveRequest
         /\ Installed \subseteq Values
         /\ \A i \in Installed : /\ \A c \in Sources \ i.uci.sources : i.creds[c] = None
                               /\ i.uci.rulebot => i.creds[Token] # None
         /\ {MaxRequests, MaxMishaps} \subseteq Nat

VARIABLES
  uci,         \* /etc/config/rule_bot_client
  creds,       \* the credential files: content or None
  readable,    \* credential files whose group is the client's
  conf,        \* /var/run/rule-bot-client/config.json (tmpfs), or None
  svc,         \* procd has an instance of the client
  client,      \* what the running client has loaded, or None
  rpc,         \* the helper process of the current request
  start,       \* the runs of the init script, by who runs it
  used,        \* requests and mishaps so far
  granted,     \* history: secrets the operator gave a source since it was added
  lost,        \* history: stale settings were written back, or a rollback left a file,
               \* because of an error or because the power failed
  torn,        \* history: the power failed in the middle of a request
  raced,       \* history: an outside run of the init script overlapped a request
  broken,      \* history: an operation of a start or of a rollback failed
  halted       \* history: the operator stopped the service

files == <<uci, creds, readable, conf>>
service == <<svc, client>>
history == <<granted, lost, torn, raced, broken, halted>>
vars == <<files, service, rpc, start, used, history>>

(* The two callers of the init script: a request, and everything else. *)
Callers == {"rpc", "sys"}

Before == [uci : UCI, creds : [Creds -> Secrets \cup {None}],
           conf : [sources : SUBSET Sources, files : SUBSET Creds] \cup {None}]

(* The configuration that generate builds from settings u, and what a client loads. *)
SecretFiles(u) == {c \in u.sources : creds[c] # None}
ConfOf(u) == [sources |-> u.sources,
              files |-> SecretFiles(u) \cup (IF u.rulebot THEN {Token} ELSE {})]
Loaded(k) == [sources |-> k.sources, secrets |-> [c \in k.files |-> creds[c]]]
CanGenerate(u) == u.rulebot => creds[Token] # None
CanOpen(k) == \A c \in k.files : creds[c] # None /\ c \in readable

Idle == rpc.pc = "idle"
InSave == rpc.pc \notin {"idle", "auto", "service"}
Spent(what) == used' = [used EXCEPT ![what] = @ + 1]
Mishap == used.mishaps < MaxMishaps /\ Spent("mishaps")

Init ==
  /\ \E i \in Installed : uci = i.uci /\ creds = i.creds
  /\ readable = Creds
  /\ conf = IF uci.enabled THEN ConfOf(uci) ELSE None
  /\ svc = uci.enabled
  /\ client = IF uci.enabled THEN Loaded(conf) ELSE None
  /\ rpc = [pc |-> "idle", req |-> None, old |-> None, todo |-> {}, at |-> None]
  /\ start = [p \in Callers |-> [pc |-> "idle", seen |-> None]]
  /\ used = [requests |-> 0, mishaps |-> 0]
  /\ granted = [c \in Creds |-> {creds[c]} \cap Secrets]
  /\ lost = FALSE /\ torn = FALSE /\ raced = FALSE /\ broken = FALSE /\ halted = FALSE

-----------------------------------------------------------------------------
(* /etc/init.d/rule-bot-client restart or reload, run by p: stop, then start_service. *)

StopService == svc' = FALSE /\ client' = None

At(p, from) == start[p].pc = from
Holds(p, to, seen) == start' = [start EXCEPT ![p] = [pc |-> to, seen |-> seen]]
Goto(p, to) == Holds(p, to, None)
Ends(p, result) == Goto(p, IF p = "sys" THEN "idle" ELSE result)

StartStops(p) ==
  /\ At(p, "stop")
  /\ StopService
  /\ Goto(p, "init")
  /\ UNCHANGED <<files, rpc, used, history>>

(* config_get_bool enabled, then initialize loads and validates the settings.  A run
   that declares no instance leaves procd without one.                           *)
StartReads(p) ==
  /\ At(p, "init")
  /\ IF uci.enabled
       THEN Holds(p, "write", uci) /\ UNCHANGED service
       ELSE Ends(p, "started") /\ StopService
  /\ UNCHANGED <<files, rpc, used, history>>

(* secureCredentialFiles: the files that the client may read then.
   Faulty variant: files are left as they are.                    *)
SecuredNot == readable
Secured == Creds

(* initialize writes back the settings it loaded and secures the credential files. *)
StartWrites(p) ==
  /\ At(p, "write")
  /\ uci' = start[p].seen
  /\ readable' = Secured
  /\ lost' = (lost \/ uci # start[p].seen)
  /\ Goto(p, "gen")
  /\ UNCHANGED <<creds, conf, service, rpc, used, granted, torn, raced, broken, halted>>

(* generate loads the settings again. *)
StartGenerates(p) ==
  /\ At(p, "gen")
  /\ IF uci.enabled /\ ~CanGenerate(uci)
       THEN Ends(p, "failed") /\ StopService
       ELSE Holds(p, "launch", uci) /\ UNCHANGED service
  /\ UNCHANGED <<files, rpc, used, history>>

(* The configuration is published, unless the service was disabled meanwhile, and procd is
   given the instance: it keeps a client whose configuration is the same, and otherwise
   starts one, which opens its files on its own.                                       *)
SameConf == /\ svc /\ client # None /\ conf' # None
            /\ client.sources = conf'.sources /\ DOMAIN client.secrets = conf'.files
StartLaunches(p) ==
  /\ At(p, "launch")
  /\ conf' = IF start[p].seen.enabled THEN ConfOf(start[p].seen) ELSE conf
  /\ svc' = TRUE
  /\ client' = IF SameConf THEN client ELSE None
  /\ Ends(p, "started")
  /\ broken' = FALSE /\ halted' = FALSE
  /\ UNCHANGED <<uci, creds, readable, rpc, used, granted, lost, torn, raced>>

(* An operation of initialize or generate fails: a full disk, no controller found. *)
StartFails(p) ==
  /\ start[p].pc \in {"init", "write", "gen", "launch"}
  /\ Mishap
  /\ Ends(p, "failed")
  /\ StopService
  /\ broken' = TRUE
  /\ UNCHANGED <<files, rpc, granted, lost, torn, raced, halted>>

(* A package script or a procd reload trigger runs the init script. *)
Restart ==
  /\ At("sys", "idle")
  /\ Mishap
  /\ Goto("sys", "stop")
  /\ raced' = ~Idle
  /\ UNCHANGED <<files, service, rpc, granted, lost, torn, broken, halted>>

(* The client reads its configuration and credentials; procd respawns it until it can. *)
ClientOpens ==
  /\ svc /\ client = None
  /\ conf # None /\ CanOpen(conf)
  /\ client' = Loaded(conf)
  /\ UNCHANGED <<files, svc, rpc, start, used, history>>

-----------------------------------------------------------------------------
(* Backend.save *)

Now == [uci |-> uci, creds |-> creds, conf |-> conf]
To(pc) == rpc' = [rpc EXCEPT !.pc = pc]
Overlaps == raced' = (raced \/ ~At("sys", "idle"))

(* LoadSettings, ValidateSettings and the snapshot of the affected files. *)
SaveBegins(req) ==
  /\ Idle
  /\ used.requests < MaxRequests
  /\ Spent("requests")
  /\ rpc' = [pc |-> "creds", req |-> req, old |-> Now, todo |-> req.uci.sources, at |-> None]
  /\ granted' = [c \in Creds |-> granted[c] \cup ({req.edit[c]} \cap Secrets)]
  /\ Overlaps
  /\ UNCHANGED <<files, service, start, lost, torn, broken, halted>>

(* What an edit that changes nothing leaves: a file that no configured source owned is not
   kept.  Faulty variant: it is.                                                        *)
KeptAlways(c) == rpc.old.creds[c]
Kept(c) == IF c = Token \/ c \in rpc.old.uci.sources THEN rpc.old.creds[c] ELSE None

(* What writeCredentials leaves in the file of c.  Faulty variant: every edit is a secret. *)
EditedAsGiven(c) == IF rpc.req.edit[c] = "clear" THEN None ELSE rpc.req.edit[c]
Edited(c) == LET e == rpc.req.edit[c]
             IN  CASE e = "clear" -> None
                   [] e = "keep" -> Kept(c)
                   [] OTHER -> e
MissingToken == rpc.req.uci.rulebot /\ creds'[Token] = None

(* affectedPaths: the files that a request may replace or remove.
   Faulty variant: only those of the sources configured so far.  *)
AffectedBefore == {"uci", "conf", Token} \cup rpc.old.uci.sources
Affected == {"uci", "conf", Token} \cup rpc.old.uci.sources \cup rpc.req.uci.sources
RollBack == rpc' = [rpc EXCEPT !.pc = "restore", !.todo = Affected, !.at = None]

(* One credential: sources first, the token last.  A new file is not readable yet. *)
WritesCredential(c) ==
  /\ rpc.pc = "creds"
  /\ c \in rpc.todo \/ (rpc.todo = {} /\ c = Token)
  /\ creds' = [creds EXCEPT ![c] = Edited(c)]
  /\ IF rpc.req.edit[c] \in Secrets
       THEN /\ readable' = readable \ {c}
            /\ rpc' = [rpc EXCEPT !.pc = "secure", !.todo = @ \ {c}, !.at = c]
       ELSE /\ UNCHANGED readable
            /\ IF c # Token THEN rpc' = [rpc EXCEPT !.todo = @ \ {c}]
               ELSE IF MissingToken THEN RollBack ELSE To("uci")
  /\ UNCHANGED <<uci, conf, service, start, used, history>>

(* secureRuntimeReadable on the file just written; the token was the last one. *)
SecuresCredential(c) ==
  /\ rpc.pc = "secure" /\ rpc.at = c
  /\ readable' = readable \cup {c}
  /\ rpc' = [rpc EXCEPT !.pc = IF c = Token THEN "uci" ELSE "creds", !.at = None]
  /\ UNCHANGED <<uci, creds, conf, service, start, used, history>>

WritesUCI ==
  /\ rpc.pc = "uci"
  /\ uci' = rpc.req.uci
  /\ To(IF rpc.req.uci.enabled THEN "gen" ELSE "stop")
  /\ UNCHANGED <<creds, readable, conf, service, start, used, history>>

Generates ==
  /\ rpc.pc = "gen"
  /\ IF uci.enabled /\ ~CanGenerate(uci)
       THEN UNCHANGED conf /\ RollBack /\ UNCHANGED start
       ELSE /\ conf' = IF uci.enabled THEN ConfOf(uci) ELSE conf
            /\ To("reload")
            /\ Goto("rpc", "stop")
  /\ UNCHANGED <<uci, creds, readable, service, used, history>>

(* runService("reload") returns; rc.common may hide that start_service failed. *)
Reloaded ==
  /\ rpc.pc = "reload"
  /\ start["rpc"].pc \in {"started", "failed"}
  /\ To("confirm") \/ (At("rpc", "failed") /\ RollBack)
  /\ Goto("rpc", "idle")
  /\ UNCHANGED <<files, service, used, history>>

(* The client has published a fresh status. *)
ConfirmsHealthy ==
  /\ rpc.pc = "confirm" /\ client # None
  /\ To("orphans")
  /\ UNCHANGED <<files, service, start, used, history>>

(* 12 s pass without a fresh status, because no client can come up. *)
ConfirmTimesOut ==
  /\ rpc.pc = "confirm" /\ client = None
  /\ ~svc \/ conf = None \/ ~CanOpen(conf)
  /\ RollBack
  /\ UNCHANGED <<files, service, start, used, history>>

(* The settings are disabled; there is nothing to generate or to confirm. *)
StopsDisabled ==
  /\ rpc.pc = "stop"
  /\ StopService
  /\ To("orphans")
  /\ UNCHANGED <<files, start, used, history>>

Orphans == rpc.old.uci.sources \ rpc.req.uci.sources
Forget(cs) == creds' = [c \in Creds |-> IF c \in cs THEN None ELSE creds[c]]
Done == rpc' = [pc |-> "idle", req |-> None, old |-> None, todo |-> {}, at |-> None]
KeepGrants == granted' = [c \in Creds |-> IF c \in uci.sources \cup {Token}
                                            THEN granted[c] ELSE {}]

(* removeOrphanCredentials succeeds: the request is committed. *)
Commits ==
  /\ rpc.pc = "orphans"
  /\ Forget(Orphans)
  /\ Done
  /\ KeepGrants
  /\ UNCHANGED <<uci, readable, conf, service, start, used, lost, torn, raced, broken, halted>>

(* Any operation before the commit fails, or the new client is too slow for the 12 s;
   the check of a generated configuration fails after it was published.           *)
SaveFails ==
  /\ rpc.pc \in {"creds", "secure", "uci", "gen", "confirm", "stop", "orphans"}
  /\ Mishap
  /\ IF rpc.pc = "orphans" THEN \E cs \in SUBSET Orphans : Forget(cs)
     ELSE UNCHANGED creds
  /\ conf' = IF rpc.pc = "gen" /\ CanGenerate(uci) THEN ConfOf(uci) ELSE conf
  /\ RollBack
  /\ UNCHANGED <<uci, readable, service, start, history>>

(* restoreFiles: one file, in the order of a Go map; an error is ignored. *)
Restores(f) ==
  /\ rpc.pc = "restore" /\ f \in rpc.todo
  /\ rpc' = [rpc EXCEPT !.todo = @ \ {f}]
  /\ \/ /\ uci' = IF f = "uci" THEN rpc.old.uci ELSE uci
        /\ conf' = IF f = "conf" THEN rpc.old.conf ELSE conf
        /\ creds' = [c \in Creds |-> IF c = f THEN rpc.old.creds[c] ELSE creds[c]]
        /\ readable' = IF f \in Creds /\ rpc.old.creds[f] # None
                         THEN readable \ {f} ELSE readable
        /\ UNCHANGED <<used, lost, broken>>
     \/ /\ Mishap
        /\ lost' = TRUE /\ broken' = TRUE
        /\ UNCHANGED files
  /\ UNCHANGED <<service, start, granted, torn, raced, halted>>

(* The service goes back to the settings from before the request. *)
RestartsOld ==
  /\ rpc.pc = "restore" /\ rpc.todo = {} /\ rpc.old.uci.enabled
  /\ conf' = IF uci.enabled /\ CanGenerate(uci) THEN ConfOf(uci) ELSE conf
  /\ To("back")
  /\ Goto("rpc", "stop")
  /\ UNCHANGED <<uci, creds, readable, service, used, history>>

StopsOld ==
  /\ rpc.pc = "restore" /\ rpc.todo = {} /\ ~rpc.old.uci.enabled
  /\ StopService
  /\ Done
  /\ UNCHANGED <<files, start, used, history>>

RolledBack ==
  /\ rpc.pc = "back"
  /\ start["rpc"].pc \in {"started", "failed"}
  /\ Goto("rpc", "idle")
  /\ Done
  /\ UNCHANGED <<files, service, used, history>>

-----------------------------------------------------------------------------
(* The other requests that change this state. *)

Request(pc, req) ==
  /\ Idle
  /\ used.requests < MaxRequests
  /\ Spent("requests")
  /\ rpc' = [pc |-> pc, req |-> req, old |-> Now, todo |-> {}, at |-> None]
  /\ Overlaps

(* setAutomaticUpdates loads the settings, changes one and writes them all. *)
AutoBegins ==
  /\ Request("auto", [uci |-> [uci EXCEPT !.auto = ~@], edit |-> [c \in Creds |-> "keep"]])
  /\ UNCHANGED <<files, service, start, granted, lost, torn, broken, halted>>

AutoWrites ==
  /\ rpc.pc = "auto"
  /\ uci' = rpc.req.uci
  /\ lost' = (lost \/ uci # rpc.old.uci)
  /\ Done
  /\ UNCHANGED <<creds, readable, conf, service, start, used, granted, torn, raced, broken, halted>>

(* The service action: stop, or any action that ends in a start. *)
ServiceStops ==
  /\ Request("service", None)
  /\ Goto("rpc", "started")
  /\ StopService
  /\ halted' = TRUE
  /\ UNCHANGED <<files, granted, lost, torn, broken>>

ServiceStarts ==
  /\ Request("service", None)
  /\ \E pc \in {"stop", "init"} : Goto("rpc", pc)
  /\ UNCHANGED <<files, service, granted, lost, torn, broken, halted>>

ServiceEnds ==
  /\ rpc.pc = "service"
  /\ start["rpc"].pc \in {"started", "failed"}
  /\ Goto("rpc", "idle")
  /\ Done
  /\ UNCHANGED <<files, service, used, history>>

(* A request has changed something that it has not put back. *)
Half == InSave /\ <<uci, creds>> # <<rpc.old.uci, rpc.old.creds>>

(* Power is lost: processes and tmpfs go, files stay, and the boot starts the service. *)
PowerLoss ==
  /\ Mishap
  /\ conf' = None
  /\ StopService
  /\ Done
  /\ start' = [p \in Callers |-> [pc |-> IF p = "sys" THEN "init" ELSE "idle", seen |-> None]]
  /\ torn' = (torn \/ Half)
  /\ lost' = (lost \/ (rpc.pc = "restore" /\ Half))
  /\ KeepGrants
  /\ raced' = FALSE /\ broken' = FALSE /\ halted' = FALSE
  /\ UNCHANGED <<uci, creds, readable>>

-----------------------------------------------------------------------------
StartSteps(p) == \/ StartStops(p) \/ StartReads(p) \/ StartWrites(p)
                 \/ StartGenerates(p) \/ StartLaunches(p)

RequestSteps ==
  \/ \E c \in Creds : WritesCredential(c) \/ SecuresCredential(c)
  \/ WritesUCI \/ Generates \/ Reloaded \/ ConfirmsHealthy \/ ConfirmTimesOut
  \/ StopsDisabled \/ Commits
  \/ \E f \in Creds \cup {"uci", "conf"} : Restores(f)
  \/ RestartsOld \/ StopsOld \/ RolledBack
  \/ AutoWrites \/ ServiceEnds

Next ==
  \/ \E p \in Callers : StartSteps(p) \/ StartFails(p)
  \/ Restart \/ ClientOpens
  \/ \E req \in Requests : SaveBegins(req)
  \/ RequestSteps \/ SaveFails
  \/ AutoBegins \/ ServiceStops \/ ServiceStarts
  \/ PowerLoss

Spec == Init /\ [][Next]_vars

(* Processes that run make progress; requests, restarts and faults need not come. *)
Fairness ==
  /\ WF_vars(RequestSteps)
  /\ WF_vars(ClientOpens)
  /\ \A p \in Callers : WF_vars(StartSteps(p))

FairSpec == Spec /\ Fairness

-----------------------------------------------------------------------------
(* The types of the variables. *)
TypeOK ==
  /\ uci \in UCI
  /\ creds \in [Creds -> Secrets \cup {None}]
  /\ readable \subseteq Creds
  /\ conf \in [sources : SUBSET Sources, files : SUBSET Creds] \cup {None}
  /\ svc \in BOOLEAN
  /\ client = None \/ (client.sources \subseteq Sources /\ DOMAIN client.secrets \subseteq Creds)
  /\ rpc.pc \in {"idle", "creds", "secure", "uci", "gen", "reload", "confirm", "stop",
                 "orphans", "restore", "back", "auto", "service"}
  /\ rpc.req \in SaveRequest \cup {None}
  /\ rpc.old \in Before \cup {None}
  /\ rpc.todo \subseteq Creds \cup {"uci", "conf"}
  /\ rpc.at \in Creds \cup {None}
  /\ start \in [Callers -> [pc : {"idle", "stop", "init", "write", "gen", "launch",
                                  "started", "failed"}, seen : UCI \cup {None}]]
  /\ used \in [requests : 0..MaxRequests, mishaps : 0..MaxMishaps]
  /\ granted \in [Creds -> SUBSET Secrets]
  /\ {lost, torn, raced, broken, halted} \subseteq BOOLEAN

(* A request to save settings, or to switch automatic updates, takes effect as a whole or
   not at all, whichever of its operations fails, until a start from outside writes stale
   settings over it, the power fails in the middle, or the rollback itself fails.     *)
Candidate == [uci |-> rpc.req.uci,
              creds |-> [c \in Creds |->
                           IF c \in rpc.req.uci.sources \cup {Token} THEN Edited(c)
                           ELSE IF c \in rpc.old.uci.sources THEN None
                           ELSE rpc.old.creds[c]]]
Promise == INSTANCE Transaction WITH
             NoRequest <- None,
             value <- IF InSave /\ ~lost /\ ~torn
                        THEN [uci |-> rpc.old.uci, creds |-> rpc.old.creds]
                        ELSE [uci |-> uci, creds |-> creds],
             pending <- IF rpc.pc \in {"idle", "service"} THEN None ELSE Candidate,
             sound <- ~lost /\ ~torn
ImplementsTransaction == Promise!TSpec

(* A controller that is added never gets the secret of an earlier controller with the same
   ID, even when a power loss left that secret behind: between requests a configured source
   has no secret but one given to it since it was added.  A rollback that is cut off can put
   such a secret back before the settings (lost).                                      *)
NoInheritedSecret ==
  Idle /\ ~lost => \A c \in uci.sources : creds[c] = None \/ creds[c] \in granted[c]

(* The client can be started: the settings ask for it, and nothing is missing, failed,
   stopped by the operator or run into by an outside start.                          *)
Wanted == uci.enabled /\ CanGenerate(uci) /\ ~raced /\ ~broken /\ ~halted

(* In the end every request is answered and every start is over, and the client runs with
   exactly the settings and credentials that are stored, also after failed requests and
   power losses at any point: no credential is left that the client may not read.    *)
EventuallyServed ==
  <>[](/\ Idle /\ \A p \in Callers : At(p, "idle")
       /\ Wanted => client = Loaded(ConfOf(uci)))
=============================================================================
