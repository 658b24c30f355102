-------------------------- MODULE SettingsProofs --------------------------
(***************************************************************************)
(* What holds of SettingsStore for every value of its constants, proved    *)
(* with TLAPS: types, that a request takes effect as a whole or not at all *)
(* (the refinement of Transaction), and that a controller that is added    *)
(* never gets the secret of an earlier one.                                *)
(***************************************************************************)
EXTENDS SettingsStore, TLAPS

----------------------------------------------------------------------------
(* Types *)

Contents == [Creds -> Secrets \cup {None}]
Configs == [sources : SUBSET Sources, files : SUBSET Creds]
RequestPcs == {"idle", "creds", "secure", "uci", "gen", "reload", "confirm", "stop",
               "orphans", "restore", "back", "auto", "service"}
StartPcs == {"idle", "stop", "init", "write", "gen", "launch", "started", "failed"}

\* What is stored and what runs.
StoreTyped == /\ uci \in UCI
              /\ creds \in Contents
              /\ readable \subseteq Creds
              /\ conf \in Configs \cup {None}
ServiceTyped == /\ svc \in BOOLEAN
                /\ client = None \/ (client.sources \subseteq Sources
                                     /\ DOMAIN client.secrets \subseteq Creds)

\* A request that runs has what it needs.
RequestTyped ==
  /\ rpc \in [pc : RequestPcs, req : SaveRequest \cup {None}, old : Before \cup {None},
              todo : SUBSET (Creds \cup {"uci", "conf"}), at : Creds \cup {None}]
  /\ rpc.pc # "idle" => rpc.old \in Before
  /\ rpc.pc \notin {"idle", "service"} => rpc.req \in SaveRequest

\* So has a run of the init script.
StartTyped ==
  /\ start \in [Callers -> [pc : StartPcs, seen : UCI \cup {None}]]
  /\ \A p \in Callers : start[p].pc \in {"write", "launch"} => start[p].seen \in UCI

HistoryTyped == /\ used \in [requests : 0..MaxRequests, mishaps : 0..MaxMishaps]
                /\ granted \in [Creds -> SUBSET Secrets]
                /\ lost \in BOOLEAN /\ torn \in BOOLEAN /\ raced \in BOOLEAN
                /\ broken \in BOOLEAN /\ halted \in BOOLEAN

Typed == StoreTyped /\ ServiceTyped /\ RequestTyped /\ StartTyped /\ HistoryTyped

\* The configuration that settings give, and the client that loads one.
LEMMA ConfTyped == \A s \in UCI : ConfOf(s) \in Configs
BY DEF ConfOf, SecretFiles, UCI, Configs, Creds

LEMMA LoadedTyped ==
  ASSUME NEW k \in Configs
  PROVE  Loaded(k).sources \subseteq Sources /\ DOMAIN Loaded(k).secrets \subseteq Creds
BY DEF Loaded, Configs

\* A step of a start: procd and the processes, whatever the outcome.
LEMMA StartMoves ==
  ASSUME StartTyped, NEW p \in Callers, NEW pc \in StartPcs, NEW seen \in UCI \cup {None},
         pc \in {"write", "launch"} => seen \in UCI, Holds(p, pc, seen)
  PROVE  StartTyped'
<1> DEFINE r == [pc |-> pc, seen |-> seen]
<1>1. /\ start' = [start EXCEPT ![p] = r]
      /\ r \in [pc : StartPcs, seen : UCI \cup {None}]
      /\ r.pc \in {"write", "launch"} => r.seen \in UCI
  BY DEF Holds
<1> HIDE DEF r
<1> QED
  BY <1>1 DEF StartTyped

LEMMA StartGoes ==
  ASSUME StartTyped, NEW p \in Callers, NEW pc \in StartPcs \ {"write", "launch"}, Goto(p, pc)
  PROVE  StartTyped'
BY StartMoves DEF Goto

LEMMA StartEnds ==
  ASSUME StartTyped, NEW p \in Callers, NEW result \in {"started", "failed"}, Ends(p, result)
  PROVE  StartTyped'
BY StartGoes DEF Ends, StartPcs

LEMMA ServiceStopped ==
  ASSUME StopService
  PROVE  ServiceTyped'
<1>1. svc' \in BOOLEAN
  BY DEF StopService
<1> QED
  BY <1>1 DEF StopService, ServiceTyped

LEMMA CountersTyped ==
  ASSUME used \in [requests : 0..MaxRequests, mishaps : 0..MaxMishaps],
         \/ UNCHANGED used \/ Mishap
         \/ used.requests < MaxRequests /\ Spent("requests")
  PROVE  used' \in [requests : 0..MaxRequests, mishaps : 0..MaxMishaps]
<1>1. MaxRequests \in Nat /\ MaxMishaps \in Nat
  BY SettingsAssumption
<1>2. used.requests \in 0..MaxRequests /\ used.mishaps \in 0..MaxMishaps
  OBVIOUS
<1>3. CASE Mishap
  <2>1. used' = [used EXCEPT !["mishaps"] = used.mishaps + 1] /\ used.mishaps + 1 \in 0..MaxMishaps
    BY <1>1, <1>2, <1>3 DEF Mishap, Spent
  <2> QED
    BY <2>1
<1>4. CASE used.requests < MaxRequests /\ Spent("requests")
  <2>1. /\ used' = [used EXCEPT !["requests"] = used.requests + 1]
        /\ used.requests + 1 \in 0..MaxRequests
    BY <1>1, <1>2, <1>4 DEF Spent
  <2> QED
    BY <2>1
<1> QED
  BY <1>3, <1>4

\* One step of the init script.
LEMMA TypedStart ==
  ASSUME Typed, NEW p \in Callers, StartSteps(p) \/ StartFails(p)
  PROVE  Typed'
<1>1. CASE StartStops(p)
  <2>1. StartTyped' /\ ServiceTyped'
    BY <1>1, StartGoes, ServiceStopped DEF StartStops, Typed, StartPcs
  <2> QED
    BY <1>1, <2>1 DEF StartStops, Typed, files, history, StoreTyped, RequestTyped, HistoryTyped
<1>2. CASE StartReads(p)
  <2>1. CASE uci.enabled
    <3>1. StartTyped'
      BY <1>2, <2>1, StartMoves DEF StartReads, Typed, StoreTyped, StartPcs
    <3> QED
      BY <1>2, <2>1, <3>1 DEF StartReads, Typed, files, service, history, StoreTyped,
                              ServiceTyped, RequestTyped, HistoryTyped
  <2>2. CASE ~uci.enabled
    <3>1. StartTyped' /\ ServiceTyped'
      BY <1>2, <2>2, StartEnds, ServiceStopped DEF StartReads, Typed
    <3> QED
      BY <1>2, <3>1 DEF StartReads, Typed, files, history, StoreTyped, RequestTyped,
                        HistoryTyped
  <2> QED
    BY <2>1, <2>2
<1>3. CASE StartWrites(p)
  <2>1. StartTyped'
    BY <1>3, StartGoes DEF StartWrites, Typed, StartPcs
  <2>2. uci' \in UCI /\ readable' \subseteq Creds
    BY <1>3 DEF StartWrites, At, Secured, Typed, StartTyped
  <2>3. lost' \in BOOLEAN
    BY <1>3 DEF StartWrites, Typed, HistoryTyped
  <2> QED
    BY <1>3, <2>1, <2>2, <2>3 DEF StartWrites, Typed, service, StoreTyped, ServiceTyped,
                                  RequestTyped, HistoryTyped
<1>4. CASE StartGenerates(p)
  <2>1. StartTyped' /\ ServiceTyped'
    BY <1>4, StartEnds, StartMoves, ServiceStopped
    DEF StartGenerates, Typed, StoreTyped, StartPcs, service, ServiceTyped
  <2> QED
    BY <1>4, <2>1 DEF StartGenerates, Typed, files, history, StoreTyped, RequestTyped,
                      HistoryTyped
<1>5. CASE StartLaunches(p)
  <2>1. StartTyped'
    BY <1>5, StartEnds DEF StartLaunches, Typed
  <2>2. conf' \in Configs \cup {None}
    BY <1>5, ConfTyped DEF StartLaunches, At, Typed, StartTyped, StoreTyped
  <2>3. svc' \in BOOLEAN /\ broken' \in BOOLEAN /\ halted' \in BOOLEAN
    BY <1>5 DEF StartLaunches
  <2>4. client' = client \/ client' = None
    BY <1>5 DEF StartLaunches
  <2> QED
    BY <1>5, <2>1, <2>2, <2>3, <2>4 DEF StartLaunches, Typed, StoreTyped, ServiceTyped,
                                        RequestTyped, HistoryTyped
<1>6. CASE StartFails(p)
  <2>1. StartTyped' /\ ServiceTyped'
    BY <1>6, StartEnds, ServiceStopped DEF StartFails, Typed
  <2>2. broken' \in BOOLEAN
    BY <1>6 DEF StartFails
  <2>3. HistoryTyped'
    BY <1>6, <2>2, CountersTyped DEF StartFails, Typed, HistoryTyped
  <2> QED
    BY <1>6, <2>1, <2>3 DEF StartFails, Typed, files, StoreTyped, RequestTyped
<1> QED
  BY <1>1, <1>2, <1>3, <1>4, <1>5, <1>6 DEF StartSteps

\* A request goes on: it keeps what it was asked and what was there before.
Files == Creds \cup {"uci", "conf"}
Asked == rpc.pc \notin {"idle", "service"}

LEMMA RequestMoves ==
  ASSUME RequestTyped, Asked, NEW pc \in RequestPcs, NEW todo \in SUBSET Files,
         NEW at \in Creds \cup {None},
         \/ rpc' = [rpc EXCEPT !.pc = pc]
         \/ rpc' = [rpc EXCEPT !.todo = todo]
         \/ rpc' = [rpc EXCEPT !.pc = pc, !.at = at]
         \/ rpc' = [rpc EXCEPT !.pc = pc, !.todo = todo, !.at = at]
  PROVE  RequestTyped' /\ rpc'.req = rpc.req /\ rpc'.old = rpc.old
<1> DEFINE T == [pc : RequestPcs, req : SaveRequest \cup {None}, old : Before \cup {None},
                 todo : SUBSET Files, at : Creds \cup {None}]
<1>1. rpc \in T /\ rpc.old \in Before /\ rpc.req \in SaveRequest
  BY DEF RequestTyped, Asked, Files
<1>2. rpc' \in T
  BY <1>1
<1>3. rpc'.req = rpc.req /\ rpc'.old = rpc.old
  BY <1>1
<1> QED
  BY <1>1, <1>2, <1>3 DEF RequestTyped, Files

LEMMA RequestDone ==
  ASSUME Done
  PROVE  RequestTyped' /\ rpc'.pc = "idle"
<1> DEFINE T == [pc : RequestPcs, req : SaveRequest \cup {None}, old : Before \cup {None},
                 todo : SUBSET Files, at : Creds \cup {None}]
<1>1. rpc' \in T /\ rpc'.pc = "idle"
  BY DEF Done, RequestPcs
<1> QED
  BY <1>1 DEF RequestTyped, Files

LEMMA RequestBegins ==
  ASSUME StoreTyped, NEW pc \in {"creds", "auto", "service"}, NEW req \in SaveRequest \cup {None},
         NEW todo \in SUBSET Files, pc # "service" => req \in SaveRequest,
         rpc' = [pc |-> pc, req |-> req, old |-> Now, todo |-> todo, at |-> None]
  PROVE  RequestTyped'
<1> DEFINE T == [pc : RequestPcs, req : SaveRequest \cup {None}, old : Before \cup {None},
                 todo : SUBSET Files, at : Creds \cup {None}]
<1>1. Now \in Before
  BY DEF Now, Before, StoreTyped, Contents, Configs
<1>2. /\ rpc' \in T
      /\ rpc'.pc = pc /\ rpc'.req = req /\ rpc'.old = Now
  BY <1>1 DEF RequestPcs
<1> QED
  BY <1>1, <1>2 DEF RequestTyped, Files

\* The fields of a request that runs.
LEMMA RequestFields ==
  ASSUME RequestTyped, Asked
  PROVE  /\ rpc.req.uci \in UCI
         /\ rpc.req.uci.sources \subseteq Sources
         /\ \A c \in Creds : rpc.req.edit[c] \in Edits
         /\ rpc.old.uci \in UCI
         /\ rpc.old.uci.sources \subseteq Sources
         /\ rpc.old.creds \in Contents
         /\ rpc.old.conf \in Configs \cup {None}
         /\ Sources \subseteq Creds /\ Token \in Creds
BY DEF RequestTyped, Asked, SaveRequest, UCI, Before, Contents, Configs, Creds

\* What writeCredentials leaves.
LEMMA EditedTyped ==
  ASSUME RequestTyped, Asked, NEW c \in Creds
  PROVE  Edited(c) \in Secrets \cup {None}
<1>1. rpc.req.edit[c] \in Edits /\ rpc.old.creds[c] \in Secrets \cup {None}
  BY RequestFields DEF Contents
<1> QED
  BY <1>1 DEF Edited, Kept, Edits

\* The files a rollback puts back.
LEMMA RollBackTyped ==
  ASSUME RequestTyped, Asked, RollBack
  PROVE  RequestTyped' /\ rpc'.req = rpc.req /\ rpc'.old = rpc.old
<1>1. Affected \in SUBSET Files
  BY RequestFields DEF Affected, Files
<1>2. rpc' = [rpc EXCEPT !.pc = "restore", !.todo = Affected, !.at = None]
  BY DEF RollBack
<1> QED
  BY <1>1, <1>2, RequestMoves DEF RequestPcs

LEMMA ForgetTyped ==
  ASSUME creds \in Contents, NEW cs, Forget(cs)
  PROVE  creds' \in Contents
BY DEF Forget, Contents

\* The steps of a request up to the new settings.
LEMMA TypedCredentials ==
  ASSUME Typed, NEW c \in Creds, WritesCredential(c) \/ SecuresCredential(c)
  PROVE  Typed'
<1>1. Asked /\ RequestTyped
  BY DEF WritesCredential, SecuresCredential, Asked, Typed
<1>2. CASE WritesCredential(c)
  <2>1. creds' \in Contents
    BY <1>1, <1>2, EditedTyped DEF WritesCredential, Typed, StoreTyped, Contents
  <2>2. readable' \subseteq Creds
    BY <1>2 DEF WritesCredential, Typed, StoreTyped
  <2>3. RequestTyped'
    <3> DEFINE left == rpc.todo \ {c}
    <3>1. left \in SUBSET Files
      BY <1>1 DEF RequestTyped, Files
    <3>2. \/ rpc' = [rpc EXCEPT !.pc = "secure", !.todo = left, !.at = c]
          \/ rpc' = [rpc EXCEPT !.todo = left]
          \/ RollBack
          \/ rpc' = [rpc EXCEPT !.pc = "uci"]
      BY <1>1, <1>2 DEF WritesCredential, To, RequestTyped
    <3>3. {"secure", "uci"} \subseteq RequestPcs
      BY DEF RequestPcs
    <3> QED
      BY <1>1, <3>1, <3>2, <3>3, RequestMoves, RollBackTyped
  <2> QED
    BY <1>2, <2>1, <2>2, <2>3 DEF WritesCredential, Typed, service, history, StoreTyped,
                                  ServiceTyped, StartTyped, HistoryTyped
<1>3. CASE SecuresCredential(c)
  <2>1. RequestTyped'
    BY <1>1, <1>3, RequestMoves DEF SecuresCredential, RequestPcs
  <2> QED
    BY <1>3, <2>1 DEF SecuresCredential, Typed, service, history, StoreTyped, ServiceTyped,
                      StartTyped, HistoryTyped
<1> QED
  BY <1>2, <1>3

\* The steps of a request from the new settings to its end or its failure.
LEMMA TypedSave ==
  ASSUME Typed,
         \/ WritesUCI \/ Generates \/ Reloaded \/ ConfirmsHealthy \/ ConfirmTimesOut
         \/ StopsDisabled \/ Commits \/ SaveFails
  PROVE  Typed'
<1>1. Asked /\ RequestTyped
  BY DEF WritesUCI, Generates, Reloaded, ConfirmsHealthy, ConfirmTimesOut, StopsDisabled,
         Commits, SaveFails, Asked, Typed
<1>2. "rpc" \in Callers
  BY DEF Callers
<1>3. CASE WritesUCI
  <2>1. RequestTyped'
    BY <1>1, <1>3, RequestMoves DEF WritesUCI, To, RequestPcs
  <2>2. uci' \in UCI
    BY <1>1, <1>3, RequestFields DEF WritesUCI
  <2> QED
    BY <1>3, <2>1, <2>2 DEF WritesUCI, Typed, service, history, StoreTyped, ServiceTyped,
                            StartTyped, HistoryTyped
<1>4. CASE Generates
  <2>1. RequestTyped' /\ StartTyped'
    <3>1. CASE RollBack /\ UNCHANGED start
      BY <1>1, <3>1, RollBackTyped DEF Typed, StartTyped
    <3>2. CASE To("reload") /\ Goto("rpc", "stop")
      <4>1. RequestTyped'
        BY <1>1, <3>2, RequestMoves DEF To, RequestPcs
      <4>2. StartTyped'
        BY <1>2, <3>2, StartGoes DEF Typed, StartPcs
      <4> QED
        BY <4>1, <4>2
    <3> QED
      BY <1>4, <3>1, <3>2 DEF Generates
  <2>2. conf' \in Configs \cup {None}
    BY <1>4, ConfTyped DEF Generates, Typed, StoreTyped
  <2> QED
    BY <1>4, <2>1, <2>2 DEF Generates, Typed, service, history, StoreTyped, ServiceTyped,
                            HistoryTyped
<1>5. CASE Reloaded
  <2>1. StartTyped'
    BY <1>2, <1>5, StartGoes DEF Reloaded, Typed, StartPcs
  <2>2. RequestTyped'
    BY <1>1, <1>5, RequestMoves, RollBackTyped DEF Reloaded, To, RequestPcs
  <2> QED
    BY <1>5, <2>1, <2>2 DEF Reloaded, Typed, files, service, history, StoreTyped, ServiceTyped,
                            HistoryTyped
<1>6. CASE ConfirmsHealthy \/ ConfirmTimesOut
  <2>1. RequestTyped'
    BY <1>1, <1>6, RequestMoves, RollBackTyped
    DEF ConfirmsHealthy, ConfirmTimesOut, To, RequestPcs
  <2> QED
    BY <1>6, <2>1 DEF ConfirmsHealthy, ConfirmTimesOut, Typed, files, service, history,
                      StoreTyped, ServiceTyped, StartTyped, HistoryTyped
<1>7. CASE StopsDisabled
  <2>1. RequestTyped' /\ ServiceTyped'
    BY <1>1, <1>7, RequestMoves, ServiceStopped DEF StopsDisabled, To, RequestPcs
  <2> QED
    BY <1>7, <2>1 DEF StopsDisabled, Typed, files, history, StoreTyped, StartTyped,
                      HistoryTyped
<1>8. CASE Commits
  <2>1. RequestTyped' /\ creds' \in Contents
    BY <1>8, RequestDone, ForgetTyped DEF Commits, Typed, StoreTyped
  <2>2. granted' \in [Creds -> SUBSET Secrets]
    BY <1>8 DEF Commits, KeepGrants, Typed, HistoryTyped
  <2> QED
    BY <1>8, <2>1, <2>2 DEF Commits, Typed, service, StoreTyped, ServiceTyped, StartTyped,
                            HistoryTyped
<1>9. CASE SaveFails
  <2>1. RequestTyped'
    BY <1>1, <1>9, RollBackTyped DEF SaveFails
  <2>2. creds' \in Contents
    BY <1>9, ForgetTyped DEF SaveFails, Typed, StoreTyped
  <2>3. conf' \in Configs \cup {None}
    BY <1>9, ConfTyped DEF SaveFails, Typed, StoreTyped
  <2>4. used' \in [requests : 0..MaxRequests, mishaps : 0..MaxMishaps]
    BY <1>9, CountersTyped DEF SaveFails, Typed, HistoryTyped
  <2> QED
    BY <1>9, <2>1, <2>2, <2>3, <2>4 DEF SaveFails, Typed, service, history, StoreTyped,
                                        ServiceTyped, StartTyped, HistoryTyped
<1> QED
  BY <1>3, <1>4, <1>5, <1>6, <1>7, <1>8, <1>9

\* The way back.
LEMMA TypedRollback ==
  ASSUME Typed,
         \/ \E f \in Creds \cup {"uci", "conf"} : Restores(f)
         \/ RestartsOld \/ StopsOld \/ RolledBack
  PROVE  Typed'
<1>1. Asked /\ RequestTyped
  BY DEF Restores, RestartsOld, StopsOld, RolledBack, Asked, Typed
<1>2. "rpc" \in Callers
  BY DEF Callers
<1>3. ASSUME NEW f \in Creds \cup {"uci", "conf"}, Restores(f)
      PROVE  Typed'
  <2>1. RequestTyped'
    <3> DEFINE left == rpc.todo \ {f}
    <3>1. left \in SUBSET Files
      BY <1>1 DEF RequestTyped, Files
    <3>2. rpc' = [rpc EXCEPT !.todo = left]
      BY <1>1, <1>3 DEF Restores, RequestTyped
    <3>3. rpc.pc \in RequestPcs /\ rpc.at \in Creds \cup {None}
      BY <1>1 DEF RequestTyped
    <3> QED
      BY <1>1, <3>1, <3>2, <3>3, RequestMoves
  <2>2. StoreTyped'
    BY <1>1, <1>3, RequestFields DEF Restores, files, Typed, StoreTyped, Contents
  <2>3. HistoryTyped'
    <3>1. lost' \in BOOLEAN /\ broken' \in BOOLEAN
      BY <1>3 DEF Restores, Typed, HistoryTyped
    <3> QED
      BY <1>3, <3>1, CountersTyped DEF Restores, Typed, HistoryTyped
  <2> QED
    BY <1>3, <2>1, <2>2, <2>3 DEF Restores, Typed, service, ServiceTyped, StartTyped
<1>4. CASE RestartsOld
  <2>1. RequestTyped' /\ StartTyped'
    <3>1. RequestTyped'
      BY <1>1, <1>4, RequestMoves DEF RestartsOld, To, RequestPcs
    <3>2. StartTyped'
      BY <1>2, <1>4, StartGoes DEF RestartsOld, Typed, StartPcs
    <3> QED
      BY <3>1, <3>2
  <2>2. conf' \in Configs \cup {None}
    BY <1>4, ConfTyped DEF RestartsOld, Typed, StoreTyped
  <2> QED
    BY <1>4, <2>1, <2>2 DEF RestartsOld, Typed, service, history, StoreTyped, ServiceTyped,
                            HistoryTyped
<1>5. CASE StopsOld
  <2>1. RequestTyped' /\ ServiceTyped'
    BY <1>5, RequestDone, ServiceStopped DEF StopsOld
  <2> QED
    BY <1>5, <2>1 DEF StopsOld, Typed, files, history, StoreTyped, StartTyped, HistoryTyped
<1>6. CASE RolledBack
  <2>1. RequestTyped' /\ StartTyped'
    BY <1>2, <1>6, RequestDone, StartGoes DEF RolledBack, Typed, StartPcs
  <2> QED
    BY <1>6, <2>1 DEF RolledBack, Typed, files, service, history, StoreTyped, ServiceTyped,
                      HistoryTyped
<1> QED
  BY <1>3, <1>4, <1>5, <1>6

\* The beginnings of requests, and the requests that are done in one more step.
LEMMA TypedBegin ==
  ASSUME Typed,
         \/ \E req \in Requests : SaveBegins(req)
         \/ AutoBegins \/ ServiceStops \/ ServiceStarts
  PROVE  Typed'
<1>1. \A req : Overlaps => raced' \in BOOLEAN
  BY DEF Overlaps, Typed, HistoryTyped
<1>2. "rpc" \in Callers
  BY DEF Callers
<1>3. ASSUME NEW req \in Requests, SaveBegins(req)
      PROVE  Typed'
  <2>1. req \in SaveRequest
    BY SettingsAssumption
  <2>2. RequestTyped'
    <3>1. req.uci.sources \in SUBSET Files
      BY <2>1 DEF SaveRequest, UCI, Files, Creds
    <3> QED
      BY <1>3, <2>1, <3>1, RequestBegins DEF SaveBegins, Typed
  <2>3. granted' \in [Creds -> SUBSET Secrets]
    BY <1>3 DEF SaveBegins, Typed, HistoryTyped
  <2>4. used' \in [requests : 0..MaxRequests, mishaps : 0..MaxMishaps]
    BY <1>3, CountersTyped DEF SaveBegins, Typed, HistoryTyped
  <2>5. raced' \in BOOLEAN
    BY <1>1, <1>3 DEF SaveBegins
  <2> QED
    BY <1>3, <2>2, <2>3, <2>4, <2>5 DEF SaveBegins, Typed, files, service, StoreTyped,
                                        ServiceTyped, StartTyped, HistoryTyped
<1>4. ASSUME NEW pc \in {"auto", "service"}, NEW req \in SaveRequest \cup {None},
             pc # "service" => req \in SaveRequest, Request(pc, req)
      PROVE  /\ RequestTyped'
             /\ raced' \in BOOLEAN
             /\ used' \in [requests : 0..MaxRequests, mishaps : 0..MaxMishaps]
  <2>1. RequestTyped'
    BY <1>4, RequestBegins DEF Request, Typed
  <2>2. raced' \in BOOLEAN
    BY <1>1, <1>4 DEF Request
  <2>3. used' \in [requests : 0..MaxRequests, mishaps : 0..MaxMishaps]
    BY <1>4, CountersTyped DEF Request, Typed, HistoryTyped
  <2> QED
    BY <2>1, <2>2, <2>3
<1>5. CASE AutoBegins
  <2> DEFINE req == [uci |-> [uci EXCEPT !.auto = ~uci.auto], edit |-> [c \in Creds |-> "keep"]]
  <2>1. req \in SaveRequest
    <3>1. (~uci.auto) \in BOOLEAN
      OBVIOUS
    <3>2. \A b \in BOOLEAN : [uci EXCEPT !.auto = b] \in UCI
      BY DEF Typed, StoreTyped, UCI
    <3>3. [uci EXCEPT !.auto = ~uci.auto] \in UCI
      BY <3>1, <3>2
    <3>4. [c \in Creds |-> "keep"] \in [Creds -> Edits]
      BY DEF Edits
    <3> QED
      BY <3>3, <3>4 DEF SaveRequest
  <2>2. Request("auto", req)
    BY <1>5 DEF AutoBegins, Typed, StoreTyped, UCI
  <2> HIDE DEF req
  <2>3. /\ RequestTyped'
        /\ raced' \in BOOLEAN
        /\ used' \in [requests : 0..MaxRequests, mishaps : 0..MaxMishaps]
    BY <1>4, <2>1, <2>2
  <2> QED
    BY <1>5, <2>3 DEF AutoBegins, Typed, files, service, StoreTyped, ServiceTyped, StartTyped,
                      HistoryTyped
<1>6. CASE ServiceStops
  <2>1. StartTyped' /\ ServiceTyped'
    BY <1>2, <1>6, StartGoes, ServiceStopped DEF ServiceStops, Typed, StartPcs
  <2>2. halted' \in BOOLEAN
    BY <1>6 DEF ServiceStops
  <2>3. /\ RequestTyped'
        /\ raced' \in BOOLEAN
        /\ used' \in [requests : 0..MaxRequests, mishaps : 0..MaxMishaps]
    BY <1>4, <1>6 DEF ServiceStops
  <2> QED
    BY <1>6, <2>1, <2>2, <2>3 DEF ServiceStops, Typed, files, StoreTyped, HistoryTyped
<1>7. CASE ServiceStarts
  <2>1. StartTyped'
    BY <1>2, <1>7, StartGoes DEF ServiceStarts, Typed, StartPcs
  <2>2. /\ RequestTyped'
        /\ raced' \in BOOLEAN
        /\ used' \in [requests : 0..MaxRequests, mishaps : 0..MaxMishaps]
    BY <1>4, <1>7 DEF ServiceStarts
  <2> QED
    BY <1>7, <2>1, <2>2 DEF ServiceStarts, Typed, files, service, StoreTyped, ServiceTyped,
                            HistoryTyped
<1> QED
  BY <1>3, <1>5, <1>6, <1>7

LEMMA TypedEnd ==
  ASSUME Typed, AutoWrites \/ ServiceEnds
  PROVE  Typed'
<1>1. CASE AutoWrites
  <2>1. RequestTyped'
    BY <1>1, RequestDone DEF AutoWrites
  <2>2. uci' \in UCI /\ lost' \in BOOLEAN
    BY <1>1, RequestFields DEF AutoWrites, Asked, Typed, HistoryTyped
  <2> QED
    BY <1>1, <2>1, <2>2 DEF AutoWrites, Typed, service, StoreTyped, ServiceTyped, StartTyped,
                            HistoryTyped
<1>2. CASE ServiceEnds
  <2>1. "rpc" \in Callers
    BY DEF Callers
  <2>2. RequestTyped' /\ StartTyped'
    BY <1>2, <2>1, RequestDone, StartGoes DEF ServiceEnds, Typed, StartPcs
  <2> QED
    BY <1>2, <2>2 DEF ServiceEnds, Typed, files, service, history, StoreTyped, ServiceTyped,
                      HistoryTyped
<1> QED
  BY <1>1, <1>2

\* Starts from outside, clients that come up, and power losses.
LEMMA TypedWorld ==
  ASSUME Typed, Restart \/ ClientOpens \/ PowerLoss
  PROVE  Typed'
<1>1. CASE Restart
  <2>1. "sys" \in Callers
    BY DEF Callers
  <2>2. StartTyped'
    BY <1>1, <2>1, StartGoes DEF Restart, Typed, StartPcs
  <2>3. raced' \in BOOLEAN
    BY <1>1 DEF Restart
  <2>4. used' \in [requests : 0..MaxRequests, mishaps : 0..MaxMishaps]
    BY <1>1, CountersTyped DEF Restart, Typed, HistoryTyped
  <2> QED
    BY <1>1, <2>2, <2>3, <2>4 DEF Restart, Typed, files, service, StoreTyped, ServiceTyped,
                                  RequestTyped, HistoryTyped
<1>2. CASE ClientOpens
  <2>1. conf \in Configs
    BY <1>2 DEF ClientOpens, Typed, StoreTyped
  <2>2. ServiceTyped'
    BY <1>2, <2>1, LoadedTyped DEF ClientOpens, Typed, ServiceTyped
  <2> QED
    BY <1>2, <2>2 DEF ClientOpens, Typed, files, history, StoreTyped, RequestTyped, StartTyped,
                      HistoryTyped
<1>3. CASE PowerLoss
  <2>1. RequestTyped' /\ ServiceTyped'
    BY <1>3, RequestDone, ServiceStopped DEF PowerLoss
  <2>2. StartTyped'
    <3> DEFINE r(p) == [pc |-> IF p = "sys" THEN "init" ELSE "idle", seen |-> None]
    <3>1. \A p \in Callers : /\ r(p) \in [pc : StartPcs, seen : UCI \cup {None}]
                             /\ r(p).pc \notin {"write", "launch"}
      BY DEF StartPcs
    <3>2. start' = [p \in Callers |-> r(p)]
      BY <1>3 DEF PowerLoss
    <3> HIDE DEF r
    <3> QED
      BY <3>1, <3>2 DEF StartTyped
  <2>3. /\ torn' \in BOOLEAN /\ lost' \in BOOLEAN /\ raced' \in BOOLEAN
        /\ broken' \in BOOLEAN /\ halted' \in BOOLEAN
    BY <1>3 DEF PowerLoss, Typed, HistoryTyped
  <2>4. granted' \in [Creds -> SUBSET Secrets]
    BY <1>3 DEF PowerLoss, KeepGrants, Typed, HistoryTyped
  <2>5. used' \in [requests : 0..MaxRequests, mishaps : 0..MaxMishaps]
    BY <1>3, CountersTyped DEF PowerLoss, Typed, HistoryTyped
  <2>6. StoreTyped'
    BY <1>3 DEF PowerLoss, Typed, StoreTyped
  <2> QED
    BY <2>1, <2>2, <2>3, <2>4, <2>5, <2>6 DEF Typed, HistoryTyped
<1> QED
  BY <1>1, <1>2, <1>3

LEMMA TypedInit == Init => Typed
<1> SUFFICES ASSUME Init PROVE Typed
  OBVIOUS
<1>1. uci \in UCI /\ creds \in Contents
  BY SettingsAssumption DEF Init, Values, Contents
<1>2. StoreTyped
  BY <1>1, ConfTyped DEF Init, StoreTyped
<1>3. ServiceTyped
  <2>1. svc \in BOOLEAN
    BY <1>1 DEF Init, UCI
  <2>2. client = None \/ (client.sources \subseteq Sources
                          /\ DOMAIN client.secrets \subseteq Creds)
    BY <1>1, ConfTyped, LoadedTyped DEF Init
  <2> QED
    BY <2>1, <2>2 DEF ServiceTyped
<1>4. RequestTyped
  BY DEF Init, RequestTyped, RequestPcs
<1>5. StartTyped
  BY DEF Init, StartTyped, StartPcs
<1>6. HistoryTyped
  <2>1. used \in [requests : 0..MaxRequests, mishaps : 0..MaxMishaps]
    <3>1. 0 \in 0..MaxRequests /\ 0 \in 0..MaxMishaps
      BY SettingsAssumption
    <3> QED
      BY <3>1 DEF Init
  <2>2. granted \in [Creds -> SUBSET Secrets]
    BY DEF Init
  <2>3. /\ lost \in BOOLEAN /\ torn \in BOOLEAN /\ raced \in BOOLEAN
        /\ broken \in BOOLEAN /\ halted \in BOOLEAN
    BY DEF Init
  <2> QED
    BY <2>1, <2>2, <2>3 DEF HistoryTyped
<1> QED
  BY <1>2, <1>3, <1>4, <1>5, <1>6 DEF Typed

LEMMA TypedStep == Typed /\ [Next]_vars => Typed'
<1> SUFFICES ASSUME Typed, [Next]_vars PROVE Typed'
  OBVIOUS
<1>1. CASE UNCHANGED vars
  BY <1>1 DEF vars, files, service, history, Typed, StoreTyped, ServiceTyped, RequestTyped,
              StartTyped, HistoryTyped
<1> QED
  BY <1>1, TypedStart, TypedCredentials, TypedSave, TypedRollback, TypedBegin, TypedEnd,
     TypedWorld DEF Next, RequestSteps

----------------------------------------------------------------------------
(* How far a request is *)

\* The credentials that a request writes.
Targets == rpc.req.uci.sources \cup {Token}

\* While credentials are written, the rest is as it was.
WritingInv ==
  rpc.pc \in {"creds", "secure"} =>
    /\ uci = rpc.old.uci
    /\ rpc.todo \subseteq rpc.req.uci.sources
    /\ \A c \in Creds : c \notin Targets \/ c \in rpc.todo => creds[c] = rpc.old.creds[c]
    /\ \A c \in rpc.req.uci.sources \ rpc.todo : creds[c] = Edited(c)
    /\ rpc.pc = "secure" /\ rpc.at = Token => rpc.todo = {} /\ creds[Token] = Edited(Token)

\* After that they are written, and then the settings too.
WrittenInv ==
  rpc.pc \in {"uci", "gen", "reload", "confirm", "stop", "orphans"} =>
    /\ uci = IF rpc.pc = "uci" THEN rpc.old.uci ELSE rpc.req.uci
    /\ \A c \in Creds : creds[c] = IF c \in Targets THEN Edited(c) ELSE rpc.old.creds[c]

\* A rollback puts back file after file.
RestoreInv ==
  rpc.pc = "restore" => /\ "uci" \notin rpc.todo => uci = rpc.old.uci
                        /\ \A c \in Creds \ rpc.todo : creds[c] = rpc.old.creds[c]

BackInv == rpc.pc = "back" => uci = rpc.old.uci /\ \A c \in Creds : creds[c] = rpc.old.creds[c]

\* The switch of the automatic updates touches no credential.
AutoInv ==
  rpc.pc = "auto" => /\ rpc.req.uci.sources = rpc.old.uci.sources
                     /\ \A c \in Creds : creds[c] = rpc.old.creds[c] /\ rpc.req.edit[c] = "keep"

PhaseInv == ~lost => WritingInv /\ WrittenInv /\ RestoreInv /\ BackInv /\ AutoInv

Phases == {"creds", "secure", "uci", "gen", "reload", "confirm", "stop", "orphans", "restore",
           "back", "auto"}

LEMMA EditedSame ==
  ASSUME rpc'.req = rpc.req, rpc'.old = rpc.old
  PROVE  /\ \A c : Edited(c)' = Edited(c)
         /\ Targets' = Targets
         /\ Candidate' = Candidate
BY DEF Edited, Kept, Targets, Candidate

\* No phase, no claim.
LEMMA PhaseNone ==
  ASSUME rpc'.pc \notin Phases
  PROVE  PhaseInv'
BY DEF PhaseInv, WritingInv, WrittenInv, RestoreInv, BackInv, AutoInv, Phases

\* Nothing that the phases speak of changes.
LEMMA PhaseSame ==
  ASSUME PhaseInv, UNCHANGED rpc, lost' = lost, UNCHANGED <<uci, creds>>
  PROVE  PhaseInv'
<1>1. /\ \A c : Edited(c)' = Edited(c)
      /\ Targets' = Targets
  BY EditedSame
<1> QED
  BY <1>1 DEF PhaseInv, WritingInv, WrittenInv, RestoreInv, BackInv, AutoInv

\* A start from outside changes the settings only by writing stale ones.
LEMMA PhaseStart ==
  ASSUME PhaseInv, NEW p \in Callers, StartSteps(p) \/ StartFails(p)
  PROVE  PhaseInv'
<1>1. CASE StartWrites(p)
  <2>1. rpc' = rpc /\ creds' = creds /\ (~lost' => ~lost /\ uci' = uci)
    BY <1>1 DEF StartWrites
  <2>2. CASE lost'
    BY <2>2 DEF PhaseInv
  <2>3. CASE ~lost'
    <3>1. /\ \A c : Edited(c)' = Edited(c)
          /\ Targets' = Targets
      BY <2>1, EditedSame
    <3> QED
      BY <2>1, <2>3, <3>1 DEF PhaseInv, WritingInv, WrittenInv, RestoreInv, BackInv, AutoInv
  <2> QED
    BY <2>2, <2>3
<1>2. CASE StartStops(p) \/ StartReads(p) \/ StartGenerates(p) \/ StartLaunches(p) \/ StartFails(p)
  <2>1. UNCHANGED rpc /\ lost' = lost /\ UNCHANGED <<uci, creds>>
    BY <1>2 DEF StartStops, StartReads, StartGenerates, StartLaunches, StartFails, files, history
  <2> QED
    BY <2>1, PhaseSame
<1> QED
  BY <1>1, <1>2 DEF StartSteps

\* Every failure finds nothing changed but what the rollback will put back.
LEMMA PhaseRollBack ==
  ASSUME Typed, PhaseInv, rpc.pc \in Phases \ {"restore", "back", "auto"}, RollBack,
         lost' = lost, uci' = uci,
         \A c \in Creds : creds'[c] = creds[c] \/ c \in Targets \cup Orphans
  PROVE  PhaseInv'
<1>1. RequestTyped /\ Asked
  BY DEF Typed, Asked, Phases
<1>2. /\ rpc'.req = rpc.req /\ rpc'.old = rpc.old
      /\ rpc'.pc = "restore" /\ rpc'.todo = Affected
  BY <1>1, RollBackTyped DEF RollBack, RequestTyped
<1>3. "uci" \in Affected /\ Targets \cup Orphans \subseteq Affected
  BY DEF Affected, Targets, Orphans
<1>4. ~lost => \A c \in Creds \ Affected : creds[c] = rpc.old.creds[c]
  BY <1>3 DEF PhaseInv, WritingInv, WrittenInv, Phases
<1>5. RestoreInv' \/ lost'
  BY <1>2, <1>3, <1>4 DEF RestoreInv
<1> QED
  BY <1>2, <1>5 DEF PhaseInv, WritingInv, WrittenInv, BackInv, AutoInv

LEMMA PhaseBegin ==
  ASSUME Typed, PhaseInv,
         \/ \E req \in Requests : SaveBegins(req)
         \/ AutoBegins \/ ServiceStops \/ ServiceStarts
  PROVE  PhaseInv'
<1>1. ASSUME NEW req \in Requests, SaveBegins(req)
      PROVE  PhaseInv'
  <2>1. /\ rpc' = [pc |-> "creds", req |-> req, old |-> Now, todo |-> req.uci.sources,
                   at |-> None]
        /\ uci' = uci /\ creds' = creds
    BY <1>1 DEF SaveBegins, files
  <2>2. /\ rpc'.pc = "creds" /\ rpc'.req = req /\ rpc'.old.uci = uci /\ rpc'.old.creds = creds
        /\ rpc'.todo = req.uci.sources
    BY <2>1 DEF Now
  <2>3. WritingInv'
    BY <2>1, <2>2 DEF WritingInv
  <2> QED
    BY <2>2, <2>3 DEF PhaseInv, WrittenInv, RestoreInv, BackInv, AutoInv
<1>2. CASE AutoBegins
  <2> DEFINE req == [uci |-> [uci EXCEPT !.auto = ~uci.auto], edit |-> [c \in Creds |-> "keep"]]
  <2>1. /\ rpc' = [pc |-> "auto", req |-> req, old |-> Now, todo |-> {}, at |-> None]
        /\ uci' = uci /\ creds' = creds
    BY <1>2 DEF AutoBegins, Request, files, Typed, StoreTyped, UCI
  <2>2. req.uci.sources = uci.sources /\ \A c \in Creds : req.edit[c] = "keep"
    BY DEF Typed, StoreTyped, UCI
  <2> HIDE DEF req
  <2>3. /\ rpc'.pc = "auto" /\ rpc'.req = req /\ rpc'.old.uci = uci /\ rpc'.old.creds = creds
    BY <2>1 DEF Now
  <2>4. AutoInv'
    BY <2>1, <2>2, <2>3 DEF AutoInv
  <2> QED
    BY <2>3, <2>4 DEF PhaseInv, WritingInv, WrittenInv, RestoreInv, BackInv
<1>3. CASE ServiceStops \/ ServiceStarts
  <2>1. rpc'.pc = "service"
    BY <1>3 DEF ServiceStops, ServiceStarts, Request
  <2> QED
    BY <2>1, PhaseNone DEF Phases
<1> QED
  BY <1>1, <1>2, <1>3

\* One credential is written; the rest is as before.
LEMMA PhaseWrites ==
  ASSUME Typed, PhaseInv, NEW c \in Creds, WritesCredential(c)
  PROVE  PhaseInv'
<1> SUFFICES ASSUME ~lost'
             PROVE  PhaseInv'
  BY DEF PhaseInv
<1>1. /\ RequestTyped /\ Asked /\ ~lost /\ uci' = uci /\ lost' = lost
      /\ rpc.pc = "creds"
      /\ c \in rpc.todo \/ (rpc.todo = {} /\ c = Token)
      /\ creds' = [creds EXCEPT ![c] = Edited(c)]
      /\ creds \in Contents
  BY DEF WritesCredential, Typed, StoreTyped, Asked, history
<1>2. /\ uci = rpc.old.uci
      /\ rpc.todo \subseteq rpc.req.uci.sources
      /\ \A d \in Creds : d \notin Targets \/ d \in rpc.todo => creds[d] = rpc.old.creds[d]
      /\ \A d \in rpc.req.uci.sources \ rpc.todo : creds[d] = Edited(d)
  BY <1>1 DEF PhaseInv, WritingInv
<1>3. rpc.req.uci.sources \subseteq Sources /\ Token \notin Sources /\ Sources \subseteq Creds
  BY <1>1, RequestFields, SettingsAssumption
<1>4. c \in Targets /\ \A d \in Creds : creds'[d] = IF d = c THEN Edited(c) ELSE creds[d]
  BY <1>1, <1>2 DEF Targets, Contents
<1>5. CASE RollBack
  BY <1>1, <1>4, <1>5, PhaseRollBack DEF Phases
<1>6. CASE \/ rpc' = [rpc EXCEPT !.pc = "secure", !.todo = rpc.todo \ {c}, !.at = c]
           \/ c # Token /\ rpc' = [rpc EXCEPT !.todo = rpc.todo \ {c}]
  <2>1. /\ rpc'.req = rpc.req /\ rpc'.old = rpc.old /\ rpc'.todo = rpc.todo \ {c}
        /\ rpc'.pc \in {"creds", "secure"}
        /\ rpc'.pc = "secure" => rpc'.at = c
    BY <1>1, <1>6 DEF RequestTyped
  <2>2. /\ \A d : Edited(d)' = Edited(d)
        /\ Targets' = Targets
    BY <2>1, EditedSame
  <2>3. \A d \in rpc'.req.uci.sources \ rpc'.todo : creds'[d] = Edited(d)
    BY <1>2, <1>3, <1>4, <2>1
  <2>4. rpc'.pc = "secure" /\ rpc'.at = Token => rpc'.todo = {} /\ creds'[Token] = Edited(Token)
    BY <1>1, <1>2, <1>3, <1>4, <2>1
  <2>5. WritingInv'
    BY <1>1, <1>2, <1>4, <2>1, <2>2, <2>3, <2>4 DEF WritingInv
  <2> QED
    BY <2>1, <2>5 DEF PhaseInv, WrittenInv, RestoreInv, BackInv, AutoInv
<1>7. CASE c = Token /\ To("uci")
  <2>1. rpc'.req = rpc.req /\ rpc'.old = rpc.old /\ rpc'.pc = "uci" /\ rpc.todo = {}
    BY <1>1, <1>2, <1>3, <1>7 DEF To, RequestTyped
  <2>2. /\ \A d : Edited(d)' = Edited(d)
        /\ Targets' = Targets
    BY <2>1, EditedSame
  <2>3. \A d \in Creds : creds'[d] = IF d \in Targets THEN Edited(d) ELSE rpc.old.creds[d]
    BY <1>2, <1>4, <1>7, <2>1 DEF Targets
  <2>4. WrittenInv'
    BY <1>1, <1>2, <2>1, <2>2, <2>3 DEF WrittenInv
  <2> QED
    BY <2>1, <2>4 DEF PhaseInv, WritingInv, RestoreInv, BackInv, AutoInv
<1> QED
  BY <1>5, <1>6, <1>7 DEF WritesCredential

LEMMA PhaseSecures ==
  ASSUME Typed, PhaseInv, NEW c \in Creds, SecuresCredential(c)
  PROVE  PhaseInv'
<1> SUFFICES ASSUME ~lost'
             PROVE  PhaseInv'
  BY DEF PhaseInv
<1>1. /\ RequestTyped /\ ~lost /\ uci' = uci /\ creds' = creds
      /\ rpc.pc = "secure" /\ rpc.at = c
      /\ rpc' = [rpc EXCEPT !.pc = IF c = Token THEN "uci" ELSE "creds", !.at = None]
  BY DEF SecuresCredential, Typed, history
<1>2. /\ uci = rpc.old.uci
      /\ rpc.todo \subseteq rpc.req.uci.sources
      /\ \A d \in Creds : d \notin Targets \/ d \in rpc.todo => creds[d] = rpc.old.creds[d]
      /\ \A d \in rpc.req.uci.sources \ rpc.todo : creds[d] = Edited(d)
      /\ c = Token => rpc.todo = {} /\ creds[Token] = Edited(Token)
  BY <1>1 DEF PhaseInv, WritingInv
<1>3. /\ rpc'.req = rpc.req /\ rpc'.old = rpc.old /\ rpc'.todo = rpc.todo
      /\ rpc'.pc = IF c = Token THEN "uci" ELSE "creds"
  BY <1>1 DEF RequestTyped
<1>4. /\ \A d : Edited(d)' = Edited(d)
      /\ Targets' = Targets
  BY <1>3, EditedSame
<1>5. CASE c = Token
  <2>1. \A d \in Creds : creds[d] = IF d \in Targets THEN Edited(d) ELSE rpc.old.creds[d]
    BY <1>2, <1>5 DEF Targets
  <2>2. WrittenInv'
    BY <1>1, <1>2, <1>3, <1>4, <1>5, <2>1 DEF WrittenInv
  <2> QED
    BY <1>3, <1>5, <2>2 DEF PhaseInv, WritingInv, RestoreInv, BackInv, AutoInv
<1>6. CASE c # Token
  <2>1. WritingInv'
    BY <1>1, <1>2, <1>3, <1>4, <1>6 DEF WritingInv
  <2> QED
    BY <1>3, <1>6, <2>1 DEF PhaseInv, WrittenInv, RestoreInv, BackInv, AutoInv
<1> QED
  BY <1>5, <1>6

\* The request advances among the phases in which all is written.
LEMMA PhaseAdvance ==
  ASSUME Typed, PhaseInv, NEW pc \in {"gen", "reload", "confirm", "stop", "orphans"}, To(pc),
         rpc.pc \in {"uci", "gen", "reload", "confirm", "stop", "orphans"},
         lost' = lost, creds' = creds,
         uci' = rpc.req.uci
  PROVE  PhaseInv'
<1>1. rpc'.req = rpc.req /\ rpc'.old = rpc.old /\ rpc'.pc = pc
  BY DEF Typed, RequestTyped, To
<1>2. /\ \A d : Edited(d)' = Edited(d)
      /\ Targets' = Targets
  BY <1>1, EditedSame
<1>3. WrittenInv' \/ lost'
  BY <1>1, <1>2 DEF PhaseInv, WrittenInv
<1> QED
  BY <1>1, <1>3 DEF PhaseInv, WritingInv, RestoreInv, BackInv, AutoInv

LEMMA PhaseSave ==
  ASSUME Typed, PhaseInv,
         \/ WritesUCI \/ Generates \/ Reloaded \/ ConfirmsHealthy \/ ConfirmTimesOut
         \/ StopsDisabled \/ Commits \/ SaveFails
  PROVE  PhaseInv'
<1> SUFFICES ASSUME ~lost'
             PROVE  PhaseInv'
  BY DEF PhaseInv
<1>1. CASE WritesUCI
  BY <1>1, PhaseAdvance DEF WritesUCI, history
<1>2. CASE Generates \/ Reloaded \/ ConfirmsHealthy \/ ConfirmTimesOut \/ StopsDisabled
  <2>1. /\ UNCHANGED <<uci, creds, lost>>
        /\ rpc.pc \in {"gen", "reload", "confirm", "stop"}
    BY <1>2 DEF Generates, Reloaded, ConfirmsHealthy, ConfirmTimesOut, StopsDisabled, files,
                history
  <2>2. uci = rpc.req.uci
    BY <2>1 DEF PhaseInv, WrittenInv
  <2>3. CASE RollBack
    BY <2>1, <2>3, PhaseRollBack DEF Phases
  <2>4. CASE \E pc \in {"reload", "confirm", "orphans"} : To(pc)
    BY <2>1, <2>2, <2>4, PhaseAdvance
  <2> QED
    BY <1>2, <2>3, <2>4
    DEF Generates, Reloaded, ConfirmsHealthy, ConfirmTimesOut, StopsDisabled
<1>3. CASE Commits
  BY <1>3, RequestDone, PhaseNone DEF Commits, Phases
<1>4. CASE SaveFails
  <2>1. \A c \in Creds : creds'[c] = creds[c] \/ c \in Orphans
    BY <1>4 DEF SaveFails, Forget
  <2> QED
    BY <1>4, <2>1, PhaseRollBack DEF SaveFails, Phases, history
<1> QED
  BY <1>1, <1>2, <1>3, <1>4

LEMMA PhaseRollback ==
  ASSUME Typed, PhaseInv,
         \/ \E f \in Creds \cup {"uci", "conf"} : Restores(f)
         \/ RestartsOld \/ StopsOld \/ RolledBack
  PROVE  PhaseInv'
<1> SUFFICES ASSUME ~lost'
             PROVE  PhaseInv'
  BY DEF PhaseInv
<1>1. ASSUME NEW f \in Creds \cup {"uci", "conf"}, Restores(f)
      PROVE  PhaseInv'
  <2>1. /\ rpc.pc = "restore" /\ rpc' = [rpc EXCEPT !.todo = rpc.todo \ {f}]
        /\ uci' = IF f = "uci" THEN rpc.old.uci ELSE uci
        /\ creds' = [c \in Creds |-> IF c = f THEN rpc.old.creds[c] ELSE creds[c]]
        /\ lost' = lost
    BY <1>1 DEF Restores
  <2>2. /\ rpc'.pc = "restore" /\ rpc'.old = rpc.old /\ rpc'.todo = rpc.todo \ {f}
    BY <2>1 DEF Typed, RequestTyped
  <2>3. RestoreInv'
    BY <2>1, <2>2 DEF PhaseInv, RestoreInv
  <2> QED
    BY <2>2, <2>3 DEF PhaseInv, WritingInv, WrittenInv, BackInv, AutoInv
<1>2. CASE RestartsOld
  <2>1. /\ rpc.pc = "restore" /\ rpc.todo = {} /\ UNCHANGED <<uci, creds, lost>>
        /\ rpc'.pc = "back" /\ rpc'.old = rpc.old
    BY <1>2 DEF RestartsOld, To, history, Typed, RequestTyped
  <2>2. BackInv'
    BY <2>1 DEF PhaseInv, RestoreInv, BackInv
  <2> QED
    BY <2>1, <2>2 DEF PhaseInv, WritingInv, WrittenInv, RestoreInv, AutoInv
<1>3. CASE StopsOld \/ RolledBack
  BY <1>3, RequestDone, PhaseNone DEF StopsOld, RolledBack, Phases
<1> QED
  BY <1>1, <1>2, <1>3

LEMMA PhaseWorld ==
  ASSUME Typed, PhaseInv, AutoWrites \/ ServiceEnds \/ Restart \/ ClientOpens \/ PowerLoss
  PROVE  PhaseInv'
<1>1. CASE AutoWrites \/ ServiceEnds \/ PowerLoss
  BY <1>1, RequestDone, PhaseNone DEF AutoWrites, ServiceEnds, PowerLoss, Phases
<1>2. CASE Restart \/ ClientOpens
  BY <1>2, PhaseSame DEF Restart, ClientOpens, files, history
<1> QED
  BY <1>1, <1>2

LEMMA PhaseStep == Typed /\ PhaseInv /\ [Next]_vars => PhaseInv'
<1> SUFFICES ASSUME Typed, PhaseInv, [Next]_vars PROVE PhaseInv'
  OBVIOUS
<1>1. CASE UNCHANGED vars
  BY <1>1, PhaseSame DEF vars, files, history
<1> QED
  BY <1>1, PhaseStart, PhaseWrites, PhaseSecures, PhaseSave, PhaseRollback, PhaseBegin,
     PhaseWorld DEF Next, RequestSteps

\* The steps within a save leave it a save of the same request.
LEMMA SaveGoesOn ==
  ASSUME Typed,
         \/ \E c \in Creds : WritesCredential(c) \/ SecuresCredential(c)
         \/ WritesUCI \/ Generates \/ Reloaded \/ ConfirmsHealthy \/ ConfirmTimesOut
         \/ StopsDisabled \/ SaveFails \/ RestartsOld
         \/ \E f \in Creds \cup {"uci", "conf"} : Restores(f)
  PROVE  /\ InSave /\ InSave'
         /\ rpc'.req = rpc.req /\ rpc'.old = rpc.old
         /\ granted' = granted /\ torn' = torn /\ (lost => lost')
<1> USE DEF InSave, history, Typed, RequestTyped, To, RollBack
<1>1. ASSUME NEW c \in Creds, WritesCredential(c) \/ SecuresCredential(c)
      PROVE  /\ InSave /\ InSave'
             /\ rpc'.req = rpc.req /\ rpc'.old = rpc.old
             /\ granted' = granted /\ torn' = torn /\ (lost => lost')
  <2>1. CASE WritesCredential(c)
    BY <2>1 DEF WritesCredential
  <2>2. CASE SecuresCredential(c)
    BY <2>2 DEF SecuresCredential
  <2> QED
    BY <1>1, <2>1, <2>2
<1>2. ASSUME NEW pc \in RequestPcs \ {"idle", "auto", "service"}, To(pc) \/ RollBack
      PROVE  rpc'.pc \notin {"idle", "auto", "service"} /\ rpc'.req = rpc.req /\ rpc'.old = rpc.old
  BY <1>2
<1>3. CASE WritesUCI \/ Generates \/ Reloaded \/ ConfirmsHealthy \/ ConfirmTimesOut
  <2>1. \/ RollBack
        \/ \E pc \in {"gen", "stop", "reload", "confirm", "orphans"} : To(pc)
    BY <1>3 DEF WritesUCI, Generates, Reloaded, ConfirmsHealthy, ConfirmTimesOut
  <2>2. /\ InSave
        /\ granted' = granted /\ torn' = torn /\ lost' = lost
    BY <1>3 DEF WritesUCI, Generates, Reloaded, ConfirmsHealthy, ConfirmTimesOut
  <2> QED
    BY <1>2, <2>1, <2>2 DEF RequestPcs
<1>4. CASE StopsDisabled \/ SaveFails \/ RestartsOld
  <2>1. \/ RollBack
        \/ \E pc \in {"orphans", "back"} : To(pc)
    BY <1>4 DEF StopsDisabled, SaveFails, RestartsOld
  <2>2. /\ InSave
        /\ granted' = granted /\ torn' = torn /\ lost' = lost
    BY <1>4 DEF StopsDisabled, SaveFails, RestartsOld
  <2> QED
    BY <1>2, <2>1, <2>2 DEF RequestPcs
<1>5. ASSUME NEW f \in Creds \cup {"uci", "conf"}, Restores(f)
      PROVE  /\ InSave /\ InSave'
             /\ rpc'.req = rpc.req /\ rpc'.old = rpc.old
             /\ granted' = granted /\ torn' = torn /\ (lost => lost')
  BY <1>5 DEF Restores
<1> QED
  BY <1>1, <1>3, <1>4, <1>5

\* The steps outside of a request change the settings only by writing stale ones.
LEMMA WorldAside ==
  ASSUME \/ \E p \in Callers : StartSteps(p) \/ StartFails(p)
         \/ Restart \/ ClientOpens
  PROVE  /\ rpc' = rpc /\ creds' = creds /\ granted' = granted /\ torn' = torn
         /\ lost => lost'
         /\ ~lost' => uci' = uci
<1>1. ASSUME NEW p \in Callers, StartSteps(p) \/ StartFails(p)
      PROVE  /\ rpc' = rpc /\ creds' = creds /\ granted' = granted /\ torn' = torn
             /\ lost => lost'
             /\ ~lost' => uci' = uci
  <2>1. CASE StartWrites(p)
    BY <2>1 DEF StartWrites
  <2>2. CASE StartStops(p) \/ StartReads(p) \/ StartGenerates(p)
    BY <2>2 DEF StartStops, StartReads, StartGenerates, files, history
  <2>3. CASE StartLaunches(p) \/ StartFails(p)
    BY <2>3 DEF StartLaunches, StartFails, files
  <2> QED
    BY <1>1, <2>1, <2>2, <2>3 DEF StartSteps
<1> QED
  BY <1>1 DEF Restart, ClientOpens, files, history

----------------------------------------------------------------------------
(* Whose secrets are stored *)

\* Every stored secret of a configured source was given to it since it was added.
Clean == \A c \in uci.sources : creds[c] = None \/ creds[c] \in granted[c]

\* So was what a rollback would put back, and what the request gives.
GivenInv ==
  /\ \A c \in rpc.old.uci.sources :
       rpc.old.creds[c] = None \/ rpc.old.creds[c] \in granted[c]
  /\ \A c \in Creds : rpc.req.edit[c] \in Secrets => rpc.req.edit[c] \in granted[c]

GrantInv == ~lost => (InSave => GivenInv) /\ (~InSave => Clean)

\* Even in the middle of a save, unless a rollback has begun to put files back.
LEMMA CleanInSave ==
  ASSUME Typed, PhaseInv, GrantInv, ~lost, InSave, rpc.pc = "restore" => ~Half
  PROVE  Clean
<1>1. RequestTyped /\ Asked
  BY DEF Typed, InSave, Asked
<1>2. GivenInv
  BY DEF GrantInv
<1>3. rpc.req.uci.sources \subseteq Creds /\ rpc.old.uci.sources \subseteq Creds
  BY <1>1, RequestFields
<1>4. ASSUME NEW c \in Creds, c # Token
      PROVE  Edited(c) = None \/ Edited(c) \in granted[c]
  <2>1. rpc.req.edit[c] \in Edits /\ {"keep", "clear"} \cap Secrets = {}
    BY <1>1, RequestFields, SettingsAssumption
  <2> QED
    BY <1>2, <1>4, <2>1 DEF Edited, Kept, Edits, GivenInv
<1>5. \A c \in rpc.req.uci.sources \cup rpc.old.uci.sources : c \in Creds /\ c # Token
  BY <1>1, <1>3, RequestFields, SettingsAssumption
<1>6. CASE uci = rpc.old.uci /\ \A c \in Creds : creds[c] = rpc.old.creds[c]
  BY <1>2, <1>3, <1>6 DEF Clean, GivenInv
<1>7. CASE rpc.pc \in {"creds", "secure"}
  <2>1. /\ uci = rpc.old.uci
        /\ \A c \in Creds : c \notin Targets \/ c \in rpc.todo => creds[c] = rpc.old.creds[c]
        /\ \A c \in rpc.req.uci.sources \ rpc.todo : creds[c] = Edited(c)
    BY <1>7 DEF PhaseInv, WritingInv
  <2>2. ASSUME NEW c \in uci.sources
        PROVE  creds[c] = None \/ creds[c] \in granted[c]
    <3>1. c \in Creds /\ c # Token /\ c \in rpc.old.uci.sources
      BY <1>5, <2>1
    <3>2. creds[c] = rpc.old.creds[c] \/ creds[c] = Edited(c)
      BY <2>1, <3>1 DEF Targets
    <3> QED
      BY <1>2, <1>4, <3>1, <3>2 DEF GivenInv
  <2> QED
    BY <2>2 DEF Clean
<1>8. CASE rpc.pc \in {"uci", "gen", "reload", "confirm", "stop", "orphans"}
  <2>1. /\ uci = IF rpc.pc = "uci" THEN rpc.old.uci ELSE rpc.req.uci
        /\ \A c \in Creds : creds[c] = IF c \in Targets THEN Edited(c) ELSE rpc.old.creds[c]
    BY <1>8 DEF PhaseInv, WrittenInv
  <2>2. ASSUME NEW c \in uci.sources
        PROVE  creds[c] = None \/ creds[c] \in granted[c]
    <3>1. c \in Creds /\ c # Token /\ (c \notin rpc.old.uci.sources => c \in Targets)
      BY <1>5, <2>1 DEF Targets
    <3>2. (c \in rpc.old.uci.sources /\ creds[c] = rpc.old.creds[c]) \/ creds[c] = Edited(c)
      BY <2>1, <3>1
    <3> QED
      BY <1>2, <1>4, <3>1, <3>2 DEF GivenInv
  <2> QED
    BY <2>2 DEF Clean
<1>9. CASE rpc.pc = "restore"
  BY <1>1, <1>6, <1>9 DEF Half
<1>10. CASE rpc.pc = "back"
  BY <1>6, <1>10 DEF PhaseInv, BackInv
<1> QED
  BY <1>1, <1>7, <1>8, <1>9, <1>10 DEF RequestTyped, RequestPcs, InSave

LEMMA GrantInit == Init => GrantInv
<1> SUFFICES ASSUME Init PROVE GrantInv
  OBVIOUS
<1>1. PICK i \in Installed : uci = i.uci /\ creds = i.creds
  BY DEF Init
<1>2. uci.sources \subseteq Creds /\ \A c \in Creds : creds[c] \in Secrets \cup {None}
  BY <1>1, SettingsAssumption DEF Values, UCI, Creds
<1>3. Clean
  BY <1>2 DEF Init, Clean
<1> QED
  BY <1>3 DEF Init, GrantInv, InSave

LEMMA GrantStep == Typed /\ PhaseInv /\ PhaseInv' /\ GrantInv /\ [Next]_vars => GrantInv'
<1> SUFFICES ASSUME Typed, PhaseInv, PhaseInv', GrantInv, [Next]_vars, ~lost'
             PROVE  GrantInv'
  BY DEF GrantInv
<1>1. CASE \/ \E p \in Callers : StartSteps(p) \/ StartFails(p)
           \/ Restart \/ ClientOpens \/ UNCHANGED vars
  <2>1. rpc' = rpc /\ creds' = creds /\ granted' = granted /\ uci' = uci /\ ~lost
    BY <1>1, WorldAside DEF vars, files, history
  <2> QED
    BY <2>1 DEF GrantInv, GivenInv, Clean, InSave
<1>2. CASE \/ \E c \in Creds : WritesCredential(c) \/ SecuresCredential(c)
           \/ WritesUCI \/ Generates \/ Reloaded \/ ConfirmsHealthy \/ ConfirmTimesOut
           \/ StopsDisabled \/ SaveFails \/ RestartsOld
           \/ \E f \in Creds \cup {"uci", "conf"} : Restores(f)
  <2>1. /\ InSave /\ InSave' /\ ~lost
        /\ rpc'.req = rpc.req /\ rpc'.old = rpc.old /\ granted' = granted
    BY <1>2, SaveGoesOn
  <2> QED
    BY <2>1 DEF GrantInv, GivenInv
<1>3. ASSUME NEW req \in Requests, SaveBegins(req)
      PROVE  GrantInv'
  <2>1. /\ ~lost /\ Clean
        /\ granted' = [c \in Creds |-> granted[c] \cup ({req.edit[c]} \cap Secrets)]
        /\ rpc'.req = req /\ rpc'.old.uci = uci /\ rpc'.old.creds = creds /\ rpc'.pc = "creds"
        /\ uci.sources \subseteq Creds
    BY <1>3 DEF SaveBegins, Now, Idle, InSave, GrantInv, Typed, StoreTyped, UCI, Creds
  <2>2. GivenInv'
    BY <2>1 DEF GivenInv, Clean
  <2> QED
    BY <2>1, <2>2 DEF GrantInv, InSave
<1>4. CASE AutoBegins \/ ServiceStops \/ ServiceStarts \/ ServiceEnds
  <2>1. /\ ~lost /\ ~InSave /\ uci' = uci /\ creds' = creds /\ granted' = granted
        /\ rpc'.pc \in {"idle", "auto", "service"}
    BY <1>4, RequestDone DEF AutoBegins, ServiceStops, ServiceStarts, ServiceEnds, Request,
                             Idle, InSave, files, history
  <2> QED
    BY <2>1 DEF GrantInv, InSave, Clean
<1>5. CASE Commits
  <2>1. InSave /\ ~lost /\ Clean /\ rpc.pc = "orphans"
    BY <1>5, CleanInSave DEF Commits, InSave
  <2>2. uci = rpc.req.uci /\ uci.sources \subseteq Creds
    BY <2>1 DEF PhaseInv, WrittenInv, Typed, StoreTyped, UCI, Creds
  <2>3. \A c \in uci.sources : creds'[c] = creds[c] /\ granted'[c] = granted[c]
    BY <1>5, <2>2 DEF Commits, Forget, Orphans, KeepGrants
  <2>4. Clean' /\ ~InSave'
    BY <1>5, <2>1, <2>3, RequestDone DEF Commits, Clean, InSave
  <2> QED
    BY <2>4 DEF GrantInv
<1>6. CASE StopsOld \/ RolledBack
  <2>1. InSave /\ ~lost /\ UNCHANGED <<uci, creds, granted>>
    BY <1>6 DEF StopsOld, RolledBack, InSave, files, history
  <2>2. uci = rpc.old.uci /\ \A c \in Creds : creds[c] = rpc.old.creds[c]
    BY <1>6, <2>1 DEF StopsOld, RolledBack, PhaseInv, RestoreInv, BackInv
  <2>3. uci.sources \subseteq Creds
    BY DEF Typed, StoreTyped, UCI, Creds
  <2>4. Clean
    BY <2>1, <2>2, <2>3 DEF GrantInv, GivenInv, Clean
  <2>5. Clean' /\ ~InSave'
    BY <1>6, <2>1, <2>4, RequestDone DEF StopsOld, RolledBack, Clean, InSave
  <2> QED
    BY <2>5 DEF GrantInv
<1>7. CASE AutoWrites
  <2>1. /\ ~lost /\ ~InSave /\ uci = rpc.old.uci /\ uci' = rpc.req.uci
        /\ UNCHANGED <<creds, granted>>
    BY <1>7 DEF AutoWrites, InSave
  <2>2. uci'.sources = uci.sources
    BY <1>7, <2>1 DEF AutoWrites, PhaseInv, AutoInv
  <2>3. Clean' /\ ~InSave'
    BY <1>7, <2>1, <2>2, RequestDone DEF AutoWrites, GrantInv, Clean, InSave
  <2> QED
    BY <2>3 DEF GrantInv
<1>8. CASE PowerLoss
  <2>1. ~lost /\ (rpc.pc = "restore" => ~Half) /\ UNCHANGED <<uci, creds>> /\ KeepGrants
    BY <1>8 DEF PowerLoss
  <2>2. Clean
    BY <2>1, CleanInSave DEF GrantInv
  <2>3. uci.sources \subseteq Creds
    BY DEF Typed, StoreTyped, UCI, Creds
  <2>4. \A c \in uci.sources : granted'[c] = granted[c]
    BY <2>1, <2>3 DEF KeepGrants
  <2>5. Clean' /\ ~InSave'
    BY <1>8, <2>1, <2>2, <2>4, RequestDone DEF PowerLoss, Clean, InSave
  <2> QED
    BY <2>5 DEF GrantInv
<1> QED
  BY <1>1, <1>2, <1>3, <1>4, <1>5, <1>6, <1>7, <1>8 DEF Next, RequestSteps

----------------------------------------------------------------------------
(* A request is a transaction *)

\* The mapping of the state to Transaction.
Value == IF InSave /\ ~lost /\ ~torn THEN [uci |-> rpc.old.uci, creds |-> rpc.old.creds]
                                     ELSE [uci |-> uci, creds |-> creds]
Pending == IF rpc.pc \in {"idle", "service"} THEN None ELSE Candidate
Unharmed == ~lost /\ ~torn

LEMMA CandidateTyped == Typed /\ Asked => Candidate \in Values
<1> SUFFICES ASSUME Typed, Asked PROVE Candidate \in Values
  OBVIOUS
<1>1. RequestTyped
  BY DEF Typed
<1>2. \A c \in Creds : Edited(c) \in Secrets \cup {None}
  BY <1>1, EditedTyped
<1> QED
  BY <1>1, <1>2, RequestFields DEF Candidate, Values, Contents

LEMMA MappedTyped == Typed => Value \in Values /\ Pending \in Values \cup {None}
<1> SUFFICES ASSUME Typed PROVE Value \in Values /\ Pending \in Values \cup {None}
  OBVIOUS
<1>1. RequestTyped /\ StoreTyped
  BY DEF Typed
<1>2. InSave => rpc.old.uci \in UCI /\ rpc.old.creds \in Contents
  BY <1>1, RequestFields DEF InSave, Asked
<1>3. Value \in Values
  BY <1>1, <1>2 DEF Value, Values, StoreTyped, Contents
<1> QED
  BY <1>3, CandidateTyped DEF Pending, Asked

\* What is stored when a request succeeds is its candidate.
LEMMA CommitsCandidate ==
  ASSUME Typed, PhaseInv, ~lost, ~lost', Commits \/ AutoWrites
  PROVE  [uci |-> uci, creds |-> creds]' = Candidate
<1>1. RequestTyped /\ Asked
  BY DEF Typed, Commits, AutoWrites, Asked
<1>2. /\ Token \notin Sources
      /\ rpc.req.uci.sources \subseteq Sources /\ rpc.old.uci.sources \subseteq Sources
  BY <1>1, RequestFields, SettingsAssumption
<1>3. uci' = rpc.req.uci
  BY DEF Commits, AutoWrites, PhaseInv, WrittenInv
<1>4. creds' = Candidate.creds
  <2>1. CASE Commits
    <3>1. creds' = [c \in Creds |-> IF c \in Orphans THEN None ELSE creds[c]]
      BY <2>1 DEF Commits, Forget
    <3>2. \A c \in Creds : creds[c] = IF c \in Targets THEN Edited(c) ELSE rpc.old.creds[c]
      BY <2>1 DEF Commits, PhaseInv, WrittenInv
    <3>3. \A c \in Creds : (IF c \in Orphans THEN None ELSE creds[c])
                             = IF c \in Targets THEN Edited(c)
                               ELSE IF c \in rpc.old.uci.sources THEN None
                               ELSE rpc.old.creds[c]
      BY <1>2, <3>2 DEF Orphans, Targets
    <3> QED
      BY <3>1, <3>3 DEF Candidate, Targets
  <2>2. CASE AutoWrites
    <3>1. /\ creds' = creds /\ creds \in [Creds -> Secrets \cup {None}]
          /\ rpc.req.uci.sources = rpc.old.uci.sources
          /\ \A c \in Creds : creds[c] = rpc.old.creds[c] /\ rpc.req.edit[c] = "keep"
      BY <2>2 DEF AutoWrites, PhaseInv, AutoInv, Typed, StoreTyped, Contents
    <3>2. \A c \in Creds : creds[c] = IF c \in Targets THEN Edited(c)
                                      ELSE IF c \in rpc.old.uci.sources THEN None
                                      ELSE rpc.old.creds[c]
      BY <1>2, <3>1 DEF Targets, Edited, Kept
    <3> QED
      BY <3>1, <3>2 DEF Candidate, Targets
  <2> QED
    BY <2>1, <2>2
<1> QED
  BY <1>3, <1>4 DEF Candidate

\* What is stored when a request has failed is what was stored before.
LEMMA AbortsClean ==
  ASSUME Typed, PhaseInv, ~lost, StopsOld \/ RolledBack
  PROVE  uci = rpc.old.uci /\ creds = rpc.old.creds
<1>1. RequestTyped /\ Asked
  BY DEF Typed, StopsOld, RolledBack, Asked
<1>2. uci = rpc.old.uci /\ \A c \in Creds : creds[c] = rpc.old.creds[c]
  BY DEF StopsOld, RolledBack, PhaseInv, RestoreInv, BackInv
<1> QED
  BY <1>1, <1>2, RequestFields DEF Typed, StoreTyped, Contents

\* Each step is a step of Transaction or none.
LEMMA Refines ==
  Typed /\ Typed' /\ PhaseInv /\ [Next]_vars => [Promise!TNext]_(Promise!tvars)
<1> SUFFICES ASSUME Typed, Typed', PhaseInv, [Next]_vars
             PROVE  [Promise!TNext]_(Promise!tvars)
  OBVIOUS
<1>1. /\ Value \in Values /\ Pending \in Values \cup {None} /\ None \notin Values
      /\ Value' \in Values /\ Pending' \in Values \cup {None}
  <2>1. Value \in Values /\ Pending \in Values \cup {None}
    BY MappedTyped
  <2>2. (Value \in Values /\ Pending \in Values \cup {None})'
    BY MappedTyped, PTL
  <2>3. Value' \in Values /\ Pending' \in Values \cup {None}
    BY <2>2
  <2> QED
    BY <2>1, <2>3, SettingsAssumption
<1>2. Unharmed \in BOOLEAN /\ Unharmed' \in BOOLEAN
  BY DEF Unharmed
<1> DEFINE Begins == Pending = None /\ Pending' \in Values /\ Value' = Value
           Succeeds == Pending # None /\ Value' = Pending /\ Pending' = None
           Fails == Pending # None /\ Pending' = None /\ Value' = Value
           Rests == Pending' = Pending /\ Value' = Value
<1>3. SUFFICES ASSUME Unharmed'
               PROVE  Unharmed /\ (Begins \/ Succeeds \/ Fails \/ Rests)
  <2>1. CASE ~Unharmed'
    <3>1. Promise!Interfere
      BY <1>1, <2>1 DEF Promise!Interfere, Value, Pending, Unharmed
    <3> QED
      BY <3>1 DEF Promise!TNext
  <2>2. CASE Unharmed'
    <3>1. Unharmed /\ (Begins \/ Succeeds \/ Fails \/ Rests)
      BY <1>3, <2>2
    <3> QED
      BY <2>2, <3>1 DEF Promise!TNext, Promise!Begin, Promise!Commit, Promise!Abort,
                        Promise!tvars, Value, Pending, Unharmed
  <2> QED
    BY <2>1, <2>2
<1>4. CASE \/ \E p \in Callers : StartSteps(p) \/ StartFails(p)
           \/ Restart \/ ClientOpens \/ UNCHANGED vars
  <2>1. rpc' = rpc /\ creds' = creds /\ uci' = uci /\ Unharmed
    BY <1>3, <1>4, WorldAside DEF vars, files, history, Unharmed
  <2>2. Candidate' = Candidate
    BY <2>1, EditedSame
  <2> QED
    BY <1>3, <2>1, <2>2 DEF Value, Pending, InSave, Unharmed
<1>5. CASE \/ \E c \in Creds : WritesCredential(c) \/ SecuresCredential(c)
           \/ WritesUCI \/ Generates \/ Reloaded \/ ConfirmsHealthy \/ ConfirmTimesOut
           \/ StopsDisabled \/ SaveFails \/ RestartsOld
           \/ \E f \in Creds \cup {"uci", "conf"} : Restores(f)
  <2>1. /\ InSave /\ InSave' /\ Unharmed
        /\ rpc'.req = rpc.req /\ rpc'.old = rpc.old
    BY <1>3, <1>5, SaveGoesOn DEF Unharmed
  <2>2. Candidate' = Candidate
    BY <2>1, EditedSame
  <2> QED
    BY <1>3, <2>1, <2>2 DEF Value, Pending, InSave, Unharmed
<1>6. CASE \/ \E req \in Requests : SaveBegins(req)
           \/ AutoBegins
  <2>1. /\ rpc.pc = "idle" /\ Unharmed /\ uci' = uci /\ creds' = creds
        /\ rpc'.pc \in {"creds", "auto"}
        /\ rpc'.old.uci = uci /\ rpc'.old.creds = creds
    BY <1>3, <1>6 DEF SaveBegins, AutoBegins, Request, Idle, Now, files, Unharmed
  <2>2. Pending = None /\ Value' = Value
    BY <2>1 DEF Pending, Value, InSave
  <2>3. Pending' # None
    <3>1. Pending' = Candidate'
      BY <2>1 DEF Pending
    <3>2. (Typed /\ Asked => Candidate \in Values)'
      BY CandidateTyped, PTL
    <3>3. Candidate' \in Values
      BY <2>1, <3>2 DEF Asked
    <3> QED
      BY <1>1, <3>1, <3>3
  <2> QED
    BY <1>1, <2>1, <2>2, <2>3
<1>7. CASE ServiceStops \/ ServiceStarts \/ ServiceEnds
  <2>1. /\ rpc.pc \in {"idle", "service"} /\ rpc'.pc \in {"idle", "service"} /\ Unharmed
        /\ uci' = uci /\ creds' = creds
    BY <1>3, <1>7, RequestDone DEF ServiceStops, ServiceStarts, ServiceEnds, Request, Idle,
                                   files, history, Unharmed
  <2>2. Pending = None /\ Pending' = None
    BY <2>1 DEF Pending
  <2>3. ~InSave /\ ~InSave'
    BY <2>1 DEF InSave
  <2>4. Value' = Value
    BY <2>1, <2>3 DEF Value
  <2> QED
    BY <2>1, <2>2, <2>4
<1>8. CASE Commits \/ AutoWrites
  <2>1. rpc.pc \in {"orphans", "auto"} /\ rpc'.pc = "idle" /\ Unharmed
    <3>1. CASE Commits
      BY <1>3, <3>1, RequestDone DEF Commits, Unharmed
    <3>2. CASE AutoWrites
      BY <1>3, <3>2, RequestDone DEF AutoWrites, Unharmed
    <3> QED
      BY <1>8, <3>1, <3>2
  <2>2. Pending = Candidate /\ Value' = [uci |-> uci', creds |-> creds'] /\ Pending' = None
    BY <2>1 DEF Pending, Value, InSave
  <2>3. Value' = Candidate
    BY <1>3, <1>8, <2>1, <2>2, CommitsCandidate DEF Unharmed
  <2> QED
    BY <1>1, <2>1, <2>2, <2>3
<1>9. CASE StopsOld \/ RolledBack
  <2>1. /\ rpc.pc \in {"restore", "back"} /\ rpc'.pc = "idle" /\ Unharmed
        /\ uci' = uci /\ creds' = creds
    BY <1>3, <1>9, RequestDone DEF StopsOld, RolledBack, files, history, Unharmed
  <2>2. uci = rpc.old.uci /\ creds = rpc.old.creds
    BY <1>9, <2>1, AbortsClean DEF Unharmed
  <2>3. Value' = Value /\ Pending' = None
    BY <2>1, <2>2 DEF Value, Pending, InSave, Unharmed
  <2> QED
    BY <2>1, <2>3
<1>10. CASE PowerLoss
  <2>1. /\ rpc'.pc = "idle" /\ Unharmed /\ ~Half /\ uci' = uci /\ creds' = creds
    BY <1>3, <1>10, RequestDone DEF PowerLoss, Unharmed
  <2>2. InSave => uci = rpc.old.uci /\ creds = rpc.old.creds
    BY <2>1 DEF Half
  <2>3. Value' = Value /\ Pending' = None
    BY <2>1, <2>2 DEF Value, Pending, InSave, Unharmed
  <2> QED
    BY <2>1, <2>3
<1> QED
  BY <1>4, <1>5, <1>6, <1>7, <1>8, <1>9, <1>10 DEF Next, RequestSteps

LEMMA PhaseInit == Init => PhaseInv
BY DEF Init, PhaseInv, WritingInv, WrittenInv, RestoreInv, BackInv, AutoInv

LEMMA PromiseInit == Init => Promise!TInit
<1> SUFFICES ASSUME Init PROVE Promise!TInit
  OBVIOUS
<1>1. Pending = None /\ Unharmed = TRUE
  BY DEF Init, Pending, Unharmed
<1> QED
  BY <1>1, TypedInit, MappedTyped DEF Promise!TInit, Value, Pending, Unharmed

----------------------------------------------------------------------------
(* What holds of every behaviour *)

LEMMA TypedAlways == Spec => []Typed
BY TypedInit, TypedStep, PTL DEF Spec

\* The phases follow one another as written, as long as nothing was lost.
LEMMA PhaseAlways == Spec => []PhaseInv
BY TypedAlways, PhaseInit, PhaseStep, PTL DEF Spec

\* Every variable keeps its type, whatever fails, races or loses power.
THEOREM SettingsTyped == Spec => []TypeOK
<1>1. Typed => TypeOK
  BY DEF Typed, StoreTyped, ServiceTyped, RequestTyped, StartTyped, HistoryTyped, TypeOK,
         Contents, Configs, RequestPcs, StartPcs
<1> QED
  BY <1>1, TypedAlways, PTL

\* backend.go, writeCredentials and removeOrphanCredentials: a controller that is added
\* never gets the secret of an earlier one with its ID, whichever operations of a save
\* fail and wherever the power is lost, except where a rollback was cut off half-way.
THEOREM SecretsNotInherited == Spec => []NoInheritedSecret
<1>1. GrantInv => NoInheritedSecret
  BY DEF GrantInv, NoInheritedSecret, Clean, InSave, Idle
<1>2. Spec => []GrantInv
  BY TypedAlways, PhaseAlways, GrantInit, GrantStep, PTL DEF Spec
<1> QED
  BY <1>1, <1>2, PTL

\* backend.go, save and its rollback: a request takes effect as a whole or not at all.
THEOREM RequestsAreTransactions == Spec => ImplementsTransaction
BY TypedAlways, PhaseAlways, PromiseInit, Refines, PTL
DEF Spec, ImplementsTransaction, Promise!TSpec
=============================================================================
