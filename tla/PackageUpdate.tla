--------------------------- MODULE PackageUpdate ---------------------------
(***************************************************************************)
(* The update of the OpenWrt package: workers that the page or cron starts *)
(* look up the latest release, download its package and the one of the     *)
(* installed version, install, verify and, where that fails, go back.  A   *)
(* lock file keeps them apart; the progress goes to a status file.  Both   *)
(* files lie in memory and are gone after a boot.  Package manager and     *)
(* releases are external: an installation changes the version, leaves it   *)
(* or breaks it, and restarts the service.                                 *)
(***************************************************************************)
EXTENDS Naturals, FiniteSets, Sequences, SequencesExt

CONSTANTS Workers,     \* update processes
          Archs,       \* package architectures
          Devices,     \* devices: which architectures they support, with their priorities
          Format,      \* the package format of the device: "ipk" or "apk"
          Manifest,    \* the packages of a release: a sequence of [format, arch]
          MaxVersion,  \* bound: versions released
          MaxMishaps,  \* bound: failures, kills, delays, boots and edits of the settings
          None         \* no lock, no target

Versions == 1..MaxVersion
Packages == [version : Versions, arch : Archs \cup {None}]   \* None: installed by hand
Broken == [version |-> 0, arch |-> None]     \* an installation that was cut off

ASSUME UpdateAssumption ==
  /\ IsFiniteSet(Workers)
  /\ \A d \in Devices : DOMAIN d \subseteq Archs /\ \A a \in DOMAIN d : d[a] \in Nat \ {0}
  /\ Format \in {"ipk", "apk"}
  /\ Manifest \in Seq([format : {"ipk", "apk"}, arch : Archs])
  /\ MaxVersion \in Nat \ {0} /\ MaxMishaps \in Nat
  /\ None \notin Workers \cup Archs \cup Packages \cup [by : Workers, old : BOOLEAN]

VARIABLES
  installed, \* the installed package, or Broken
  latest,    \* the version of the latest release
  archs,     \* the device
  dev,       \* version 1 is a development build, without a release to go back to
  bad,       \* the versions whose client does not come up
  enabled,   \* the enabled option of the settings
  worker,    \* each worker: its step, attempt at the lock, own version, the package it
             \* installs, whether it looks at the service, whether SIGTERM has arrived
  checker,   \* checkUpdate: the version of the process that runs it, or None
  lock,      \* update.lock: who made it and whether it is 30 minutes old, or None;
             \* by = None is the lock of a worker that was killed
  status,    \* update-status.json: the state and the version it is about
  fresh,     \* the workers since whose last installation the service was started
  mishaps,   \* mishaps so far
  stolen     \* history: a lock was removed that was fresh or whose worker was alive

device == <<archs, dev, bad>>
vars == <<installed, latest, device, enabled, worker, checker, lock, status, fresh, mishaps,
          stolen>>

States == {"idle", "checking", "up_to_date", "available", "downloading", "installing",
           "completed", "rolling_back", "rolled_back", "failed"}
Locked == {"checking", "prepare", "download", "install", "verify", "rollback", "verify_old",
           "release"}
Resting == [pc |-> "rest", attempt |-> 0, cur |-> 0, target |-> None, looks |-> FALSE,
            cancelled |-> FALSE]

Alive(w) == worker[w].pc # "rest"
At(w, pc) == worker[w].pc = pc
To(w, pc) == worker' = [worker EXCEPT ![w].pc = pc]
Mishap == mishaps < MaxMishaps /\ mishaps' = mishaps + 1

-----------------------------------------------------------------------------
(* selectUpdatePackage: the supported package of the highest priority, if there is just
   one of them.  Faulty variant: a later package of the same priority is taken instead. *)
ConsideredLast(sel, p) ==
  IF p.format # Format \/ p.arch \notin DOMAIN archs THEN sel
  ELSE IF archs[p.arch] >= sel.best THEN [arch |-> p.arch, best |-> archs[p.arch], matches |-> 1]
  ELSE sel

Considered(sel, p) ==
  IF p.format # Format \/ p.arch \notin DOMAIN archs THEN sel
  ELSE IF archs[p.arch] > sel.best THEN [arch |-> p.arch, best |-> archs[p.arch], matches |-> 1]
  ELSE IF archs[p.arch] = sel.best THEN [sel EXCEPT !.matches = @ + 1]
  ELSE sel

(* Priorities are natural numbers here, so 0 stands for the -1 of the code. *)
Selection[n \in 0..Len(Manifest)] ==
  IF n = 0 THEN [arch |-> None, best |-> 0, matches |-> 0]
  ELSE Considered(Selection[n - 1], Manifest[n])
Selected == Selection[Len(Manifest)]
Selectable == Selected.matches = 1

(* The latest release is newer than a process of version v.  Faulty variant: or as old. *)
AvailableAgain(v) == v <= latest
Available(v) == v < latest

(* stableCurrentTag *)
HasRollback(w) == ~(dev /\ worker[w].cur = 1)

Init ==
  /\ latest = 1
  /\ installed = [version |-> 1, arch |-> None]
  /\ archs \in Devices
  /\ dev \in BOOLEAN
  /\ bad \in SUBSET (Versions \ {1})
  /\ enabled = TRUE
  /\ worker = [w \in Workers |-> Resting]
  /\ checker = None /\ lock = None
  /\ status = [state |-> "idle", version |-> 0]
  /\ fresh = {} /\ mishaps = 0
  /\ stolen = FALSE

-----------------------------------------------------------------------------
(* The status file. *)
Reports(s, v) == status' = [state |-> s, version |-> v]

Ends(w, s, v) == Reports(s, v) /\ To(w, "release")
EndsFailed(w) ==
  Ends(w, "failed", IF worker[w].target = None THEN 0 ELSE worker[w].target.version)

(* A command fails on its own, or at once because the context was cancelled. *)
Failing(w) == IF worker[w].cancelled THEN UNCHANGED mishaps ELSE Mishap

(* checkUpdate runs without the lock. *)
CheckBegins ==
  /\ checker = None /\ installed # Broken
  /\ checker' = installed.version
  /\ Reports("checking", 0)
  /\ UNCHANGED <<installed, latest, device, enabled, worker, lock, fresh, mishaps, stolen>>

CheckEnds ==
  /\ checker # None
  /\ checker' = None
  /\ \/ Mishap /\ Reports("failed", 0)
     \/ ~Selectable /\ Reports("failed", 0) /\ UNCHANGED mishaps
     \/ /\ Selectable
        /\ Reports(IF Available(checker) THEN "available" ELSE "up_to_date", latest)
        /\ UNCHANGED mishaps
  /\ UNCHANGED <<installed, latest, device, enabled, worker, lock, fresh, stolen>>

-----------------------------------------------------------------------------
(* A worker and the lock. *)
Starts(w) ==
  /\ ~Alive(w) /\ installed # Broken
  /\ worker' = [worker EXCEPT ![w] = [Resting EXCEPT !.pc = "open", !.attempt = 1,
                                                     !.cur = installed.version]]
  /\ UNCHANGED <<installed, latest, device, enabled, checker, lock, status, fresh, mishaps,
                 stolen>>

(* O_CREATE|O_EXCL.  Faulty variant: the file is created whether it is there or not. *)
CreatesAnyway == TRUE
Creates == lock = None

(* A lock is taken for a left-over by its age. *)
Stale == lock.old

(* The lock file, and the first entry in the status. *)
Acquires(w) ==
  /\ At(w, "open") /\ Creates
  /\ lock' = [by |-> w, old |-> FALSE]
  /\ To(w, "checking") /\ Reports("checking", 0)
  /\ UNCHANGED <<installed, latest, device, enabled, checker, fresh, mishaps, stolen>>

(* The file is there: an old one is to be removed, otherwise the worker gives up. *)
FindsLock(w) ==
  /\ At(w, "open") /\ lock # None
  /\ IF Stale THEN To(w, "remove") ELSE worker' = [worker EXCEPT ![w] = Resting]
  /\ UNCHANGED <<installed, latest, device, enabled, checker, lock, status, fresh, mishaps,
                 stolen>>

(* Whatever lock is there by now is removed. *)
RemovesLock(w) ==
  /\ At(w, "remove")
  /\ lock' = None
  /\ stolen' = (stolen \/ (lock # None /\ (~lock.old \/ lock.by # None)))
  /\ worker' = IF worker[w].attempt = 2 THEN [worker EXCEPT ![w] = Resting]
               ELSE [worker EXCEPT ![w].pc = "open", ![w].attempt = 2]
  /\ UNCHANGED <<installed, latest, device, enabled, checker, status, fresh, mishaps>>

(* The deferred release removes the file too, whoever has made it. *)
Releases(w) ==
  /\ At(w, "release")
  /\ lock' = None
  /\ stolen' = (stolen \/ (lock # None /\ lock.by # w))
  /\ worker' = [worker EXCEPT ![w] = Resting]
  /\ UNCHANGED <<installed, latest, device, enabled, checker, status, fresh, mishaps>>

-----------------------------------------------------------------------------
(* A worker that has the lock: runUpdate. *)

Resolves(w) ==
  /\ At(w, "checking")
  /\ \/ Failing(w) /\ EndsFailed(w)
     \/ ~worker[w].cancelled /\ ~Selectable /\ EndsFailed(w) /\ UNCHANGED mishaps
     \/ /\ ~worker[w].cancelled /\ Selectable /\ UNCHANGED mishaps
        /\ IF ~Available(worker[w].cur) THEN Ends(w, "up_to_date", latest)
           ELSE /\ worker' = [worker EXCEPT ![w].pc = "prepare",
                                ![w].target = [version |-> latest, arch |-> Selected.arch]]
                /\ UNCHANGED status
  /\ UNCHANGED <<installed, latest, device, enabled, checker, lock, fresh, stolen>>

(* Settings, working directory, the manifest of the installed version, space. *)
Prepares(w) ==
  /\ At(w, "prepare")
  /\ \/ Mishap /\ To(w, "release") /\ UNCHANGED status
     \/ (IF HasRollback(w) THEN Failing(w) ELSE Mishap) /\ EndsFailed(w)
     \/ /\ HasRollback(w) => ~worker[w].cancelled
        /\ worker' = [worker EXCEPT ![w].pc = "download", ![w].looks = enabled]
        /\ Reports("downloading", worker[w].target.version)
        /\ UNCHANGED mishaps
  /\ UNCHANGED <<installed, latest, device, enabled, checker, lock, fresh, stolen>>

(* Both packages, each with the size and digest of its manifest. *)
Downloads(w) ==
  /\ At(w, "download")
  /\ \/ Failing(w) /\ EndsFailed(w) /\ UNCHANGED fresh
     \/ /\ ~worker[w].cancelled /\ UNCHANGED mishaps
        /\ To(w, "install") /\ Reports("installing", worker[w].target.version)
        /\ fresh' = fresh \ {w}
  /\ UNCHANGED <<installed, latest, device, enabled, checker, lock, stolen>>

(* The package before the update. *)
Old(w) == [version |-> worker[w].cur, arch |-> Selected.arch]

(* What the package manager leaves behind; opkg does nothing where p is installed. *)
Installs(p) ==
  \/ installed' = p /\ fresh' = Workers
  \/ installed = p /\ UNCHANGED <<installed, fresh>>

(* What it may leave when it fails or is interrupted: nothing done, a part, or all but the
   end.                                                                                  *)
Untouched == [installed |-> installed, fresh |-> fresh]
Remains(p) == {Untouched, [installed |-> Broken, fresh |-> fresh],
               [installed |-> p, fresh |-> Workers]}

Interrupted(w) ==
  CASE At(w, "install") -> Remains(worker[w].target)
    [] At(w, "rollback") -> Remains(Old(w))
    [] OTHER -> {Untouched}

(* The command fails, or does not even begin; the clock of the workers in "reset" starts
   anew.                                                                               *)
InstallFails(w, reset) ==
  /\ Failing(w)
  /\ \E o \in IF worker[w].cancelled THEN {Untouched} ELSE Interrupted(w) :
       installed' = o.installed /\ fresh' = o.fresh \ reset

(* A failure after the installation has begun: back to the old package, if there is one. *)
GoesBack(w) ==
  IF HasRollback(w)
    THEN To(w, "rollback") /\ Reports("rolling_back", worker[w].target.version)
    ELSE EndsFailed(w)

(* Faulty variant: the clock for confirmHealthy is read after the installation. *)
InstallsTargetUnclocked(w) ==
  /\ At(w, "install")
  /\ \/ InstallFails(w, {w}) /\ GoesBack(w)
     \/ /\ ~worker[w].cancelled /\ UNCHANGED mishaps
        /\ installed' = worker[w].target /\ fresh' = Workers \ {w}
        /\ To(w, "verify") /\ UNCHANGED status
  /\ UNCHANGED <<latest, device, enabled, checker, lock, stolen>>

InstallsTarget(w) ==
  /\ At(w, "install")
  /\ \/ InstallFails(w, {w}) /\ GoesBack(w)
     \/ /\ ~worker[w].cancelled /\ UNCHANGED mishaps
        /\ Installs(worker[w].target)
        /\ To(w, "verify") /\ UNCHANGED status
  /\ UNCHANGED <<latest, device, enabled, checker, lock, stolen>>

(* verifyInstalledVersion asks both programs, confirmHealthy the status of the service. *)
Verified(w, p) ==
  /\ installed.version = p.version /\ ~worker[w].cancelled
  /\ worker[w].looks => enabled /\ w \in fresh /\ installed.version \notin bad

VerifiesTarget(w) ==
  /\ At(w, "verify")
  /\ \/ /\ Verified(w, worker[w].target) /\ UNCHANGED <<mishaps, fresh>>
        /\ Ends(w, "completed", worker[w].target.version)
     \/ /\ IF Verified(w, worker[w].target) THEN Mishap ELSE UNCHANGED mishaps
        /\ GoesBack(w) /\ fresh' = fresh \ {w}
  /\ UNCHANGED <<installed, latest, device, enabled, checker, lock, stolen>>

RollsBack(w) ==
  /\ At(w, "rollback")
  /\ \/ InstallFails(w, {}) /\ EndsFailed(w)
     \/ /\ ~worker[w].cancelled /\ UNCHANGED mishaps
        /\ Installs(Old(w))
        /\ To(w, "verify_old") /\ UNCHANGED status
  /\ UNCHANGED <<latest, device, enabled, checker, lock, stolen>>

VerifiesOld(w) ==
  /\ At(w, "verify_old")
  /\ \/ /\ Verified(w, Old(w)) /\ UNCHANGED mishaps
        /\ Ends(w, "rolled_back", worker[w].cur)
     \/ /\ IF Verified(w, Old(w)) THEN Mishap ELSE UNCHANGED mishaps
        /\ EndsFailed(w)
  /\ UNCHANGED <<installed, latest, device, enabled, checker, lock, fresh, stolen>>

-----------------------------------------------------------------------------
(* The world around. *)
NewRelease ==
  /\ latest < MaxVersion
  /\ latest' = latest + 1
  /\ UNCHANGED <<installed, device, enabled, worker, checker, lock, status, fresh, mishaps,
                 stolen>>

(* Half an hour passes, also for a worker that is still downloading. *)
Ages ==
  /\ lock # None /\ ~lock.old
  /\ IF lock.by # None THEN Mishap ELSE UNCHANGED mishaps
  /\ lock' = [lock EXCEPT !.old = TRUE]
  /\ UNCHANGED <<installed, latest, device, enabled, worker, checker, status, fresh, stolen>>

(* SIGTERM cancels the context of the commands and nothing else: the one that runs is
   killed.                                                                            *)
Terminated(w) ==
  /\ worker[w].pc \in Locked /\ ~worker[w].cancelled
  /\ Mishap
  /\ worker' = [worker EXCEPT ![w].cancelled = TRUE]
  /\ \E o \in Interrupted(w) : installed' = o.installed /\ fresh' = o.fresh
  /\ UNCHANGED <<latest, device, enabled, checker, lock, status, stolen>>

(* SIGKILL leaves the lock, and a package manager that runs to its end. *)
Killed(w) ==
  /\ Alive(w)
  /\ Mishap
  /\ worker' = [worker EXCEPT ![w] = Resting]
  /\ lock' = IF lock # None /\ lock.by = w THEN [lock EXCEPT !.by = None] ELSE lock
  /\ CASE At(w, "install") -> Installs(worker[w].target)
       [] At(w, "rollback") -> Installs(Old(w))
       [] OTHER -> UNCHANGED <<installed, fresh>>
  /\ UNCHANGED <<latest, device, enabled, checker, status, stolen>>

Reboot ==
  /\ Mishap
  /\ worker' = [w \in Workers |-> Resting]
  /\ checker' = None /\ lock' = None
  /\ Reports("idle", 0)
  /\ installed' \in {installed} \cup
       (IF \E w \in Workers : worker[w].pc \in {"install", "rollback"} THEN {Broken} ELSE {})
  /\ UNCHANGED <<latest, device, enabled, fresh, stolen>>

(* The settings page enables or disables the service. *)
Toggles ==
  /\ Mishap
  /\ enabled' = ~enabled
  /\ fresh' = IF enabled' THEN Workers ELSE fresh
  /\ UNCHANGED <<installed, latest, device, worker, checker, lock, status, stolen>>

-----------------------------------------------------------------------------
WorkerStep(w) ==
  \/ Acquires(w) \/ FindsLock(w) \/ RemovesLock(w) \/ Releases(w)
  \/ Resolves(w) \/ Prepares(w) \/ Downloads(w)
  \/ InstallsTarget(w) \/ VerifiesTarget(w) \/ RollsBack(w) \/ VerifiesOld(w)

Next ==
  \/ \E w \in Workers : Starts(w) \/ WorkerStep(w) \/ Terminated(w) \/ Killed(w)
  \/ CheckBegins \/ CheckEnds
  \/ NewRelease \/ Ages \/ Reboot \/ Toggles

Spec == Init /\ [][Next]_vars

(* Workers run, cron starts one every day, and time passes. *)
FairSpec == /\ Spec
            /\ \A w \in Workers : WF_vars(Starts(w)) /\ WF_vars(WorkerStep(w))
            /\ WF_vars(Ages)

-----------------------------------------------------------------------------
(* The types of the variables; a worker that installs has a newer package to install. *)
TypeOK ==
  /\ installed \in Packages \cup {Broken}
  /\ latest \in Versions
  /\ enabled \in BOOLEAN /\ dev \in BOOLEAN /\ bad \subseteq Versions
  /\ worker \in [Workers -> [pc : Locked \cup {"rest", "open", "remove"}, attempt : 0..2,
                             cur : 0..MaxVersion, target : Packages \cup {None},
                             looks : BOOLEAN, cancelled : BOOLEAN]]
  /\ checker \in Versions \cup {None}
  /\ lock \in [by : Workers \cup {None}, old : BOOLEAN] \cup {None}
  /\ status \in [state : States, version : 0..MaxVersion]
  /\ fresh \subseteq Workers
  /\ mishaps \in 0..MaxMishaps
  /\ stolen \in BOOLEAN
  /\ \A w \in Workers : worker[w].target # None => worker[w].target.version > worker[w].cur

(* Two workers never download and install at the same time, unless one of them has removed
   the lock of the other: acquireUpdateLock with its stale locks, retries and releases. *)
OneInstaller ==
  ~stolen => \A v, w \in Workers : worker[v].pc \in Locked /\ worker[w].pc \in Locked => v = w

(* What the status says of an update that has ended is true: after "completed" the best
   package of that version is installed, after "rolled_back" the version before it.  It
   does not hold once a worker has removed the lock of another.                        *)
Best(p) ==
  /\ \E i \in DOMAIN Manifest : Manifest[i] = [format |-> Format, arch |-> p.arch]
  /\ \A i \in DOMAIN Manifest :
       Manifest[i].format = Format /\ Manifest[i].arch \in DOMAIN archs \ {p.arch}
         => archs[p.arch] > archs[Manifest[i].arch]

StatusTruthful ==
  /\ ~stolen
  /\ status.state \in {"completed", "rolled_back"}
  => /\ installed.version = status.version
     /\ Best(installed)

(* No kill, stale lock, failure or rollback keeps a device from the latest version for good,
   if that comes up, has a package for the device and nothing has broken the installation.
   An installation that is still to be verified does not count, nor one that is on its way
   back: the version is installed and no worker is changing it.  What may go on for ever is
   only that workers remove each other's lock and work at the same time.                 *)
Changing(w) == worker[w].pc \in {"install", "verify", "rollback", "verify_old"}

Updated == installed.version = latest /\ \A w \in Workers : ~Changing(w)
Overlap == \E v, w \in Workers : v # w /\ worker[v].pc \in Locked /\ worker[w].pc \in Locked

EventuallyUpdated ==
  []<>(installed = Broken \/ ~Selectable \/ latest \in bad \/ Updated \/ Overlap)
=============================================================================
