------------------------ MODULE PackageUpdateProofs ------------------------
(***************************************************************************)
(* What holds of PackageUpdate for every value of its constants, proved    *)
(* with TLAPS: what selectUpdatePackage returns for any manifest, that the *)
(* lock keeps the installers apart, and that the status tells the truth.   *)
(***************************************************************************)
EXTENDS PackageUpdate, SequenceTheorems, WellFoundedInduction, TLAPS

----------------------------------------------------------------------------
(* Induction over numbers *)

\* Every nonempty set of natural numbers has a least element.
LEMMA WellOrdered ==
  ASSUME NEW T \in SUBSET Nat, T # {}
  PROVE  \E x \in T : \A y \in T : x <= y
<1> DEFINE R == {ss \in Nat \X Nat : ss[1] < ss[2]}
<1>1. IsWellFoundedOn(R, Nat)
  <2>1. OpToRel(<, Nat) = R
    BY DEF OpToRel
  <2> QED
    BY <2>1, NatLessThanWellFounded
<1>2. \A x, y \in Nat : <<y, x>> \in R <=> y < x
  OBVIOUS
<1> HIDE DEF R
<1>3. \E x \in T : \A y \in T : ~(<<y, x>> \in R)
  BY <1>1, WFMin
<1>4. \A x, y \in Nat : ~(y < x) => x <= y
  OBVIOUS
<1> QED
  BY <1>2, <1>3, <1>4

\* Induction, for sets of numbers.
LEMMA AllNumbers ==
  ASSUME NEW S \in SUBSET Nat, 0 \in S, \A n \in S : n + 1 \in S
  PROVE  S = Nat
<1> SUFFICES ASSUME Nat \ S # {} PROVE FALSE
  OBVIOUS
<1>1. PICK x \in Nat \ S : \A y \in Nat \ S : x <= y
  BY WellOrdered
<1>2. x - 1 \in Nat /\ ~(x <= x - 1) /\ (x - 1) + 1 = x
  BY <1>1
<1> QED
  BY <1>1, <1>2

----------------------------------------------------------------------------
(* The selection of a package *)

\* The packages of the manifest.
LEMMA ManifestEntries ==
  /\ Len(Manifest) \in Nat
  /\ DOMAIN Manifest = 1..Len(Manifest)
  /\ \A i \in 1..Len(Manifest) : Manifest[i] \in [format : {"ipk", "apk"}, arch : Archs]
<1> DEFINE P == [format : {"ipk", "apk"}, arch : Archs]
<1>1. Manifest \in Seq(P)
  BY UpdateAssumption
<1> HIDE DEF P
<1>2. \A i \in 1..Len(Manifest) : Manifest[i] \in P
  BY <1>1, ElementOfSeq
<1> QED
  BY <1>1, <1>2, LenProperties DEF P

Nothing == [arch |-> None, best |-> 0, matches |-> 0]

\* The recursive definition of Selection defines a function.
LEMMA SelectionDefined ==
  Selection = [n \in 0..Len(Manifest) |->
                 IF n = 0 THEN Nothing ELSE Considered(Selection[n - 1], Manifest[n])]
<1> DEFINE Defines(g, m) ==
             g = [n \in 0..m |->
                    IF n = 0 THEN Nothing ELSE Considered(g[n - 1], Manifest[n])]
           S == {m \in Nat : \E g : Defines(g, m)}
<1>1. 0 \in S
  <2>1. Defines([n \in 0..0 |-> Nothing], 0)
    OBVIOUS
  <2> QED
    BY <2>1
<1>2. ASSUME NEW m \in S
      PROVE  m + 1 \in S
  <2>1. PICK g : Defines(g, m)
    BY <1>2
  <2> DEFINE h == [n \in 0..(m + 1) |->
                     IF n = m + 1 THEN Considered(g[m], Manifest[m + 1]) ELSE g[n]]
  <2>2. ASSUME NEW n \in 0..(m + 1)
        PROVE  h[n] = IF n = 0 THEN Nothing ELSE Considered(h[n - 1], Manifest[n])
    <3>1. CASE n = m + 1
      BY <3>1
    <3>2. CASE n # m + 1
      BY <2>1, <3>2
    <3> QED
      BY <3>1, <3>2
  <2>3. Defines(h, m + 1)
    BY <2>2
  <2> HIDE DEF h, Defines
  <2> QED
    BY <2>3
<1> HIDE DEF Defines
<1>3. S = Nat
  <2> HIDE DEF S
  <2>1. S \in SUBSET Nat
    BY DEF S
  <2> QED
    BY <1>1, <1>2, <2>1, AllNumbers
<1>4. Len(Manifest) \in Nat
  BY ManifestEntries
<1>5. PICK g : Defines(g, Len(Manifest))
  BY <1>3, <1>4
<1>6. Selection = CHOOSE f : Defines(f, Len(Manifest))
  BY DEF Selection, Defines, Nothing
<1>7. Defines(Selection, Len(Manifest))
  BY <1>5, <1>6
<1> QED
  BY <1>7 DEF Defines

\* A package of the manifest that the device could install.
Eligible(i) == Manifest[i].format = Format /\ Manifest[i].arch \in DOMAIN archs

\* What the loop of selectUpdatePackage knows after the first n packages.
SelectedOf(n, sel) ==
  /\ sel \in [arch : Archs \cup {None}, best : Nat, matches : Nat]
  /\ \A i \in 1..n : Eligible(i) => archs[Manifest[i].arch] <= sel.best
  /\ sel.matches # 0 =>
       \E i \in 1..n : /\ Eligible(i)
                       /\ Manifest[i].arch = sel.arch
                       /\ archs[sel.arch] = sel.best
  /\ sel.matches = 0 => sel.best = 0
  /\ sel.matches = 1 =>
       \A i \in 1..n :
         Eligible(i) /\ archs[Manifest[i].arch] = sel.best => Manifest[i].arch = sel.arch

\* One more package.
LEMMA SelectedNext ==
  ASSUME archs \in Devices, NEW n \in Nat, n + 1 <= Len(Manifest),
         NEW sel, SelectedOf(n, sel)
  PROVE  SelectedOf(n + 1, Considered(sel, Manifest[n + 1]))
<1> DEFINE p == Manifest[n + 1]
<1>1. /\ \A i \in 1..(n + 1) : i \in 1..n \/ i = n + 1
      /\ \A i \in 1..n : i \in 1..(n + 1)
      /\ n + 1 \in 1..(n + 1)
  OBVIOUS
<1>2. /\ sel \in [arch : Archs \cup {None}, best : Nat, matches : Nat]
      /\ sel.best \in Nat
      /\ sel.matches \in Nat
  BY DEF SelectedOf
<1>3. p \in [format : {"ipk", "apk"}, arch : Archs]
  <2>1. n + 1 \in 1..Len(Manifest)
    BY ManifestEntries
  <2> QED
    BY <2>1, ManifestEntries
<1>4. Eligible(n + 1) => p.arch \in Archs /\ archs[p.arch] \in Nat \ {0}
  BY <1>3, UpdateAssumption DEF Eligible
<1>5. CASE ~Eligible(n + 1)
  <2>1. Considered(sel, p) = sel
    BY <1>5 DEF Considered, Eligible
  <2> QED
    BY <1>1, <1>5, <2>1 DEF SelectedOf
<1>6. CASE Eligible(n + 1) /\ archs[p.arch] > sel.best
  <2>1. Considered(sel, p) = [arch |-> p.arch, best |-> archs[p.arch], matches |-> 1]
    BY <1>6 DEF Considered, Eligible
  <2>2. \A i \in 1..n : Eligible(i) => /\ archs[Manifest[i].arch] <= sel.best
                                      /\ archs[Manifest[i].arch] \in Nat
    <3>1. \A i \in 1..n : Manifest[i] \in [format : {"ipk", "apk"}, arch : Archs]
      <4>1. \A i \in 1..n : i \in 1..Len(Manifest)
        BY ManifestEntries
      <4> QED
        BY <4>1, ManifestEntries
    <3> QED
      BY <3>1, UpdateAssumption DEF SelectedOf, Eligible
  <2>3. \A i \in 1..n : Eligible(i) => archs[Manifest[i].arch] < archs[p.arch]
    BY <1>2, <1>4, <1>6, <2>2
  <2> HIDE DEF p
  <2>4. \A i \in 1..(n + 1) : Eligible(i) => archs[Manifest[i].arch] <= archs[p.arch]
    BY <1>1, <1>4, <1>6, <2>2, <2>3 DEF p
  <2>5. \A i \in 1..(n + 1) :
          Eligible(i) /\ archs[Manifest[i].arch] = archs[p.arch] => Manifest[i].arch = p.arch
    BY <1>1, <1>4, <1>6, <2>2, <2>3 DEF p
  <2> QED
    BY <1>1, <1>4, <1>6, <2>1, <2>4, <2>5 DEF SelectedOf, p
<1>7. CASE Eligible(n + 1) /\ archs[p.arch] = sel.best
  <2>1. Considered(sel, p) = [sel EXCEPT !.matches = sel.matches + 1]
    BY <1>2, <1>4, <1>7 DEF Considered, Eligible
  <2>2. sel.matches # 0
    BY <1>4, <1>7 DEF SelectedOf
  <2>3. /\ Considered(sel, p) \in [arch : Archs \cup {None}, best : Nat, matches : Nat]
        /\ Considered(sel, p).arch = sel.arch
        /\ Considered(sel, p).best = sel.best
        /\ Considered(sel, p).matches \notin {0, 1}
    BY <1>2, <2>1, <2>2
  <2>4. \A i \in 1..(n + 1) : Eligible(i) => archs[Manifest[i].arch] <= sel.best
    BY <1>1, <1>2, <1>7 DEF SelectedOf
  <2> QED
    BY <1>1, <2>2, <2>3, <2>4 DEF SelectedOf
<1>8. CASE Eligible(n + 1) /\ archs[p.arch] < sel.best
  <2>1. Considered(sel, p) = sel
    BY <1>2, <1>4, <1>8 DEF Considered, Eligible
  <2>2. \A i \in 1..(n + 1) : Eligible(i) => archs[Manifest[i].arch] <= sel.best
    BY <1>1, <1>2, <1>4, <1>8 DEF SelectedOf
  <2>3. sel.matches = 1 =>
          \A i \in 1..(n + 1) :
            Eligible(i) /\ archs[Manifest[i].arch] = sel.best => Manifest[i].arch = sel.arch
    BY <1>1, <1>2, <1>4, <1>8 DEF SelectedOf
  <2> QED
    BY <1>1, <2>1, <2>2, <2>3 DEF SelectedOf
<1> QED
  BY <1>2, <1>4, <1>5, <1>6, <1>7, <1>8

\* What selectUpdatePackage returns, for every manifest and every device: when it
\* selects a package, one that no other supported package equals or exceeds.
LEMMA SelectionCorrect ==
  ASSUME archs \in Devices
  PROVE  /\ Selected.arch \in Archs \cup {None}
         /\ Selectable =>
              /\ Selected.arch \in Archs
              /\ \A v : Best([version |-> v, arch |-> Selected.arch])
<1> DEFINE S == {n \in Nat : n <= Len(Manifest) => SelectedOf(n, Selection[n])}
<1>1. Len(Manifest) \in Nat
  BY ManifestEntries
<1>2. 0 \in S
  <2>1. Selection[0] = Nothing
    BY <1>1, SelectionDefined
  <2>2. SelectedOf(0, Nothing)
    BY DEF SelectedOf, Nothing
  <2> QED
    BY <2>1, <2>2
<1>3. ASSUME NEW n \in S
      PROVE  n + 1 \in S
  <2> SUFFICES ASSUME n + 1 <= Len(Manifest)
               PROVE  SelectedOf(n + 1, Selection[n + 1])
    OBVIOUS
  <2>1. SelectedOf(n, Selection[n])
    BY <1>1
  <2>2. Selection[n + 1] = Considered(Selection[n], Manifest[n + 1])
    <3>1. n + 1 \in 0..Len(Manifest) /\ n + 1 # 0 /\ (n + 1) - 1 = n
      BY <1>1
    <3> QED
      BY <3>1, SelectionDefined
  <2> QED
    BY <2>1, <2>2, SelectedNext
<1>4. S = Nat
  <2>1. S \in SUBSET Nat
    OBVIOUS
  <2> HIDE DEF S
  <2> QED
    BY <1>2, <1>3, <2>1, AllNumbers
<1>5. SelectedOf(Len(Manifest), Selected)
  BY <1>1, <1>4 DEF Selected
<1> HIDE DEF S
<1>6. DOMAIN Manifest = 1..Len(Manifest)
  BY ManifestEntries
<1>7. ASSUME Selectable
      PROVE  /\ Selected.arch \in Archs
             /\ \A v : Best([version |-> v, arch |-> Selected.arch])
  <2>1. Selected.matches = 1 /\ Selected.matches # 0
    BY <1>7 DEF Selectable
  <2>2. PICK i \in 1..Len(Manifest) :
          /\ Eligible(i)
          /\ Manifest[i].arch = Selected.arch
          /\ archs[Selected.arch] = Selected.best
    BY <1>5, <2>1 DEF SelectedOf
  <2>3. Selected.arch \in DOMAIN archs /\ Selected.arch \in Archs
    BY <2>2, UpdateAssumption DEF Eligible
  <2>4. \A j \in 1..Len(Manifest) : Manifest[j] \in [format : {"ipk", "apk"}, arch : Archs]
    BY ManifestEntries
  <2>5. Manifest[i] = [format |-> Format, arch |-> Selected.arch]
    BY <2>2, <2>4 DEF Eligible
  <2>6. ASSUME NEW j \in 1..Len(Manifest), Eligible(j), Manifest[j].arch # Selected.arch
        PROVE  archs[Selected.arch] > archs[Manifest[j].arch]
    <3>1. /\ archs[Manifest[j].arch] <= Selected.best
          /\ archs[Manifest[j].arch] # Selected.best
      BY <1>5, <2>1, <2>6 DEF SelectedOf
    <3>2. archs[Manifest[j].arch] \in Nat /\ Selected.best \in Nat
      BY <1>5, <2>6, UpdateAssumption DEF SelectedOf, Eligible
    <3> QED
      BY <2>2, <3>1, <3>2
  <2> QED
    BY <1>6, <2>3, <2>5, <2>6 DEF Best, Eligible
<1> QED
  BY <1>5, <1>7 DEF SelectedOf

\* The selection does not change as long as the device is the same.
LEMMA SelectionSame ==
  ASSUME archs' = archs
  PROVE  Selected' = Selected
BY DEF Selected, Selection, Considered

----------------------------------------------------------------------------
(* The conjuncts of the inductive invariants *)

Working == Locked \ {"checking", "release"}

WorkerType == [pc : Locked \cup {"rest", "open", "remove"}, attempt : 0..2,
               cur : 0..MaxVersion, target : Packages \cup {None},
               looks : BOOLEAN, cancelled : BOOLEAN]

\* A worker that runs knows its own version; the package it installs is the best
\* one of a newer version; and it has one from the preparation on.
WorkerSound(r) ==
  /\ r \in WorkerType
  /\ r.pc # "rest" => r.cur \in Versions
  /\ r.target # None =>
       /\ r.target.version > r.cur
       /\ Selectable
       /\ r.target.arch = Selected.arch
  /\ r.pc \in Working => r.target # None

\* TypeOK without what it says of the workers.
RestTyped ==
  /\ installed \in Packages \cup {Broken}
  /\ latest \in Versions
  /\ enabled \in BOOLEAN /\ dev \in BOOLEAN /\ bad \subseteq Versions
  /\ archs \in Devices
  /\ checker \in Versions \cup {None}
  /\ lock \in [by : Workers \cup {None}, old : BOOLEAN] \cup {None}
  /\ status \in [state : States, version : 0..MaxVersion]
  /\ fresh \subseteq Workers
  /\ mishaps \in 0..MaxMishaps
  /\ stolen \in BOOLEAN

Sound ==
  /\ RestTyped
  /\ worker \in [Workers -> WorkerType]
  /\ \A w \in Workers : WorkerSound(worker[w])

\* A worker behind the lock has made the lock file, unless one was stolen.
Owned == ~stolen => \A w \in Workers : worker[w].pc \in Locked => lock # None /\ lock.by = w

Decided == {"completed", "rolled_back"}

\* While a worker verifies, what it has installed is installed; and before it ends its
\* update, what the status says of an earlier one is gone.
Ready(r) ==
  /\ r.pc = "verify" => installed = r.target
  /\ r.pc = "verify_old" => installed = [version |-> r.cur, arch |-> Selected.arch]
  /\ r.pc \in Locked \ {"release"} => status.state \notin Decided

Truth ==
  ~stolen => /\ \A w \in Workers : Ready(worker[w])
             /\ status.state \in Decided =>
                  installed.version = status.version /\ Best(installed)

----------------------------------------------------------------------------
(* Types *)

\* None is no number, package, architecture, worker or lock.
LEMMA NoneIsNothing ==
  /\ None \notin Packages
  /\ None \notin Workers
  /\ None \notin Archs
  /\ None \notin [by : Workers, old : BOOLEAN]
BY UpdateAssumption

LEMMA RestingSound == WorkerSound(Resting)
BY UpdateAssumption DEF WorkerSound, Resting, WorkerType, Working, Locked

LEMMA SoundInit == Init => Sound
<1> SUFFICES ASSUME Init PROVE Sound
  OBVIOUS
<1>1. RestTyped
  <2>1. enabled \in BOOLEAN /\ stolen \in BOOLEAN
    BY DEF Init
  <2>2. 1 \in Versions /\ 0 \in 0..MaxVersion /\ 0 \in 0..MaxMishaps
    BY UpdateAssumption DEF Versions
  <2>3. installed \in Packages
    BY <2>2 DEF Init, Packages
  <2>4. status \in [state : States, version : 0..MaxVersion]
    BY <2>2 DEF Init, States
  <2> QED
    BY <2>1, <2>2, <2>3, <2>4 DEF Init, RestTyped
<1>2. worker = [w \in Workers |-> Resting]
  BY DEF Init
<1>3. \A w \in Workers : worker[w] = Resting
  BY <1>2
<1>4. worker \in [Workers -> WorkerType]
  BY <1>2, RestingSound DEF WorkerSound
<1> QED
  BY <1>1, <1>3, <1>4, RestingSound DEF Sound

\* One worker moves to a sound state.
LEMMA OneMoves ==
  ASSUME Sound, NEW w \in Workers, NEW r, WorkerSound(r), archs' = archs,
         worker' = [worker EXCEPT ![w] = r], RestTyped'
  PROVE  Sound'
<1>1. \A s : WorkerSound(s)' <=> WorkerSound(s)
  BY SelectionSame DEF WorkerSound, Selectable
<1>2. r \in WorkerType
  BY DEF WorkerSound
<1>3. worker' \in [Workers -> WorkerType]
  BY <1>2 DEF Sound
<1>4. \A v \in Workers : worker'[v] = r \/ worker'[v] = worker[v]
  BY DEF Sound
<1>5. \A v \in Workers : WorkerSound(worker'[v])
  BY <1>4 DEF Sound
<1>6. \A v \in Workers : WorkerSound(worker[v])'
  <2> SUFFICES ASSUME NEW v \in Workers PROVE WorkerSound(worker[v])'
    OBVIOUS
  <2>1. PICK s : s = worker'[v]
    OBVIOUS
  <2>2. WorkerSound(s)'
    BY <1>1, <1>5, <2>1
  <2> QED
    BY <2>1, <2>2 DEF WorkerSound
<1> QED
  BY <1>3, <1>6 DEF Sound

\* A worker behind the lock stays there.
Moves(w) ==
  \E r : /\ WorkerSound(r) /\ r.pc \in Locked
         /\ worker' = [worker EXCEPT ![w] = r]

StatusTyped == status \in [state : States, version : 0..MaxVersion]

\* A worker and its package.
LEMMA WorkerFields ==
  ASSUME Sound, NEW w \in Workers
  PROVE  /\ worker[w] \in WorkerType
         /\ WorkerSound(worker[w])
         /\ worker[w].cur \in 0..MaxVersion
         /\ worker[w].pc # "rest" => worker[w].cur \in Versions
         /\ worker[w].target # None =>
              /\ worker[w].target \in Packages
              /\ worker[w].target.version \in Versions
              /\ worker[w].target.version > worker[w].cur
              /\ worker[w].target.arch = Selected.arch
              /\ Selectable
         /\ worker[w].pc \in Working => worker[w].target # None
<1>1. WorkerSound(worker[w])
  BY DEF Sound
<1> QED
  BY <1>1 DEF WorkerSound, WorkerType, Packages

\* Only the step of the worker changes.
LEMMA MovesTo ==
  ASSUME Sound, NEW w \in Workers, worker[w].pc # "rest", NEW pc \in Locked,
         pc \in Working => worker[w].target # None, To(w, pc)
  PROVE  Moves(w)
<1> DEFINE r == [worker[w] EXCEPT !.pc = pc]
<1>1. worker' = [worker EXCEPT ![w] = r]
  BY DEF To
<1>2. worker[w] \in WorkerType /\ WorkerSound(worker[w])
  BY WorkerFields
<1>3. /\ r \in WorkerType
      /\ r.pc = pc
      /\ r.cur = worker[w].cur
      /\ r.target = worker[w].target
  BY <1>2 DEF WorkerType
<1> HIDE DEF r
<1>4. WorkerSound(r)
  BY <1>2, <1>3 DEF WorkerSound
<1> QED
  BY <1>1, <1>3, <1>4 DEF Moves

\* The number of mishaps stays within its bound.
LEMMA MishapsTyped ==
  ASSUME mishaps \in 0..MaxMishaps, Mishap \/ UNCHANGED mishaps
  PROVE  mishaps' \in 0..MaxMishaps
BY UpdateAssumption DEF Mishap

\* The end of an update that failed, and the way back.
LEMMA FailureMoves ==
  ASSUME Sound, NEW w \in Workers, worker[w].pc \in Locked, EndsFailed(w)
  PROVE  Moves(w) /\ StatusTyped' /\ status'.state = "failed"
<1> DEFINE v == IF worker[w].target = None THEN 0 ELSE worker[w].target.version
<1>1. v \in 0..MaxVersion
  BY WorkerFields, UpdateAssumption DEF Versions
<1>2. Reports("failed", v) /\ To(w, "release")
  BY DEF EndsFailed, Ends
<1> HIDE DEF v
<1>3. worker[w].pc # "rest"
  BY DEF Locked
<1>4. Moves(w)
  BY <1>2, <1>3, MovesTo DEF Locked, Working
<1> QED
  BY <1>1, <1>2, <1>4 DEF Reports, StatusTyped, States

LEMMA BackMoves ==
  ASSUME Sound, NEW w \in Workers, worker[w].pc \in Working, GoesBack(w)
  PROVE  /\ Moves(w)
         /\ StatusTyped'
         /\ status'.state \in {"failed", "rolling_back"}
         /\ worker'[w].pc \in {"rollback", "release"}
<1>0. worker[w].pc \in Locked /\ worker[w].pc # "rest"
  BY DEF Working, Locked
<1>1. CASE HasRollback(w)
  <2>1. To(w, "rollback") /\ Reports("rolling_back", worker[w].target.version)
    BY <1>1 DEF GoesBack
  <2>2. worker[w].target # None /\ worker[w].target.version \in 0..MaxVersion
    BY WorkerFields DEF Versions
  <2>3. Moves(w)
    BY <1>0, <2>1, <2>2, MovesTo DEF Locked
  <2> QED
    BY <2>1, <2>2, <2>3 DEF Reports, StatusTyped, States, To, Sound
<1>2. CASE ~HasRollback(w)
  <2>1. EndsFailed(w)
    BY <1>2 DEF GoesBack
  <2>2. worker'[w].pc = "release"
    BY <2>1 DEF EndsFailed, Ends, To, Sound
  <2> QED
    BY <1>0, <2>1, <2>2, FailureMoves
<1> QED
  BY <1>1, <1>2

\* What every step of a worker behind the lock keeps.
Keeps(w) ==
  /\ Moves(w)
  /\ StatusTyped'
  /\ installed' \in Packages \cup {Broken}
  /\ fresh' \subseteq Workers
  /\ mishaps' \in 0..MaxMishaps
  /\ UNCHANGED <<latest, device, enabled, checker, lock, stolen>>

WorkStep(w) ==
  Resolves(w) \/ Prepares(w) \/ Downloads(w) \/ InstallsTarget(w) \/ VerifiesTarget(w)
  \/ RollsBack(w) \/ VerifiesOld(w)

LEMMA ResolvesKeeps ==
  ASSUME Sound, NEW w \in Workers, Resolves(w)
  PROVE  Keeps(w)
<1>1. /\ worker[w].pc = "checking"
      /\ UNCHANGED <<installed, latest, device, enabled, checker, lock, fresh, stolen>>
  BY DEF Resolves, At
<1>2. worker[w].pc \in Locked /\ worker[w].pc # "rest"
  BY <1>1 DEF Locked
<1>3. mishaps' \in 0..MaxMishaps
  <2>1. Mishap \/ UNCHANGED mishaps
    BY DEF Resolves, Failing
  <2> QED
    BY <2>1, MishapsTyped DEF Sound, RestTyped
<1>4. Moves(w) /\ StatusTyped'
  <2>1. CASE EndsFailed(w)
    BY <1>2, <2>1, FailureMoves
  <2>2. CASE Ends(w, "up_to_date", latest)
    <3>1. Reports("up_to_date", latest) /\ To(w, "release")
      BY <2>2 DEF Ends
    <3>2. latest \in 0..MaxVersion
      BY DEF Sound, RestTyped, Versions
    <3>3. Moves(w)
      BY <1>2, <3>1, MovesTo DEF Locked, Working
    <3> QED
      BY <3>1, <3>2, <3>3 DEF Reports, StatusTyped, States
  <2>3. ASSUME Selectable, Available(worker[w].cur), UNCHANGED status,
               worker' = [worker EXCEPT ![w].pc = "prepare",
                            ![w].target = [version |-> latest, arch |-> Selected.arch]]
        PROVE  Moves(w) /\ StatusTyped'
    <3> DEFINE target == [version |-> latest, arch |-> Selected.arch]
               r == [worker[w] EXCEPT !.pc = "prepare", !.target = target]
    <3>1. worker' = [worker EXCEPT ![w] = r]
      BY <2>3 DEF Sound
    <3>2. target \in Packages /\ target # None /\ target.version > worker[w].cur
      <4>1. archs \in Devices /\ latest \in Versions
        BY DEF Sound, RestTyped
      <4>2. target \in Packages
        BY <2>3, <4>1, SelectionCorrect DEF Packages
      <4> QED
        BY <2>3, <4>2, NoneIsNothing DEF Available
    <3>3. /\ r \in WorkerType
          /\ r.pc = "prepare" /\ r.cur = worker[w].cur /\ r.target = target
      BY <3>2, WorkerFields DEF WorkerType, Locked
    <3>4. target.arch = Selected.arch
      OBVIOUS
    <3>5. worker[w].cur \in Versions
      BY <1>2, WorkerFields
    <3> HIDE DEF target, r
    <3>6. WorkerSound(r)
      BY <2>3, <3>2, <3>3, <3>4, <3>5 DEF WorkerSound
    <3>7. Moves(w)
      BY <3>1, <3>3, <3>6 DEF Moves, Locked
    <3> QED
      BY <2>3, <3>7 DEF Sound, RestTyped, StatusTyped
  <2> QED
    BY <2>1, <2>2, <2>3 DEF Resolves
<1> QED
  BY <1>1, <1>3, <1>4 DEF Keeps, Sound, RestTyped

LEMMA PreparesKeeps ==
  ASSUME Sound, NEW w \in Workers, Prepares(w)
  PROVE  Keeps(w)
<1>1. /\ worker[w].pc = "prepare"
      /\ UNCHANGED <<installed, latest, device, enabled, checker, lock, fresh, stolen>>
  BY DEF Prepares, At
<1>2. /\ worker[w].pc \in Locked /\ worker[w].pc # "rest"
      /\ worker[w].target # None
      /\ worker[w].target.version \in 0..MaxVersion
  BY <1>1, WorkerFields DEF Locked, Working, Versions
<1>3. mishaps' \in 0..MaxMishaps
  <2>1. Mishap \/ UNCHANGED mishaps
    BY DEF Prepares, Failing
  <2> QED
    BY <2>1, MishapsTyped DEF Sound, RestTyped
<1>4. Moves(w) /\ StatusTyped'
  <2>1. CASE To(w, "release") /\ UNCHANGED status
    <3>1. Moves(w)
      BY <1>2, <2>1, MovesTo DEF Locked, Working
    <3> QED
      BY <2>1, <3>1 DEF Sound, RestTyped, StatusTyped
  <2>2. CASE EndsFailed(w)
    BY <1>2, <2>2, FailureMoves
  <2>3. ASSUME worker' = [worker EXCEPT ![w].pc = "download", ![w].looks = enabled],
               Reports("downloading", worker[w].target.version)
        PROVE  Moves(w) /\ StatusTyped'
    <3> DEFINE r == [worker[w] EXCEPT !.pc = "download", !.looks = enabled]
    <3>1. worker' = [worker EXCEPT ![w] = r]
      BY <2>3 DEF Sound
    <3>2. worker[w] \in WorkerType /\ WorkerSound(worker[w]) /\ enabled \in BOOLEAN
      BY WorkerFields DEF Sound, RestTyped
    <3>3. /\ r \in WorkerType
          /\ r.pc = "download" /\ r.cur = worker[w].cur /\ r.target = worker[w].target
      BY <3>2 DEF WorkerType, Locked
    <3> HIDE DEF r
    <3>4. WorkerSound(r)
      BY <1>2, <3>2, <3>3 DEF WorkerSound
    <3>5. Moves(w)
      BY <3>1, <3>3, <3>4 DEF Moves, Locked
    <3> QED
      BY <1>2, <2>3, <3>5 DEF Reports, StatusTyped, States
  <2> QED
    BY <2>1, <2>2, <2>3 DEF Prepares
<1> QED
  BY <1>1, <1>3, <1>4 DEF Keeps, Sound, RestTyped

LEMMA DownloadsKeeps ==
  ASSUME Sound, NEW w \in Workers, Downloads(w)
  PROVE  Keeps(w)
<1>1. /\ worker[w].pc = "download"
      /\ UNCHANGED <<installed, latest, device, enabled, checker, lock, stolen>>
      /\ fresh' = fresh \/ fresh' = fresh \ {w}
      /\ Mishap \/ UNCHANGED mishaps
  BY DEF Downloads, At, Failing
<1>2. /\ worker[w].pc \in Locked /\ worker[w].pc # "rest"
      /\ worker[w].target # None
      /\ worker[w].target.version \in 0..MaxVersion
  BY <1>1, WorkerFields DEF Locked, Working, Versions
<1>3. mishaps' \in 0..MaxMishaps
  BY <1>1, MishapsTyped DEF Sound, RestTyped
<1>4. Moves(w) /\ StatusTyped'
  <2>1. CASE EndsFailed(w)
    BY <1>2, <2>1, FailureMoves
  <2>2. CASE To(w, "install") /\ Reports("installing", worker[w].target.version)
    <3>1. Moves(w)
      BY <1>2, <2>2, MovesTo DEF Locked
    <3> QED
      BY <1>2, <2>2, <3>1 DEF Reports, StatusTyped, States
  <2> QED
    BY <2>1, <2>2 DEF Downloads
<1> QED
  BY <1>1, <1>3, <1>4 DEF Keeps, Sound, RestTyped

\* The package before the update is one.
LEMMA OldIsPackage ==
  ASSUME Sound, NEW w \in Workers, worker[w].pc # "rest"
  PROVE  Old(w) \in Packages
<1>1. worker[w].cur \in Versions
  BY WorkerFields
<1>2. Selected.arch \in Archs \cup {None}
  BY SelectionCorrect DEF Sound, RestTyped
<1> QED
  BY <1>1, <1>2 DEF Old, Packages

\* An installation leaves a package, or what was there, or breaks it.
LEMMA InstallTyped ==
  ASSUME Sound, NEW p \in Packages, Installs(p)
  PROVE  installed' \in Packages \cup {Broken} /\ fresh' \subseteq Workers
BY DEF Installs, Sound, RestTyped

\* What an interrupted package manager leaves behind is typed too.
LEMMA RemainsTyped ==
  ASSUME Sound, NEW w \in Workers, NEW o \in Interrupted(w) \cup {Untouched}
  PROVE  o.installed \in Packages \cup {Broken} /\ o.fresh \subseteq Workers
<1>1. Untouched.installed = installed /\ Untouched.fresh = fresh
  BY DEF Untouched
<1>2. installed \in Packages \cup {Broken} /\ fresh \subseteq Workers
  BY DEF Sound, RestTyped
<1>3. ASSUME NEW p \in Packages, o \in Remains(p)
      PROVE  o.installed \in Packages \cup {Broken} /\ o.fresh \subseteq Workers
  BY <1>1, <1>2, <1>3 DEF Remains
<1>4. CASE At(w, "install")
  <2>1. worker[w].target \in Packages /\ ~At(w, "rollback")
    BY <1>4, WorkerFields DEF At, Working, Locked
  <2> QED
    BY <1>1, <1>2, <1>3, <1>4, <2>1 DEF Interrupted
<1>5. CASE At(w, "rollback")
  <2>1. Old(w) \in Packages /\ ~At(w, "install")
    BY <1>5, OldIsPackage DEF At
  <2> QED
    BY <1>1, <1>2, <1>3, <1>5, <2>1 DEF Interrupted
<1>6. CASE ~At(w, "install") /\ ~At(w, "rollback")
  BY <1>1, <1>2, <1>6 DEF Interrupted
<1> QED
  BY <1>4, <1>5, <1>6

LEMMA FailureTyped ==
  ASSUME Sound, NEW w \in Workers, NEW reset, InstallFails(w, reset)
  PROVE  installed' \in Packages \cup {Broken} /\ fresh' \subseteq Workers
<1>1. PICK o \in Interrupted(w) \cup {Untouched} :
        installed' = o.installed /\ fresh' = o.fresh \ reset
  BY DEF InstallFails
<1> QED
  BY <1>1, RemainsTyped

LEMMA InstallsKeeps ==
  ASSUME Sound, NEW w \in Workers, InstallsTarget(w)
  PROVE  Keeps(w)
<1>1. /\ worker[w].pc = "install"
      /\ UNCHANGED <<latest, device, enabled, checker, lock, stolen>>
      /\ Mishap \/ UNCHANGED mishaps
  BY DEF InstallsTarget, InstallFails, At, Failing
<1>2. /\ worker[w].pc \in Locked /\ worker[w].pc \in Working /\ worker[w].pc # "rest"
      /\ worker[w].target \in Packages
  BY <1>1, WorkerFields DEF Locked, Working
<1>3. mishaps' \in 0..MaxMishaps
  BY <1>1, MishapsTyped DEF Sound, RestTyped
<1>4. installed' \in Packages \cup {Broken} /\ fresh' \subseteq Workers
  BY <1>2, InstallTyped, FailureTyped DEF InstallsTarget
<1>5. Moves(w) /\ StatusTyped'
  <2>1. CASE GoesBack(w)
    BY <1>2, <2>1, BackMoves
  <2>2. CASE To(w, "verify") /\ UNCHANGED status
    <3>1. Moves(w)
      BY <1>2, <2>2, MovesTo, NoneIsNothing DEF Locked
    <3> QED
      BY <2>2, <3>1 DEF Sound, RestTyped, StatusTyped
  <2> QED
    BY <2>1, <2>2 DEF InstallsTarget
<1> QED
  BY <1>1, <1>3, <1>4, <1>5 DEF Keeps

LEMMA VerifiesKeeps ==
  ASSUME Sound, NEW w \in Workers, VerifiesTarget(w)
  PROVE  Keeps(w)
<1>1. /\ worker[w].pc = "verify"
      /\ UNCHANGED <<installed, latest, device, enabled, checker, lock, stolen>>
      /\ fresh' = fresh \/ fresh' = fresh \ {w}
      /\ Mishap \/ UNCHANGED mishaps
  BY DEF VerifiesTarget, At
<1>2. /\ worker[w].pc \in Locked /\ worker[w].pc \in Working /\ worker[w].pc # "rest"
      /\ worker[w].target.version \in 0..MaxVersion
  BY <1>1, WorkerFields DEF Locked, Working, Versions
<1>3. mishaps' \in 0..MaxMishaps
  BY <1>1, MishapsTyped DEF Sound, RestTyped
<1>4. Moves(w) /\ StatusTyped'
  <2>1. CASE Ends(w, "completed", worker[w].target.version)
    <3>1. Reports("completed", worker[w].target.version) /\ To(w, "release")
      BY <2>1 DEF Ends
    <3>2. Moves(w)
      BY <1>2, <3>1, MovesTo DEF Locked, Working
    <3> QED
      BY <1>2, <3>1, <3>2 DEF Reports, StatusTyped, States
  <2>2. CASE GoesBack(w)
    BY <1>2, <2>2, BackMoves
  <2> QED
    BY <2>1, <2>2 DEF VerifiesTarget
<1> QED
  BY <1>1, <1>3, <1>4 DEF Keeps, Sound, RestTyped

LEMMA RollsBackKeeps ==
  ASSUME Sound, NEW w \in Workers, RollsBack(w)
  PROVE  Keeps(w)
<1>1. /\ worker[w].pc = "rollback"
      /\ UNCHANGED <<latest, device, enabled, checker, lock, stolen>>
      /\ Mishap \/ UNCHANGED mishaps
  BY DEF RollsBack, InstallFails, At, Failing
<1>2. /\ worker[w].pc \in Locked /\ worker[w].pc # "rest"
      /\ worker[w].target # None
      /\ Old(w) \in Packages
  BY <1>1, WorkerFields, OldIsPackage DEF Locked, Working
<1>3. mishaps' \in 0..MaxMishaps
  BY <1>1, MishapsTyped DEF Sound, RestTyped
<1>4. installed' \in Packages \cup {Broken} /\ fresh' \subseteq Workers
  BY <1>2, InstallTyped, FailureTyped DEF RollsBack
<1>5. Moves(w) /\ StatusTyped'
  <2>1. CASE EndsFailed(w)
    BY <1>2, <2>1, FailureMoves
  <2>2. CASE To(w, "verify_old") /\ UNCHANGED status
    <3>1. Moves(w)
      BY <1>2, <2>2, MovesTo DEF Locked
    <3> QED
      BY <2>2, <3>1 DEF Sound, RestTyped, StatusTyped
  <2> QED
    BY <2>1, <2>2 DEF RollsBack
<1> QED
  BY <1>1, <1>3, <1>4, <1>5 DEF Keeps

LEMMA VerifiesOldKeeps ==
  ASSUME Sound, NEW w \in Workers, VerifiesOld(w)
  PROVE  Keeps(w)
<1>1. /\ worker[w].pc = "verify_old"
      /\ UNCHANGED <<installed, latest, device, enabled, checker, lock, fresh, stolen>>
      /\ Mishap \/ UNCHANGED mishaps
  BY DEF VerifiesOld, At
<1>2. /\ worker[w].pc \in Locked /\ worker[w].pc # "rest"
      /\ worker[w].cur \in 0..MaxVersion
  BY <1>1, WorkerFields DEF Locked
<1>3. mishaps' \in 0..MaxMishaps
  BY <1>1, MishapsTyped DEF Sound, RestTyped
<1>4. Moves(w) /\ StatusTyped'
  <2>1. CASE Ends(w, "rolled_back", worker[w].cur)
    <3>1. Reports("rolled_back", worker[w].cur) /\ To(w, "release")
      BY <2>1 DEF Ends
    <3>2. Moves(w)
      BY <1>2, <3>1, MovesTo DEF Locked, Working
    <3> QED
      BY <1>2, <3>1, <3>2 DEF Reports, StatusTyped, States
  <2>2. CASE EndsFailed(w)
    BY <1>2, <2>2, FailureMoves
  <2> QED
    BY <2>1, <2>2 DEF VerifiesOld
<1> QED
  BY <1>1, <1>3, <1>4 DEF Keeps, Sound, RestTyped

LEMMA WorkKeeps ==
  ASSUME Sound, NEW w \in Workers, WorkStep(w)
  PROVE  Keeps(w) /\ worker[w].pc \in Locked \ {"release"}
<1>1. worker[w].pc \in Locked \ {"release"}
  BY DEF WorkStep, Resolves, Prepares, Downloads, InstallsTarget, VerifiesTarget,
         RollsBack, VerifiesOld, At, Locked
<1> QED
  BY <1>1, ResolvesKeeps, PreparesKeeps, DownloadsKeeps, InstallsKeeps, VerifiesKeeps,
     RollsBackKeeps, VerifiesOldKeeps DEF WorkStep

LEMMA SoundWork ==
  ASSUME Sound, NEW w \in Workers, WorkStep(w)
  PROVE  Sound'
<1>1. Keeps(w)
  BY WorkKeeps
<1>2. RestTyped'
  BY <1>1 DEF Keeps, device, StatusTyped, Sound, RestTyped
<1>3. PICK r : WorkerSound(r) /\ worker' = [worker EXCEPT ![w] = r]
  BY <1>1 DEF Keeps, Moves
<1>4. archs' = archs
  BY <1>1 DEF Keeps, device
<1> QED
  BY <1>2, <1>3, <1>4, OneMoves

\* No worker moves, or all of them end.
LEMMA NoneMoves ==
  ASSUME Sound, archs' = archs, RestTyped',
         worker' = worker \/ worker' = [w \in Workers |-> Resting]
  PROVE  Sound'
<1>1. \A s : WorkerSound(s)' <=> WorkerSound(s)
  BY SelectionSame DEF WorkerSound, Selectable
<1>2. worker' \in [Workers -> WorkerType] /\ \A v \in Workers : WorkerSound(worker'[v])
  <2>1. \A v \in Workers : worker'[v] = worker[v] \/ worker'[v] = Resting
    OBVIOUS
  <2>2. worker' \in [Workers -> WorkerType]
    BY RestingSound DEF Sound, WorkerSound
  <2> QED
    BY <2>1, <2>2, RestingSound DEF Sound
<1>3. ASSUME NEW v \in Workers
      PROVE  WorkerSound(worker[v])'
  <2>1. PICK s : s = worker'[v]
    OBVIOUS
  <2>2. WorkerSound(s)'
    BY <1>1, <1>2, <2>1
  <2> QED
    BY <2>1, <2>2 DEF WorkerSound
<1> QED
  BY <1>2, <1>3 DEF Sound

LEMMA SoundLock ==
  ASSUME Sound, NEW w \in Workers,
         Starts(w) \/ Acquires(w) \/ FindsLock(w) \/ RemovesLock(w) \/ Releases(w)
  PROVE  Sound'
<1>1. archs' = archs
  BY DEF Starts, Acquires, FindsLock, RemovesLock, Releases, device
<1>2. stolen' \in BOOLEAN
  BY DEF Starts, Acquires, FindsLock, RemovesLock, Releases, Sound, RestTyped
<1>3. RestTyped'
  <2>1. lock' \in [by : Workers \cup {None}, old : BOOLEAN] \cup {None}
    <3>1. [by |-> w, old |-> FALSE] \in [by : Workers \cup {None}, old : BOOLEAN]
      OBVIOUS
    <3>2. lock' \in {lock, None, [by |-> w, old |-> FALSE]}
      BY DEF Starts, Acquires, FindsLock, RemovesLock, Releases
    <3> QED
      BY <3>1, <3>2 DEF Sound, RestTyped
  <2>2. status' \in [state : States, version : 0..MaxVersion]
    <3>1. 0 \in 0..MaxVersion
      BY UpdateAssumption
    <3> QED
      BY <3>1 DEF Starts, Acquires, FindsLock, RemovesLock, Releases, Reports, States,
                  Sound, RestTyped
  <2>3. UNCHANGED <<installed, latest, device, enabled, checker, fresh, mishaps>>
    BY DEF Starts, Acquires, FindsLock, RemovesLock, Releases
  <2> QED
    BY <1>2, <2>1, <2>2, <2>3 DEF device, Sound, RestTyped
<1>4. CASE Starts(w)
  <2> DEFINE r == [Resting EXCEPT !.pc = "open", !.attempt = 1, !.cur = installed.version]
  <2>1. installed \in Packages
    BY <1>4 DEF Starts, Sound, RestTyped
  <2>2. WorkerSound(r)
    <3>1. installed.version \in Versions
      BY <2>1 DEF Packages
    <3>2. Resting \in WorkerType /\ 1 \in 0..2 /\ installed.version \in 0..MaxVersion
      BY <3>1, RestingSound DEF WorkerSound, Versions
    <3>3. r \in WorkerType /\ r.pc = "open" /\ r.cur = installed.version
          /\ r.target = Resting.target
      BY <3>2 DEF WorkerType, Locked
    <3>4. Resting.target = None
      BY DEF Resting
    <3> QED
      BY <3>1, <3>3, <3>4 DEF WorkerSound, Working, Locked
  <2>3. worker' = [worker EXCEPT ![w] = r]
    BY <1>4 DEF Starts
  <2> HIDE DEF r
  <2> QED
    BY <1>1, <1>3, <2>2, <2>3, OneMoves
<1>5. ASSUME NEW pc \in {"remove", "checking"}, To(w, pc), worker[w].pc = "open"
      PROVE  Sound'
  <2> DEFINE r == [worker[w] EXCEPT !.pc = pc]
  <2>1. worker' = [worker EXCEPT ![w] = r]
    BY <1>5 DEF To
  <2>2. worker[w] \in WorkerType /\ WorkerSound(worker[w])
    BY WorkerFields
  <2>3. /\ r \in WorkerType
        /\ r.pc = pc /\ r.cur = worker[w].cur /\ r.target = worker[w].target
    BY <2>2 DEF WorkerType, Locked
  <2> HIDE DEF r
  <2>4. WorkerSound(r)
    BY <1>5, <2>2, <2>3 DEF WorkerSound, Working, Locked
  <2> QED
    BY <1>1, <1>3, <2>1, <2>4, OneMoves
<1>6. ASSUME worker' = [worker EXCEPT ![w] = Resting]
      PROVE  Sound'
  BY <1>1, <1>3, <1>6, RestingSound, OneMoves
<1>7. CASE Acquires(w)
  BY <1>5, <1>7 DEF Acquires, At
<1>8. CASE FindsLock(w)
  BY <1>5, <1>6, <1>8 DEF FindsLock, At
<1>9. CASE RemovesLock(w)
  <2>1. CASE worker[w].attempt = 2
    BY <1>6, <1>9, <2>1 DEF RemovesLock
  <2>2. CASE worker[w].attempt # 2
    <3> DEFINE r == [worker[w] EXCEPT !.pc = "open", !.attempt = 2]
    <3>1. worker' = [worker EXCEPT ![w] = r]
      BY <1>9, <2>2 DEF RemovesLock, Sound
    <3>2. /\ worker[w] \in WorkerType /\ WorkerSound(worker[w])
          /\ worker[w].pc = "remove"
          /\ 2 \in 0..2
      BY <1>9, WorkerFields DEF RemovesLock, At
    <3>3. /\ r \in WorkerType
          /\ r.pc = "open" /\ r.cur = worker[w].cur /\ r.target = worker[w].target
      BY <3>2 DEF WorkerType, Locked
    <3> HIDE DEF r
    <3>4. WorkerSound(r)
      BY <3>2, <3>3 DEF WorkerSound, Working, Locked
    <3> QED
      BY <1>1, <1>3, <3>1, <3>4, OneMoves
  <2> QED
    BY <2>1, <2>2
<1>10. CASE Releases(w)
  BY <1>6, <1>10 DEF Releases
<1> QED
  BY <1>4, <1>7, <1>8, <1>9, <1>10

LEMMA SoundCheck ==
  ASSUME Sound, CheckBegins \/ CheckEnds
  PROVE  Sound'
<1>1. mishaps' \in 0..MaxMishaps
  <2>1. Mishap \/ UNCHANGED mishaps
    BY DEF CheckBegins, CheckEnds
  <2> QED
    BY <2>1, MishapsTyped DEF Sound, RestTyped
<1>2. status' \in [state : States, version : 0..MaxVersion]
  <2>1. 0 \in 0..MaxVersion /\ latest \in 0..MaxVersion
    BY UpdateAssumption DEF Sound, RestTyped, Versions
  <2> QED
    BY <2>1 DEF CheckBegins, CheckEnds, Reports, States
<1>3. checker' \in Versions \cup {None}
  BY DEF CheckBegins, CheckEnds, Sound, RestTyped, Packages
<1>4. UNCHANGED <<installed, latest, device, enabled, worker, lock, fresh, stolen>>
  BY DEF CheckBegins, CheckEnds
<1>5. RestTyped'
  BY <1>1, <1>2, <1>3, <1>4 DEF device, Sound, RestTyped
<1> QED
  BY <1>4, <1>5, NoneMoves DEF device

LEMMA SoundWorld ==
  ASSUME Sound, NewRelease \/ Ages \/ Reboot \/ Toggles
  PROVE  Sound'
<1>1. mishaps' \in 0..MaxMishaps
  <2>1. Mishap \/ UNCHANGED mishaps
    BY DEF NewRelease, Ages, Reboot, Toggles
  <2> QED
    BY <2>1, MishapsTyped DEF Sound, RestTyped
<1>2. status' \in [state : States, version : 0..MaxVersion]
  <2>1. 0 \in 0..MaxVersion
    BY UpdateAssumption
  <2> QED
    BY <2>1 DEF NewRelease, Ages, Reboot, Toggles, Reports, States, Sound, RestTyped
<1>3. latest' \in Versions
  BY UpdateAssumption DEF NewRelease, Ages, Reboot, Toggles, Versions, Sound, RestTyped
<1>4. enabled' \in BOOLEAN
  BY DEF NewRelease, Ages, Reboot, Toggles, Sound, RestTyped
<1>5. lock' \in [by : Workers \cup {None}, old : BOOLEAN] \cup {None}
  BY DEF NewRelease, Ages, Reboot, Toggles, Sound, RestTyped
<1>6. installed' \in Packages \cup {Broken}
  BY DEF NewRelease, Ages, Reboot, Toggles, Sound, RestTyped
<1>7. fresh' \subseteq Workers /\ checker' \in Versions \cup {None}
  BY DEF NewRelease, Ages, Reboot, Toggles, Sound, RestTyped
<1>8. UNCHANGED <<device, stolen>>
  BY DEF NewRelease, Ages, Reboot, Toggles
<1>9. RestTyped'
  BY <1>1, <1>2, <1>3, <1>4, <1>5, <1>6, <1>7, <1>8 DEF device, Sound, RestTyped
<1>10. worker' = worker \/ worker' = [w \in Workers |-> Resting]
  BY DEF NewRelease, Ages, Reboot, Toggles
<1> QED
  BY <1>8, <1>9, <1>10, NoneMoves DEF device

LEMMA SoundSignals ==
  ASSUME Sound, NEW w \in Workers, Terminated(w) \/ Killed(w)
  PROVE  Sound'
<1>1. mishaps' \in 0..MaxMishaps
  BY MishapsTyped DEF Terminated, Killed, Sound, RestTyped
<1>2. worker[w] \in WorkerType /\ WorkerSound(worker[w])
  BY WorkerFields
<1>3. CASE Terminated(w)
  <2> DEFINE r == [worker[w] EXCEPT !.cancelled = TRUE]
  <2>1. worker' = [worker EXCEPT ![w] = r]
    BY <1>3 DEF Terminated
  <2>2. /\ r \in WorkerType
        /\ r.pc = worker[w].pc /\ r.cur = worker[w].cur /\ r.target = worker[w].target
    BY <1>2 DEF WorkerType
  <2> HIDE DEF r
  <2>3. WorkerSound(r)
    BY <1>2, <2>2 DEF WorkerSound
  <2>4. installed' \in Packages \cup {Broken} /\ fresh' \subseteq Workers
    BY <1>3, RemainsTyped DEF Terminated
  <2>5. UNCHANGED <<latest, device, enabled, checker, lock, status, stolen>>
    BY <1>3 DEF Terminated
  <2>6. RestTyped' /\ archs' = archs
    BY <1>1, <2>4, <2>5 DEF device, Sound, RestTyped
  <2> QED
    BY <2>1, <2>3, <2>6, OneMoves
<1>4. CASE Killed(w)
  <2>1. worker[w].pc # "rest"
    BY <1>4 DEF Killed, Alive
  <2>2. At(w, "install") => worker[w].target \in Packages
    BY WorkerFields DEF At, Working, Locked
  <2>3. installed' \in Packages \cup {Broken} /\ fresh' \subseteq Workers
    BY <1>4, <2>1, <2>2, OldIsPackage DEF Killed, Installs, Sound, RestTyped
  <2>4. lock' \in [by : Workers \cup {None}, old : BOOLEAN] \cup {None}
    BY <1>4 DEF Killed, Sound, RestTyped
  <2>5. UNCHANGED <<latest, device, enabled, checker, status, stolen>>
    BY <1>4 DEF Killed
  <2>6. RestTyped' /\ archs' = archs
    BY <1>1, <2>3, <2>4, <2>5 DEF device, Sound, RestTyped
  <2>7. worker' = [worker EXCEPT ![w] = Resting]
    BY <1>4 DEF Killed
  <2> QED
    BY <2>6, <2>7, RestingSound, OneMoves
<1> QED
  BY <1>3, <1>4

LEMMA SoundStep == Sound /\ [Next]_vars => Sound'
<1> SUFFICES ASSUME Sound, [Next]_vars PROVE Sound'
  OBVIOUS
<1>1. ASSUME NEW w \in Workers, Starts(w) \/ WorkerStep(w) \/ Terminated(w) \/ Killed(w)
      PROVE  Sound'
  BY <1>1, SoundLock, SoundWork, SoundSignals DEF WorkerStep, WorkStep
<1>2. CASE UNCHANGED vars
  BY <1>2, NoneMoves DEF vars, device, Sound, RestTyped
<1> QED
  BY <1>1, <1>2, SoundCheck, SoundWorld DEF Next

----------------------------------------------------------------------------
(* The lock *)

\* A lock that was never stolen belongs to the worker behind it.
LEMMA OwnedStep == Sound /\ Owned /\ [Next]_vars => Owned'
<1> SUFFICES ASSUME Sound, Owned, [Next]_vars, ~stolen' PROVE Owned'
  BY DEF Owned
<1>1. worker \in [Workers -> WorkerType] /\ None \notin Workers
  BY NoneIsNothing DEF Sound
<1>2. ASSUME NEW w \in Workers, WorkStep(w)
      PROVE  Owned'
  <2>1. Keeps(w) /\ worker[w].pc \in Locked
    BY <1>2, WorkKeeps
  <2>2. PICK r : worker' = [worker EXCEPT ![w] = r]
    BY <2>1 DEF Keeps, Moves
  <2>3. \A v \in Workers : v # w => worker'[v] = worker[v]
    BY <1>1, <2>2
  <2>4. lock' = lock /\ stolen' = stolen
    BY <2>1 DEF Keeps
  <2> QED
    BY <2>1, <2>3, <2>4 DEF Owned
<1>3. ASSUME NEW w \in Workers, Acquires(w)
      PROVE  Owned'
  <2>1. lock = None /\ lock' = [by |-> w, old |-> FALSE] /\ stolen' = stolen
    BY <1>3 DEF Acquires, Creates
  <2>2. \A v \in Workers : v # w => worker'[v] = worker[v]
    BY <1>1, <1>3 DEF Acquires, To
  <2>3. lock' # None /\ lock'.by = w
    <3>1. lock' \in [by : Workers, old : BOOLEAN]
      <4>1. [by |-> w, old |-> FALSE] \in [by : Workers, old : BOOLEAN]
        OBVIOUS
      <4> QED
        BY <2>1, <4>1
    <3> QED
      BY <2>1, <3>1, NoneIsNothing
  <2> QED
    BY <2>1, <2>2, <2>3 DEF Owned
<1>4. ASSUME NEW w \in Workers, worker'[w].pc \notin Locked,
             \A v \in Workers : v # w => worker'[v] = worker[v],
             ~stolen,
             \/ lock' = lock
             \/ \A v \in Workers : v # w => worker[v].pc \notin Locked
      PROVE  Owned'
  BY <1>4 DEF Owned
<1>5. ASSUME NEW w \in Workers, Starts(w) \/ FindsLock(w)
      PROVE  Owned'
  <2>1. worker'[w].pc \notin Locked
    <3> DEFINE r == [Resting EXCEPT !.pc = "open", !.attempt = 1, !.cur = installed.version]
    <3>1. Resting.pc = "rest" /\ r.pc = "open" /\ worker[w] \in WorkerType
      BY <1>1 DEF Resting
    <3> HIDE DEF r
    <3>2. worker'[w] \in {r, Resting, [worker[w] EXCEPT !.pc = "remove"]}
      BY <1>1, <1>5 DEF Starts, FindsLock, To, r
    <3>3. worker'[w].pc \in {"rest", "open", "remove"}
      BY <3>1, <3>2 DEF WorkerType
    <3> QED
      BY <3>3 DEF Locked
  <2>2. \A v \in Workers : v # w => worker'[v] = worker[v]
    BY <1>1, <1>5 DEF Starts, FindsLock, To
  <2>3. lock' = lock /\ stolen' = stolen
    BY <1>5 DEF Starts, FindsLock
  <2> QED
    BY <1>4, <2>1, <2>2, <2>3
<1>6. ASSUME NEW w \in Workers, RemovesLock(w) \/ Releases(w)
      PROVE  Owned'
  <2>1. worker'[w].pc \notin Locked
    <3>1. Resting.pc = "rest" /\ worker[w] \in WorkerType
      BY <1>1 DEF Resting
    <3>2. worker'[w] = Resting \/ worker'[w] = [worker[w] EXCEPT !.pc = "open", !.attempt = 2]
      BY <1>1, <1>6 DEF RemovesLock, Releases
    <3>3. worker'[w].pc \in {"rest", "open"}
      BY <3>1, <3>2 DEF WorkerType
    <3> QED
      BY <3>3 DEF Locked
  <2>2. \A v \in Workers : v # w => worker'[v] = worker[v]
    BY <1>1, <1>6 DEF RemovesLock, Releases
  <2>3. ~stolen /\ (lock = None \/ lock.by = None \/ lock.by = w)
    BY <1>6 DEF RemovesLock, Releases
  <2>4. \A v \in Workers : v # w => worker[v].pc \notin Locked
    BY <1>1, <2>3 DEF Owned
  <2> QED
    BY <1>4, <2>1, <2>2, <2>3, <2>4
<1>7. ASSUME NEW w \in Workers, Terminated(w)
      PROVE  Owned'
  <2>1. \A v \in Workers : worker'[v].pc = worker[v].pc
    BY <1>1, <1>7 DEF Terminated, WorkerType
  <2> QED
    BY <1>7, <2>1 DEF Terminated, Owned
<1>8. ASSUME NEW w \in Workers, Killed(w)
      PROVE  Owned'
  <2>1. worker'[w].pc \notin Locked /\ \A v \in Workers : v # w => worker'[v] = worker[v]
    BY <1>1, <1>8 DEF Killed, Resting, Locked
  <2>2. ~stolen
    BY <1>8 DEF Killed
  <2>3. lock' = lock \/ (lock # None /\ lock.by = w)
    BY <1>8 DEF Killed
  <2>4. lock' = lock \/ \A v \in Workers : v # w => worker[v].pc \notin Locked
    BY <2>2, <2>3 DEF Owned
  <2> QED
    BY <1>4, <2>1, <2>2, <2>4
<1>9. CASE CheckBegins \/ CheckEnds \/ NewRelease \/ Toggles \/ UNCHANGED vars
  BY <1>9 DEF CheckBegins, CheckEnds, NewRelease, Toggles, vars, Owned
<1>10. CASE Ages
  <2>1. /\ lock # None /\ lock' = [lock EXCEPT !.old = TRUE]
        /\ lock \in [by : Workers \cup {None}, old : BOOLEAN]
        /\ worker' = worker /\ stolen' = stolen
    BY <1>10 DEF Ages, Sound, RestTyped
  <2>2. lock'.by = lock.by
    BY <2>1
  <2>3. lock.by \in Workers => lock' # None
    <3> SUFFICES ASSUME lock.by \in Workers PROVE lock' # None
      OBVIOUS
    <3> DEFINE L == [by : Workers, old : BOOLEAN]
    <3>1. lock \in L
      BY <2>1
    <3>2. TRUE \in BOOLEAN
      OBVIOUS
    <3>3. \A b \in BOOLEAN : [lock EXCEPT !.old = b] \in L
      BY <3>1
    <3>4. [lock EXCEPT !.old = TRUE] \in L
      BY <3>2, <3>3
    <3> QED
      BY <2>1, <3>4, NoneIsNothing
  <2> QED
    BY <2>1, <2>2, <2>3 DEF Owned
<1>11. CASE Reboot
  BY <1>11 DEF Reboot, Resting, Locked, Owned
<1> QED
  BY <1>2, <1>3, <1>5, <1>6, <1>7, <1>8, <1>9, <1>10, <1>11
  DEF Next, WorkerStep, WorkStep

\* Behind a lock that was not stolen there is one worker.
LEMMA OneBehindLock == Owned => OneInstaller
BY DEF Owned, OneInstaller

----------------------------------------------------------------------------
(* The status *)

\* The selected package is the best one, whatever its version.
LEMMA SelectedIsBest ==
  ASSUME Sound, Selectable, NEW p, p.arch = Selected.arch
  PROVE  Best(p)
<1>1. Best([version |-> 0, arch |-> Selected.arch])
  BY SelectionCorrect DEF Sound, RestTyped
<1> QED
  BY <1>1 DEF Best

\* The status and the installed package are as they were, or nothing is said of an update.
LEMMA TruthStays ==
  ASSUME Sound, Truth, ~stolen, archs' = archs, installed' = installed,
         status' = status \/ status'.state \notin Decided,
         \A w \in Workers : \/ worker'[w].pc \notin Locked
                            \/ /\ worker'[w].pc = worker[w].pc
                               /\ worker'[w].cur = worker[w].cur
                               /\ worker'[w].target = worker[w].target
  PROVE  Truth'
<1>1. Selected' = Selected
  BY SelectionSame
<1>2. Best(installed)' <=> Best(installed)
  BY DEF Best
<1>3. ASSUME NEW w \in Workers
      PROVE  Ready(worker[w])'
  <2>1. CASE worker'[w].pc \notin Locked
    BY <2>1 DEF Ready, Locked
  <2>2. CASE worker'[w].pc \in Locked
    BY <1>1, <2>2 DEF Truth, Ready
  <2> QED
    BY <2>1, <2>2
<1>4. status'.state \in Decided => installed'.version = status'.version /\ Best(installed)'
  BY <1>2 DEF Truth
<1> QED
  BY <1>3, <1>4 DEF Truth

\* One worker is behind the lock and no other.
LEMMA TruthOfOne ==
  ASSUME Sound, archs' = archs, NEW w \in Workers,
         \A v \in Workers : v # w => worker'[v].pc \notin Locked,
         worker'[w].pc = "verify" => installed' = worker'[w].target,
         worker'[w].pc = "verify_old" =>
           installed' = [version |-> worker'[w].cur, arch |-> Selected.arch],
         status'.state \in Decided => /\ worker'[w].pc = "release"
                                      /\ installed'.version = status'.version
                                      /\ Best(installed')
  PROVE  Truth'
<1>1. Selected' = Selected
  BY SelectionSame
<1>2. Best(installed)' <=> Best(installed')
  BY DEF Best
<1>3. ASSUME NEW v \in Workers
      PROVE  Ready(worker[v])'
  <2>1. CASE v = w
    BY <1>1, <2>1 DEF Ready, Locked
  <2>2. CASE v # w
    BY <2>2 DEF Ready, Locked
  <2> QED
    BY <2>1, <2>2
<1> QED
  BY <1>2, <1>3 DEF Truth

\* What the failures of a worker report.
LEMMA FailureUndecided ==
  ASSUME Sound, NEW w \in Workers, worker[w].pc \in Locked,
         EndsFailed(w) \/ (worker[w].pc \in Working /\ GoesBack(w))
  PROVE  /\ status'.state \notin Decided
         /\ worker'[w].pc \in {"rollback", "release"}
<1>1. CASE EndsFailed(w)
  <2>1. status'.state = "failed"
    BY <1>1, FailureMoves
  <2>2. worker'[w].pc = "release"
    BY <1>1 DEF EndsFailed, Ends, To, Sound
  <2> QED
    BY <2>1, <2>2 DEF Decided
<1>2. CASE worker[w].pc \in Working /\ GoesBack(w)
  BY <1>2, BackMoves DEF Decided
<1> QED
  BY <1>1, <1>2

\* A worker behind the lock reports an end of its update only after it has verified
\* what is installed, and verifies only what it has installed.
LEMMA WorkOutcome ==
  ASSUME Sound, Truth, ~stolen, NEW w \in Workers, WorkStep(w)
  PROVE  /\ worker'[w].pc = "verify" => installed' = worker'[w].target
         /\ worker'[w].pc = "verify_old" =>
              installed' = [version |-> worker'[w].cur, arch |-> Selected.arch]
         /\ status'.state \in Decided => /\ worker'[w].pc = "release"
                                         /\ installed'.version = status'.version
                                         /\ Best(installed')
<1> DEFINE Undecided == /\ status'.state \notin Decided
                        /\ worker'[w].pc \notin {"verify", "verify_old"}
<1>1. worker[w].pc \in Locked \ {"release"}
  BY WorkKeeps
<1>2. status.state \notin Decided
  BY <1>1 DEF Truth, Ready
<1>3. ASSUME EndsFailed(w) \/ (worker[w].pc \in Working /\ GoesBack(w))
      PROVE  Undecided
  BY <1>1, <1>3, FailureUndecided
<1>4. CASE Resolves(w)
  <2>1. CASE EndsFailed(w)
    BY <1>3, <2>1
  <2>2. CASE Ends(w, "up_to_date", latest)
    BY <2>2 DEF Ends, Reports, To, Decided, Sound
  <2>3. ASSUME UNCHANGED status,
               worker' = [worker EXCEPT ![w].pc = "prepare",
                            ![w].target = [version |-> latest, arch |-> Selected.arch]]
        PROVE  Undecided
    <3>1. worker[w] \in WorkerType
      BY WorkerFields
    <3>2. worker'[w].pc = "prepare"
      BY <2>3, <3>1 DEF WorkerType, Sound
    <3> QED
      BY <1>2, <2>3, <3>2
  <2> QED
    BY <1>4, <2>1, <2>2, <2>3 DEF Resolves
<1>5. CASE Prepares(w)
  <2>1. CASE To(w, "release") /\ UNCHANGED status
    BY <1>2, <2>1 DEF To, Sound
  <2>2. CASE EndsFailed(w)
    BY <1>3, <2>2
  <2>3. ASSUME worker' = [worker EXCEPT ![w].pc = "download", ![w].looks = enabled],
               Reports("downloading", worker[w].target.version)
        PROVE  Undecided
    <3>1. worker[w] \in WorkerType
      BY WorkerFields
    <3>2. worker'[w].pc = "download"
      BY <2>3, <3>1 DEF WorkerType, Sound
    <3> QED
      BY <2>3, <3>2 DEF Reports, Decided
  <2> QED
    BY <1>5, <2>1, <2>2, <2>3 DEF Prepares
<1>6. CASE Downloads(w)
  <2>1. CASE EndsFailed(w)
    BY <1>3, <2>1
  <2>2. CASE To(w, "install") /\ Reports("installing", worker[w].target.version)
    BY <2>2 DEF To, Reports, Decided, Sound
  <2> QED
    BY <1>6, <2>1, <2>2 DEF Downloads
<1>7. CASE InstallsTarget(w)
  <2>1. worker[w].pc \in Working
    BY <1>7 DEF InstallsTarget, At, Working, Locked
  <2>2. CASE GoesBack(w)
    BY <1>3, <2>1, <2>2
  <2>3. CASE Installs(worker[w].target) /\ To(w, "verify") /\ UNCHANGED status
    <3>1. installed' = worker[w].target
      BY <2>3 DEF Installs
    <3>2. worker'[w].pc = "verify" /\ worker'[w].target = worker[w].target
      BY <2>3 DEF To, Sound
    <3> QED
      BY <1>2, <2>3, <3>1, <3>2
  <2> QED
    BY <1>7, <2>2, <2>3 DEF InstallsTarget
<1>8. CASE VerifiesTarget(w)
  <2>1. worker[w].pc = "verify" /\ worker[w].pc \in Working /\ installed' = installed
    BY <1>8 DEF VerifiesTarget, At, Working, Locked
  <2>2. CASE GoesBack(w)
    BY <1>3, <2>1, <2>2
  <2>3. CASE Ends(w, "completed", worker[w].target.version)
    <3>1. installed = worker[w].target
      BY <2>1 DEF Truth, Ready
    <3>2. worker[w].target.arch = Selected.arch /\ Selectable
      BY <2>1, WorkerFields
    <3>3. Best(installed')
      BY <2>1, <3>1, <3>2, SelectedIsBest
    <3>4. worker'[w].pc = "release" /\ status'.version = worker[w].target.version
      BY <2>3 DEF Ends, To, Reports, Sound
    <3> QED
      BY <2>1, <3>1, <3>3, <3>4
  <2> QED
    BY <1>8, <2>2, <2>3 DEF VerifiesTarget
<1>9. CASE RollsBack(w)
  <2>1. CASE EndsFailed(w)
    BY <1>3, <2>1
  <2>2. CASE Installs(Old(w)) /\ To(w, "verify_old") /\ UNCHANGED status
    <3>1. installed' = Old(w)
      BY <2>2 DEF Installs
    <3>2. worker'[w].pc = "verify_old" /\ worker'[w].cur = worker[w].cur
      BY <2>2 DEF To, Sound
    <3> QED
      BY <1>2, <2>2, <3>1, <3>2 DEF Old
  <2> QED
    BY <1>9, <2>1, <2>2 DEF RollsBack
<1>10. CASE VerifiesOld(w)
  <2>1. worker[w].pc = "verify_old" /\ worker[w].pc \in Working /\ installed' = installed
    BY <1>10 DEF VerifiesOld, At, Working, Locked
  <2>2. CASE EndsFailed(w)
    BY <1>3, <2>2
  <2>3. CASE Ends(w, "rolled_back", worker[w].cur)
    <3>1. installed = [version |-> worker[w].cur, arch |-> Selected.arch]
      BY <2>1 DEF Truth, Ready
    <3>2. Selectable
      BY <2>1, WorkerFields
    <3>3. Best(installed')
      BY <2>1, <3>1, <3>2, SelectedIsBest
    <3>4. worker'[w].pc = "release" /\ status'.version = worker[w].cur
      BY <2>3 DEF Ends, To, Reports, Sound
    <3> QED
      BY <2>1, <3>1, <3>3, <3>4
  <2> QED
    BY <1>10, <2>2, <2>3 DEF VerifiesOld
<1> QED
  BY <1>4, <1>5, <1>6, <1>7, <1>8, <1>9, <1>10 DEF WorkStep

LEMMA TruthStep == Sound /\ Owned /\ Truth /\ [Next]_vars => Truth'
<1> SUFFICES ASSUME Sound, Owned, Truth, [Next]_vars, ~stolen' PROVE Truth'
  BY DEF Truth
<1>1. worker \in [Workers -> WorkerType]
  BY DEF Sound
<1>2. ASSUME NEW w \in Workers, worker[w].pc \in Locked, ~stolen,
             \A v \in Workers : v # w => worker'[v] = worker[v]
      PROVE  \A v \in Workers : v # w => worker'[v].pc \notin Locked
  BY <1>2, OneBehindLock DEF OneInstaller
<1>3. ASSUME NEW w \in Workers, WorkStep(w)
      PROVE  Truth'
  <2>1. Keeps(w) /\ worker[w].pc \in Locked
    BY <1>3, WorkKeeps
  <2>2. ~stolen /\ archs' = archs
    BY <2>1 DEF Keeps, device
  <2>3. \A v \in Workers : v # w => worker'[v] = worker[v]
    BY <1>1, <2>1 DEF Keeps, Moves
  <2>4. \A v \in Workers : v # w => worker'[v].pc \notin Locked
    BY <1>2, <2>1, <2>2, <2>3
  <2> QED
    BY <1>3, <2>2, <2>4, WorkOutcome, TruthOfOne
<1>4. ASSUME NEW w \in Workers, Acquires(w)
      PROVE  Truth'
  <2>1. lock = None /\ ~stolen /\ archs' = archs /\ status'.state = "checking"
    BY <1>4 DEF Acquires, Creates, device, Reports
  <2>2. \A v \in Workers : worker[v].pc \notin Locked
    BY <2>1 DEF Owned
  <2>3. \A v \in Workers : v # w => worker'[v] = worker[v]
    BY <1>1, <1>4 DEF Acquires, To
  <2>4. worker'[w].pc = "checking"
    BY <1>1, <1>4 DEF Acquires, To
  <2> QED
    BY <2>1, <2>2, <2>3, <2>4, TruthOfOne DEF Decided
<1>5. ASSUME NEW w \in Workers, Starts(w) \/ FindsLock(w)
      PROVE  Truth'
  <2> DEFINE r == [Resting EXCEPT !.pc = "open", !.attempt = 1, !.cur = installed.version]
  <2>1. Resting.pc = "rest" /\ r.pc = "open" /\ worker[w] \in WorkerType
    BY <1>1 DEF Resting
  <2> HIDE DEF r
  <2>2. /\ worker'[w] \in {r, Resting, [worker[w] EXCEPT !.pc = "remove"]}
        /\ \A v \in Workers : v # w => worker'[v] = worker[v]
    BY <1>1, <1>5 DEF Starts, FindsLock, To, r
  <2>3. worker'[w].pc \in {"rest", "open", "remove"}
    BY <2>1, <2>2 DEF WorkerType
  <2>4. worker'[w].pc \notin Locked
    BY <2>3 DEF Locked
  <2>5. ~stolen /\ archs' = archs /\ installed' = installed /\ status' = status
    BY <1>5 DEF Starts, FindsLock, device
  <2> QED
    BY <2>2, <2>4, <2>5, TruthStays
<1>6. ASSUME NEW w \in Workers, RemovesLock(w) \/ Releases(w)
      PROVE  Truth'
  <2>1. Resting.pc = "rest" /\ worker[w] \in WorkerType
    BY <1>1 DEF Resting
  <2>2. /\ worker'[w] = Resting \/ worker'[w] = [worker[w] EXCEPT !.pc = "open", !.attempt = 2]
        /\ \A v \in Workers : v # w => worker'[v] = worker[v]
    BY <1>1, <1>6 DEF RemovesLock, Releases
  <2>3. worker'[w].pc \in {"rest", "open"}
    BY <2>1, <2>2 DEF WorkerType
  <2>4. worker'[w].pc \notin Locked
    BY <2>3 DEF Locked
  <2>5. ~stolen /\ archs' = archs /\ installed' = installed /\ status' = status
    BY <1>6 DEF RemovesLock, Releases, device
  <2> QED
    BY <2>2, <2>4, <2>5, TruthStays
<1>7. ASSUME NEW w \in Workers, Terminated(w)
      PROVE  Truth'
  <2>1. \A v \in Workers : /\ worker'[v].pc = worker[v].pc
                           /\ worker'[v].cur = worker[v].cur
                           /\ worker'[v].target = worker[v].target
    BY <1>1, <1>7 DEF Terminated, WorkerType
  <2>2. ~stolen /\ archs' = archs /\ status' = status
    BY <1>7 DEF Terminated, device
  <2>3. CASE worker[w].pc \in {"install", "rollback"}
    <3>1. worker[w].pc \in Locked \ {"release"}
      BY <2>3 DEF Locked
    <3>2. status'.state \notin Decided
      BY <2>2, <3>1 DEF Truth, Ready
    <3>3. \A v \in Workers : v # w => worker'[v].pc \notin Locked
      BY <1>1, <1>2, <1>7, <2>2, <3>1 DEF Terminated
    <3> QED
      BY <2>1, <2>2, <2>3, <3>2, <3>3, TruthOfOne
  <2>4. CASE worker[w].pc \notin {"install", "rollback"}
    <3>1. installed' = installed
      BY <1>7, <2>4 DEF Terminated, Interrupted, At, Untouched
    <3> QED
      BY <2>1, <2>2, <3>1, TruthStays
  <2> QED
    BY <2>3, <2>4
<1>8. ASSUME NEW w \in Workers, Killed(w)
      PROVE  Truth'
  <2>1. /\ worker'[w].pc = "rest"
        /\ \A v \in Workers : v # w => worker'[v] = worker[v]
    BY <1>1, <1>8 DEF Killed, Resting
  <2>2. ~stolen /\ archs' = archs /\ status' = status
    BY <1>8 DEF Killed, device
  <2>3. CASE worker[w].pc \in {"install", "rollback"}
    <3>1. worker[w].pc \in Locked \ {"release"}
      BY <2>3 DEF Locked
    <3>2. status'.state \notin Decided
      BY <2>2, <3>1 DEF Truth, Ready
    <3>3. \A v \in Workers : v # w => worker'[v].pc \notin Locked
      BY <1>2, <2>1, <2>2, <3>1
    <3> QED
      BY <2>1, <2>2, <3>2, <3>3, TruthOfOne
  <2>4. CASE worker[w].pc \notin {"install", "rollback"}
    <3>1. installed' = installed
      BY <1>8, <2>4 DEF Killed, At
    <3>2. worker'[w].pc \notin Locked
      BY <2>1 DEF Locked
    <3> QED
      BY <2>1, <2>2, <3>1, <3>2, TruthStays
  <2> QED
    BY <2>3, <2>4
<1>9. CASE CheckBegins \/ CheckEnds
  <2>1. /\ ~stolen /\ archs' = archs /\ installed' = installed /\ worker' = worker
        /\ status'.state \in {"checking", "failed", "available", "up_to_date"}
    BY <1>9 DEF CheckBegins, CheckEnds, Reports, device
  <2> QED
    BY <2>1, TruthStays DEF Decided
<1>10. CASE NewRelease \/ Ages \/ Toggles \/ UNCHANGED vars
  <2>1. /\ ~stolen /\ archs' = archs /\ installed' = installed /\ worker' = worker
        /\ status' = status
    BY <1>10 DEF NewRelease, Ages, Toggles, vars, device
  <2> QED
    BY <2>1, TruthStays
<1>11. CASE Reboot
  <2>1. /\ ~stolen /\ archs' = archs /\ status'.state = "idle"
        /\ \A v \in Workers : worker'[v].pc = "rest"
    BY <1>11 DEF Reboot, Reports, Resting, device
  <2>2. CASE Workers = {}
    BY <2>1, <2>2 DEF Truth, Decided
  <2>3. CASE Workers # {}
    <3>1. PICK w \in Workers : TRUE
      BY <2>3
    <3> QED
      BY <2>1, <3>1, TruthOfOne DEF Decided, Locked
  <2> QED
    BY <2>2, <2>3
<1> QED
  BY <1>3, <1>4, <1>5, <1>6, <1>7, <1>8, <1>9, <1>10, <1>11
  DEF Next, WorkerStep, WorkStep

----------------------------------------------------------------------------
(* The theorems *)

LEMMA Invariants == Spec => [](Sound /\ Owned /\ Truth)
<1>1. Init => Sound /\ Owned /\ Truth
  <2> SUFFICES ASSUME Init PROVE Sound /\ Owned /\ Truth
    OBVIOUS
  <2>1. \A w \in Workers : worker[w].pc = "rest"
    BY DEF Init, Resting
  <2>2. status.state = "idle"
    BY DEF Init
  <2>3. Owned
    BY <2>1 DEF Owned, Locked
  <2>4. Truth
    BY <2>1, <2>2 DEF Truth, Ready, Decided, Locked
  <2> QED
    BY <2>3, <2>4, SoundInit
<1>2. Sound /\ Owned /\ Truth /\ [Next]_vars => (Sound /\ Owned /\ Truth)'
  BY SoundStep, OwnedStep, TruthStep
<1> QED
  BY <1>1, <1>2, PTL DEF Spec

\* Every variable keeps its type, the status file one of its states, and a worker that
\* installs installs something newer than what it runs: runUpdate goes on only behind
\* compareStableVersions, whatever is released or installed by others meanwhile.
THEOREM TypeCorrect == Spec => []TypeOK
<1>1. Sound => TypeOK
  BY DEF Sound, RestTyped, WorkerSound, WorkerType, TypeOK
<1> QED
  BY <1>1, Invariants, PTL

\* acquireUpdateLock lets no two workers download and install at the same time, whatever
\* kills, delays and reboots there are, until a worker removes a lock that is not a
\* left-over.
THEOREM LockExcludes == Spec => []OneInstaller
BY Invariants, OneBehindLock, PTL

\* What the status says of an update that has ended is true of the installed package,
\* after kills, failed installations and roll-backs too: no status of an earlier update
\* outlives the next installation, and none is written before the verification.
THEOREM StatusTellsTruth == Spec => []StatusTruthful
<1>1. Truth => StatusTruthful
  BY DEF Truth, StatusTruthful, Decided
<1> QED
  BY <1>1, Invariants, PTL
=============================================================================
