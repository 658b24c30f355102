------------------------- MODULE ControllerProofs -------------------------
(***************************************************************************)
(* What holds of Controller for every value of its constants, proved with  *)
(* TLAPS: which domains the parser finds in a line, that only those the    *)
(* final rule has matched are submitted, that none is missed between the   *)
(* stream and the snapshot, and the bounds of the reconnect delays.        *)
(***************************************************************************)
EXTENDS Controller, SequenceTheorems, TLAPS

----------------------------------------------------------------------------
(* The parser *)

Parts == Hosts \cup Words

\* A part of a line that is not there.
Absent(w, l) == \A i \in 1..Len(l) : l[i] # w

\* A host is no marker, and no text of an unmarked line holds one.
LEMMA HostIsNoWord ==
  \A c \in Conns : c \in Hosts /\ c \notin Words
BY ControllerAssumption DEF Hosts

LEMMA Unmarked ==
  ASSUME NEW t \in Texts, ~Marked(t)
  PROVE  /\ \A w \in {"success", "failure", "error"} : Absent(w, t.proxy) /\ Absent(w, t.rule)
         /\ \A w \in {"success", "failure"} : Absent(w, t.error)
<1>1. t.proxy \in Seq(Parts) /\ t.rule \in Seq(Parts) /\ t.error \in Seq(Parts)
  BY ControllerAssumption DEF Texts, Parts
<1>2. \A s \in Seq(Parts) : \A i \in 1..Len(s) : s[i] \in ToSet(s)
  BY LenProperties DEF ToSet
<1> QED
  BY <1>1, <1>2 DEF Marked, Absent

LEMMA Joined ==
  \A a, b \in Seq(Parts) :
    /\ a \o b \in Seq(Parts) /\ Len(a) \in Nat /\ Len(b) \in Nat
    /\ Len(a \o b) = Len(a) + Len(b)
    /\ \A i \in 1..(Len(a) + Len(b)) :
         (a \o b)[i] = IF i <= Len(a) THEN a[i] ELSE b[i - Len(a)]
<1> TAKE a, b \in Seq(Parts)
<1>1. Len(a) \in Nat /\ Len(b) \in Nat
  BY LenProperties
<1> QED
  BY <1>1, ConcatProperties

LEMMA AbsentConcat ==
  ASSUME NEW a \in Seq(Parts), NEW b \in Seq(Parts), NEW w, Absent(w, a), Absent(w, b)
  PROVE  Absent(w, a \o b)
<1> SUFFICES ASSUME NEW i \in 1..Len(a \o b) PROVE (a \o b)[i] # w
  BY DEF Absent
<1>1. Len(a) \in Nat /\ Len(b) \in Nat /\ Len(a \o b) = Len(a) + Len(b)
  BY Joined
<1>2. (a \o b)[i] = IF i <= Len(a) THEN a[i] ELSE b[i - Len(a)]
  BY <1>1, Joined
<1> QED
  BY <1>1, <1>2 DEF Absent

\* Where a part stands first, and where it stands last before some place.
LEMMA FirstIs ==
  ASSUME NEW l, NEW w, NEW n \in 1..Len(l), Len(l) \in Nat, l[n] = w,
         \A i \in 1..(n - 1) : l[i] # w
  PROVE  First(l, w) = n
<1> DEFINE I == {i \in 1..Len(l) : l[i] = w}
<1>1. n \in I /\ \A i \in I : n <= i
  OBVIOUS
<1>2. I # {} /\ I \subseteq Nat
  BY <1>1
<1>3. First(l, w) = Min(I)
  BY <1>2 DEF First, SelectInSeq
<1> HIDE DEF I
<1>4. Min(I) = n
  <2>1. \A x \in I : (\A y \in I : x <= y) => x = n
    BY <1>1, <1>2
  <2>2. Min(I) \in I /\ \A y \in I : Min(I) <= y
    BY <1>1 DEF Min
  <2> QED
    BY <2>1, <2>2
<1> QED
  BY <1>3, <1>4

LEMMA FirstNone ==
  ASSUME NEW l, NEW w, Absent(w, l)
  PROVE  First(l, w) = 0
BY DEF First, SelectInSeq, Absent

LEMMA LastIs ==
  ASSUME NEW l, NEW w, NEW m \in Nat, NEW n \in 1..(m - 1), l[n] = w,
         \A i \in (n + 1)..(m - 1) : l[i] # w
  PROVE  LastBefore(l, m, w) = n
<1> DEFINE I == {i \in 1..(m - 1) : l[i] = w}
<1>1. n \in I /\ \A i \in I : n >= i
  OBVIOUS
<1>2. I # {} /\ I \subseteq Nat
  BY <1>1
<1>3. LastBefore(l, m, w) = Max(I)
  BY <1>2 DEF LastBefore, SelectLastInSubSeq
<1> HIDE DEF I
<1>4. Max(I) = n
  <2>1. \A x \in I : (\A y \in I : x >= y) => x = n
    BY <1>1, <1>2
  <2>2. Max(I) \in I /\ \A y \in I : Max(I) >= y
    BY <1>1 DEF Max
  <2> QED
    BY <2>1, <2>2
<1> QED
  BY <1>3, <1>4

\* What is read when the target stands where it must, and when it has no end.
LEMMA ParsedAt ==
  ASSUME NEW l, NEW n \in Nat \ {0}, NEW c \in Conns,
         TargetEnd(l) = n + 2, LastBefore(l, n + 2, "arrow") = n, l[n + 1] = c
  PROVE  Parsed(l) = {c}
<1>1. ((n + 1) + 1)..((n + 2) - 1) = {} /\ 1 < n + 1 /\ n + 1 < n + 2
  OBVIOUS
<1>2. Parsed(l) = {l[n + 1]} \cap Hosts
  BY <1>1 DEF Parsed
<1> QED
  BY <1>2, HostIsNoWord

LEMMA ParsedNowhere ==
  ASSUME NEW l, TargetEnd(l) = 0
  PROVE  Parsed(l) = {}
<1>1. 1..(0 - 1) = {}
  OBVIOUS
<1>2. LastBefore(l, 0, "arrow") = 0
  BY <1>1 DEF LastBefore, SelectLastInSubSeq
<1> QED
  BY <1>2 DEF Parsed

\* A line under the final rule names its host, whatever its proxy is called.
LEMMA ParsedFinal ==
  ASSUME NEW c \in Conns, NEW t \in Texts
  PROVE  Parsed(Line("final", c, t)) = {c}
<1> DEFINE a == <<"source", "arrow", c, "success">>
           l == a \o t.proxy
<1>1. t.proxy \in Seq(Parts) /\ a \in Seq(Parts) /\ Len(a) = 4
  BY ControllerAssumption, HostIsNoWord DEF Texts, Parts, Words
<1>2. /\ a[1] = "source" /\ a[2] = "arrow" /\ a[3] = c /\ a[4] = "success"
      /\ c # "success" /\ c # "arrow"
  BY HostIsNoWord DEF Words
<1> HIDE DEF a
<1>3. /\ Len(l) \in Nat /\ 4 \in 1..Len(l)
      /\ \A i \in 1..4 : l[i] = a[i]
  BY <1>1, Joined
<1>4. Line("final", c, t) = l
  BY DEF Line, a
<1> HIDE DEF l
<1>5. First(l, "success") = 4
  <2>1. \A i \in 1..(4 - 1) : l[i] # "success"
    BY <1>2, <1>3
  <2> QED
    BY <1>2, <1>3, <2>1, FirstIs
<1>6. LastBefore(l, 4, "arrow") = 2
  <2>1. \A i \in (2 + 1)..(4 - 1) : l[i] # "arrow"
    BY <1>2, <1>3
  <2> QED
    BY <1>2, <1>3, <2>1, LastIs
<1>7. TargetEnd(l) = 2 + 2
  BY <1>5 DEF TargetEnd
<1> QED
  BY <1>2, <1>3, <1>4, <1>6, <1>7, ParsedAt

\* The target of a failure whose own markers are the first ones.
LEMMA ParsedFailure ==
  ASSUME NEW c \in Conns, NEW p \in Seq(Parts), NEW f \in Seq(Parts), NEW e \in Seq(Parts),
         f = <<"failure", "source", "arrow", c, "error">>,
         \A w \in {"success", "failure", "error"} : Absent(w, p), Absent("success", e)
  PROVE  Parsed(p \o f \o e) = IF IncludeFailed THEN {c} ELSE {}
<1> DEFINE l == p \o f \o e
           n == Len(p)
<1>1. /\ Len(f) = 5 /\ Absent("success", f)
      /\ f[1] = "failure" /\ f[2] = "source" /\ f[3] = "arrow" /\ f[4] = c /\ f[5] = "error"
      /\ c \notin {"error", "arrow"}
  BY HostIsNoWord DEF Absent, Words
<1>2. /\ p \o f \in Seq(Parts) /\ n \in Nat /\ Len(p \o f) = n + 5
      /\ \A i \in 1..(n + 5) : (p \o f)[i] = IF i <= n THEN p[i] ELSE f[i - n]
  BY <1>1, Joined
<1>3. /\ Len(e) \in Nat /\ Len(l) = (n + 5) + Len(e)
      /\ \A i \in 1..((n + 5) + Len(e)) :
           l[i] = IF i <= n + 5 THEN (p \o f)[i] ELSE e[i - (n + 5)]
  BY <1>2, Joined
<1>4. Absent("success", l)
  BY <1>1, <1>2, AbsentConcat
<1> HIDE DEF l
<1>5. /\ Len(l) \in Nat /\ n + 1 \in 1..Len(l) /\ n + 5 \in 1..Len(l)
      /\ \A i \in 1..n : l[i] = p[i]
  BY <1>2, <1>3
<1>6. \A i \in 1..5 : l[n + i] = f[i]
  <2>1. \A i \in 1..5 : /\ (n + i) - n = i /\ ~(n + i <= n) /\ n + i <= n + 5
                         /\ n + i \in 1..(n + 5) /\ n + i \in 1..((n + 5) + Len(e))
    BY <1>2, <1>3
  <2> QED
    BY <1>2, <1>3, <2>1
<1>7. /\ l[n + 1] = "failure" /\ l[n + 2] = "source" /\ l[n + 3] = "arrow"
      /\ l[n + 4] = c /\ l[n + 5] = "error"
  BY <1>1, <1>6
<1>8. First(l, "success") = 0
  BY <1>4, FirstNone
<1>9. CASE ~IncludeFailed
  <2>1. TargetEnd(l) = 0
    BY <1>8, <1>9 DEF TargetEnd
  <2> QED
    BY <1>9, <2>1, ParsedNowhere DEF l
<1>10. CASE IncludeFailed
  <2>1. First(l, "failure") = n + 1
    <3>1. \A i \in 1..((n + 1) - 1) : l[i] # "failure"
      BY <1>2, <1>5 DEF Absent
    <3> QED
      BY <1>2, <1>5, <1>7, <3>1, FirstIs
  <2>2. First(l, "error") = n + 5
    <3>1. \A i \in 1..n : l[i] # "error"
      BY <1>2, <1>5 DEF Absent
    <3>2. \A i \in 1..((n + 5) - 1) :
            i \in 1..n \/ i = n + 1 \/ i = n + 2 \/ i = n + 3 \/ i = n + 4
      BY <1>2
    <3>3. \A i \in 1..((n + 5) - 1) : l[i] # "error"
      BY <1>1, <1>7, <3>1, <3>2
    <3> QED
      BY <1>2, <1>5, <1>7, <3>3, FirstIs
  <2>3. TargetEnd(l) = n + 5
    <3>1. n + 1 # 0
      BY <1>2
    <3> QED
      BY <1>8, <1>10, <2>1, <2>2, <3>1 DEF TargetEnd
  <2>4. LastBefore(l, n + 5, "arrow") = n + 3
    <3>1. \A i \in ((n + 3) + 1)..((n + 5) - 1) : i = n + 4
      BY <1>2
    <3>2. \A i \in ((n + 3) + 1)..((n + 5) - 1) : l[i] # "arrow"
      BY <1>1, <1>7, <3>1
    <3>3. n + 5 \in Nat /\ n + 3 \in 1..((n + 5) - 1)
      BY <1>2
    <3> QED
      BY <1>7, <3>2, <3>3, LastIs
  <2>5. (n + 3) + 2 = n + 5 /\ (n + 3) + 1 = n + 4 /\ n + 3 \in Nat \ {0}
    BY <1>2
  <2> HIDE DEF n
  <2>6. Parsed(l) = {c}
    BY <1>7, <2>3, <2>4, <2>5, ParsedAt
  <2> QED
    BY <1>10, <2>6 DEF l
<1> QED
  BY <1>9, <1>10

\* A line of an attempt that failed under the final rule names its host if such attempts
\* are wanted, and nothing of the text of its error.
LEMMA ParsedFailed ==
  ASSUME NEW c \in Conns, NEW t \in Texts, ~Marked(t)
  PROVE  Parsed(Line("failed_final", c, t)) = IF IncludeFailed THEN {c} ELSE {}
<1> DEFINE a == <<"word">>
           f == <<"failure", "source", "arrow", c, "error">>
<1>1. /\ t.proxy \in Seq(Parts) /\ t.error \in Seq(Parts)
      /\ a \in Seq(Parts) /\ f \in Seq(Parts)
  BY ControllerAssumption, HostIsNoWord DEF Texts, Parts, Words
<1>2. \A w \in {"success", "failure", "error"} : Absent(w, a)
  BY DEF Absent
<1>3. Line("failed_final", c, t) = a \o t.proxy \o f \o t.error
  BY DEF Line
<1>4. f = <<"failure", "source", "arrow", c, "error">>
  OBVIOUS
<1> HIDE DEF a, f
<1>5. a \o t.proxy \in Seq(Parts)
  BY <1>1, Joined
<1>6. \A w \in {"success", "failure", "error"} : Absent(w, a \o t.proxy)
  BY <1>1, <1>2, Unmarked, AbsentConcat
<1>7. Absent("success", t.error)
  BY Unmarked
<1>8. Parsed(a \o t.proxy \o f \o t.error) = IF IncludeFailed THEN {c} ELSE {}
  BY <1>1, <1>4, <1>5, <1>6, <1>7, ParsedFailure
<1> QED
  BY <1>3, <1>8

\* A line under another rule names no host.
LEMMA ParsedOther ==
  ASSUME NEW c \in Conns, NEW t \in Texts, ~Marked(t), NEW k \in {"other", "failed_other"}
  PROVE  Parsed(Line(k, c, t)) = {}
<1> DEFINE None2(s) == s \in Seq(Parts) /\ Absent("success", s) /\ Absent("failure", s)
<1>1. ASSUME NEW a, NEW b, None2(a), None2(b) PROVE None2(a \o b)
  BY <1>1, Joined, AbsentConcat
<1>2. None2(t.proxy) /\ None2(t.rule) /\ None2(t.error)
  BY ControllerAssumption, Unmarked DEF Texts, Parts
<1>3. /\ None2(<<"word">>)
      /\ None2(<<"source", "arrow", c, "word">>)
      /\ None2(<<"source", "arrow", c, "error">>)
  BY HostIsNoWord DEF Absent, Parts, Words
<1> HIDE DEF None2
<1>4. None2(Line(k, c, t))
  <2>1. CASE k = "other"
    <3>1. None2(<<"source", "arrow", c, "word">> \o t.rule \o <<"word">> \o t.proxy)
      BY <1>1, <1>2, <1>3
    <3> QED
      BY <2>1, <3>1 DEF Line
  <2>2. CASE k = "failed_other"
    <3>1. None2(<<"word">> \o t.proxy \o <<"word">> \o t.rule)
      BY <1>1, <1>2, <1>3
    <3>2. None2(<<"word">> \o t.proxy \o <<"word">> \o t.rule
                \o <<"source", "arrow", c, "error">> \o t.error)
      BY <1>1, <1>2, <1>3, <3>1
    <3> QED
      BY <2>2, <3>2 DEF Line
  <2> QED
    BY <2>1, <2>2
<1>5. TargetEnd(Line(k, c, t)) = 0
  BY <1>4, FirstNone DEF None2, TargetEnd
<1> QED
  BY <1>5, ParsedNowhere

\* What a line adds to the pipeline.
LEMMA ReadAs ==
  ASSUME kind \in Mixes, NEW c \in Conns, NEW r \in Readings[kind[c]][c]
  PROVE  /\ r.domains \subseteq Hosts
         /\ kind[c] = "final" => r.domains = {c}
         /\ ~r.marked => \A h \in r.domains :
              h = c /\ (kind[c] = "final" \/ (IncludeFailed /\ kind[c] = "failed_final"))
<1>1. kind[c] \in Kinds
  BY ControllerAssumption
<1>2. PICK t \in Texts : /\ r.domains = Parsed(Line(kind[c], c, t))
                         /\ r.marked = Marked(t)
  BY <1>1 DEF Readings
<1>3. r.domains \subseteq Hosts
  BY <1>2 DEF Parsed
<1>4. kind[c] = "final" => r.domains = {c}
  BY <1>2, ParsedFinal
<1>5. ~r.marked => \A h \in r.domains :
        h = c /\ (kind[c] = "final" \/ (IncludeFailed /\ kind[c] = "failed_final"))
  <2> SUFFICES ASSUME ~r.marked, NEW h \in r.domains
               PROVE  h = c /\ (kind[c] = "final"
                                 \/ (IncludeFailed /\ kind[c] = "failed_final"))
    OBVIOUS
  <2>1. CASE kind[c] = "final"
    BY <1>4, <2>1
  <2>2. CASE kind[c] = "failed_final"
    BY <1>2, <2>2, ParsedFailed
  <2>3. CASE kind[c] \in {"other", "failed_other"}
    BY <1>2, <2>3, ParsedOther
  <2> QED
    BY <1>1, <2>1, <2>2, <2>3 DEF Kinds
<1> QED
  BY <1>3, <1>4, <1>5

----------------------------------------------------------------------------
(* Types and delays *)

Status == [connected : BOOLEAN, captured : SUBSET Hosts]
Snapshots == [pc : {"asked", "submitting"}, todo : SUBSET Conns, now : BOOLEAN]

\* The report that is about to be written.
Reporting ==
  rep \in [pc : {"awake", "write", "idle", "stopped", "lost"}, data : Status \cup {None},
           last : BOOLEAN]

\* The jitter of a longer delay is no shorter.
LEMMA JitterMonotone ==
  ASSUME NEW x \in Nat, NEW y \in Nat, x <= y
  PROVE  x - (x \div 5) <= y - (y \div 5) /\ x + (x \div 5) <= y + (y \div 5)
OBVIOUS

LEMMA PauseBounded ==
  ASSUME delay \in InitialDelay..MaxDelay, NEW denied \in BOOLEAN, NEW p \in Pause(denied)
  PROVE  /\ p >= InitialDelay - (InitialDelay \div 5)
         /\ p <= MaxDelay + (MaxDelay \div 5) \/ p = Floor
         /\ denied => p >= Floor
<1> DEFINE low == InitialDelay - (InitialDelay \div 5)
           high == MaxDelay + (MaxDelay \div 5)
<1>1. delay \in Nat /\ InitialDelay \in Nat /\ MaxDelay \in Nat /\ Floor \in Nat
  BY ControllerAssumption
<1>2. low <= delay - (delay \div 5) /\ delay + (delay \div 5) <= high
  BY <1>1, JitterMonotone
<1>3. /\ low \in Int /\ high \in Int
      /\ delay - (delay \div 5) \in Int /\ delay + (delay \div 5) \in Int
      /\ delay - (delay \div 5) <= delay + (delay \div 5)
  BY <1>1
<1> HIDE DEF low, high
<1>4. \A d \in Jittered : d \in Int /\ low <= d /\ d <= high
  BY <1>2, <1>3 DEF Jittered
<1>5. PICK d \in Jittered : p = IF denied /\ d < Floor THEN Floor ELSE d
  BY DEF Pause
<1>6. p >= low /\ (p <= high \/ p = Floor) /\ (denied => p >= Floor)
  BY <1>1, <1>3, <1>4, <1>5
<1> QED
  BY <1>6 DEF low, high

LEMMA BackoffBounded ==
  ASSUME NEW d \in InitialDelay..MaxDelay
  PROVE  Backoff(d) \in InitialDelay..MaxDelay
BY ControllerAssumption DEF Backoff

LEMMA MishapsBounded ==
  ASSUME mishaps \in 0..MaxMishaps, Mishap
  PROVE  mishaps' \in 0..MaxMishaps
BY ControllerAssumption DEF Mishap

\* The parts of the type invariant.
ControllerTyped == /\ kind \in Mixes
                   /\ conn \in [Conns -> {"none", "tracked", "open", "closed"}]
LinkTyped == /\ link \in {"down", "asked", "up", "waiting", "refused", "ended"}
             /\ stream \in Seq(Conns)
             /\ mishaps \in 0..MaxMishaps
DelayTyped == /\ delay \in InitialDelay..MaxDelay
              /\ link \in {"waiting", "refused"} =>
                   /\ wait >= InitialDelay - (InitialDelay \div 5)
                   /\ wait <= MaxDelay + (MaxDelay \div 5) \/ wait = Floor
              /\ link = "refused" => wait >= Floor
SnapshotTyped == snap \in Snapshots \cup {None} /\ covered \in BOOLEAN
StatusTyped == /\ submitted \subseteq Hosts /\ misled \subseteq Hosts
               /\ mem \in Status
               /\ file \in Status \cup {None}
               /\ dirty \in BOOLEAN /\ cancelled \in BOOLEAN
               /\ Reporting

Typed == ControllerTyped /\ LinkTyped /\ DelayTyped /\ SnapshotTyped /\ StatusTyped

\* The domains that wait in a snapshot, and the domain of a line, are hosts.
LEMMA TypedSubmits ==
  ASSUME StatusTyped, NEW c \in Hosts, Submits(c), misled' \subseteq Hosts,
         UNCHANGED <<file, rep, cancelled>>
  PROVE  StatusTyped'
<1>1. dirty' \in BOOLEAN
  BY DEF Submits, Shows
<1>2. submitted' \subseteq Hosts
  BY DEF Submits, StatusTyped
<1>3. mem' \in Status
  BY <1>2 DEF Submits, Shows, StatusTyped, Status
<1> QED
  BY <1>1, <1>2, <1>3 DEF StatusTyped, Reporting

\* The status shows whether there is a stream.
LEMMA TypedShows ==
  ASSUME StatusTyped, NEW b \in BOOLEAN, Shows([mem EXCEPT !.connected = b]),
         UNCHANGED <<captured, file, rep, cancelled>>
  PROVE  StatusTyped'
<1>1. dirty' \in BOOLEAN
  BY DEF Shows
<1>2. mem' \in Status
  BY DEF Shows, StatusTyped, Status
<1> QED
  BY <1>1, <1>2 DEF StatusTyped, Reporting, captured

LEMMA TypedInit == Init => Typed
<1> SUFFICES ASSUME Init PROVE Typed
  OBVIOUS
<1>1. ControllerTyped
  BY DEF Init, ControllerTyped
<1>2. LinkTyped /\ DelayTyped
  BY ControllerAssumption DEF Init, LinkTyped, DelayTyped
<1>3. SnapshotTyped
  <2>1. FALSE \in BOOLEAN
    OBVIOUS
  <2> QED
    BY <2>1 DEF Init, SnapshotTyped
<1>4. StatusTyped
  <2>1. FALSE \in BOOLEAN
    OBVIOUS
  <2>2. [connected |-> FALSE, captured |-> {}] \in Status
    BY <2>1 DEF Status
  <2>3. Reporting
    <3> DEFINE r == [pc |-> "awake", data |-> None, last |-> FALSE]
    <3>1. r \in [pc : {"awake", "write", "idle", "stopped", "lost"},
                 data : Status \cup {None}, last : BOOLEAN]
      BY <2>1
    <3> QED
      BY <3>1 DEF Init, Reporting
  <2> QED
    BY <2>1, <2>2, <2>3 DEF Init, StatusTyped
<1> QED
  BY <1>1, <1>2, <1>3, <1>4 DEF Typed

\* What the controller does.
LEMMA TypedController ==
  ASSUME Typed, NEW c \in Conns, Opens(c) \/ Logs(c) \/ Closes(c)
  PROVE  Typed'
<1>1. ControllerTyped'
  BY DEF Typed, ControllerTyped, Opens, Logs, Closes
<1>2. stream' \in Seq(Conns)
  BY AppendProperties DEF Typed, LinkTyped, Opens, Logs, Closes
<1>3. UNCHANGED <<link, retry, snapshot, captured, mem, dirty, reporting, cancelled, mishaps>>
  BY DEF Opens, Logs, Closes
<1>4. LinkTyped' /\ DelayTyped' /\ SnapshotTyped' /\ StatusTyped'
  BY <1>2, <1>3 DEF Typed, LinkTyped, DelayTyped, SnapshotTyped, StatusTyped, Reporting,
                    retry, snapshot, reporting, captured
<1> QED
  BY <1>1, <1>4 DEF Typed

\* What runInstance does.
LEMMA TypedLink ==
  ASSUME Typed,
         \/ Asks \/ Connects \/ Reads \/ TriesAgain \/ Cancels \/ Ends
         \/ \E denied \in BOOLEAN : Disconnects(denied)
  PROVE  Typed'
<1>0. ControllerTyped'
  BY DEF Typed, ControllerTyped, controller, Asks, Connects, Reads, TriesAgain, Cancels, Ends,
         Disconnects
<1>1. CASE Asks
  <2>1. LinkTyped' /\ DelayTyped'
    BY <1>1 DEF Asks, Typed, LinkTyped, DelayTyped, retry
  <2>2. SnapshotTyped' /\ StatusTyped'
    BY <1>1 DEF Asks, Typed, SnapshotTyped, StatusTyped, Reporting, snapshot, reporting, captured
  <2> QED
    BY <1>0, <2>1, <2>2 DEF Typed
<1>2. CASE Connects
  <2>1. LinkTyped' /\ DelayTyped'
    BY <1>2, ControllerAssumption DEF Connects, Typed, LinkTyped, DelayTyped
  <2>2. SnapshotTyped'
    <3>1. TRUE \in BOOLEAN /\ FALSE \in BOOLEAN
      OBVIOUS
    <3>2. [pc |-> "asked", todo |-> {}, now |-> TRUE] \in Snapshots
      BY <3>1 DEF Snapshots
    <3> QED
      BY <1>2, <3>1, <3>2 DEF Connects, Slot, Typed, SnapshotTyped
  <2>3. StatusTyped'
    <3>1. TRUE \in BOOLEAN
      OBVIOUS
    <3>2. StatusTyped /\ Shows([mem EXCEPT !.connected = TRUE])
          /\ UNCHANGED <<captured, file, rep, cancelled>>
      BY <1>2 DEF Connects, Typed, reporting, captured
    <3> QED
      BY <3>1, <3>2, TypedShows
  <2> QED
    BY <1>0, <2>1, <2>2, <2>3 DEF Typed
<1>3. CASE Reads
  <2>1. LinkTyped' /\ DelayTyped'
    BY <1>3, HeadTailProperties DEF Reads, Typed, LinkTyped, DelayTyped, retry
  <2>2. SnapshotTyped'
    BY <1>3 DEF Reads, Typed, SnapshotTyped, snapshot
  <2>3. StatusTyped'
    <3>1. Head(stream) \in Conns
      BY <1>3, HeadTailProperties DEF Reads, Typed, LinkTyped
    <3>2. PICK r \in Readings[kind[Head(stream)]][Head(stream)] :
            /\ misled' = IF r.marked THEN misled \cup r.domains ELSE misled
            /\ \/ UNCHANGED <<submitted, mem, dirty>>
               \/ \E c \in r.domains : Submits(c)
      BY <1>3 DEF Reads
    <3>3. r.domains \subseteq Hosts
      BY <3>1, ReadAs DEF Typed, ControllerTyped
    <3>4. misled' \subseteq Hosts /\ UNCHANGED <<file, rep, cancelled>>
      BY <1>3, <3>2, <3>3 DEF Reads, Typed, StatusTyped, reporting
    <3>5. CASE UNCHANGED <<submitted, mem, dirty>>
      BY <3>4, <3>5 DEF Typed, StatusTyped, Reporting
    <3>6. CASE \E c \in r.domains : Submits(c)
      <4>1. PICK c \in Hosts : Submits(c)
        BY <3>3, <3>6
      <4> QED
        BY <3>4, <4>1, TypedSubmits DEF Typed
    <3> QED
      BY <3>2, <3>5, <3>6
  <2> QED
    BY <1>0, <2>1, <2>2, <2>3 DEF Typed
<1>4. CASE TriesAgain
  <2>1. LinkTyped' /\ DelayTyped'
    BY <1>4, BackoffBounded DEF TriesAgain, Typed, LinkTyped, DelayTyped
  <2>2. SnapshotTyped' /\ StatusTyped'
    BY <1>4 DEF TriesAgain, Typed, SnapshotTyped, StatusTyped, Reporting, snapshot, reporting,
               captured
  <2> QED
    BY <1>0, <2>1, <2>2 DEF Typed
<1>5. CASE Cancels
  <2>1. LinkTyped' /\ DelayTyped' /\ SnapshotTyped'
    BY <1>5 DEF Cancels, Typed, LinkTyped, DelayTyped, SnapshotTyped, retry, snapshot
  <2>2. cancelled' \in BOOLEAN
    BY <1>5 DEF Cancels
  <2>3. StatusTyped'
    BY <1>5, <2>2 DEF Cancels, Typed, StatusTyped, Reporting, reporting, captured
  <2> QED
    BY <1>0, <2>1, <2>3 DEF Typed
<1>6. CASE Ends
  <2>1. LinkTyped' /\ DelayTyped'
    BY <1>6 DEF Ends, Typed, LinkTyped, DelayTyped, retry
  <2>2. covered' \in BOOLEAN
    BY <1>6 DEF Ends
  <2>3. SnapshotTyped' /\ StatusTyped'
    BY <1>6, <2>2 DEF Ends, Typed, SnapshotTyped, StatusTyped, Reporting, reporting, captured
  <2> QED
    BY <1>0, <2>1, <2>3 DEF Typed
<1>7. ASSUME NEW denied \in BOOLEAN, Disconnects(denied)
      PROVE  Typed'
  <2>1. mishaps' \in 0..MaxMishaps
    BY <1>7, MishapsBounded DEF Disconnects, Typed, LinkTyped
  <2>2. LinkTyped'
    BY <1>7, <2>1 DEF Disconnects, Typed, LinkTyped
  <2>3. DelayTyped'
    <3>1. delay' = delay /\ wait' \in Pause(denied)
      BY <1>7 DEF Disconnects
    <3>2. link' = "refused" => denied
      BY <1>7 DEF Disconnects
    <3>3. /\ wait' >= InitialDelay - (InitialDelay \div 5)
          /\ wait' <= MaxDelay + (MaxDelay \div 5) \/ wait' = Floor
          /\ denied => wait' >= Floor
      BY <3>1, PauseBounded DEF Typed, DelayTyped
    <3> QED
      BY <3>1, <3>2, <3>3 DEF Typed, DelayTyped
  <2>4. SnapshotTyped'
    <3>1. \A s \in Snapshots : [s EXCEPT !.now = FALSE] \in Snapshots
      <4>1. \A b \in BOOLEAN : \A s \in Snapshots : [s EXCEPT !.now = b] \in Snapshots
        BY DEF Snapshots
      <4> QED
        BY <4>1
    <3>2. covered' \in BOOLEAN
      BY <1>7 DEF Disconnects
    <3> QED
      BY <1>7, <3>1, <3>2 DEF Disconnects, Typed, SnapshotTyped
  <2>5. StatusTyped'
    <3>1. FALSE \in BOOLEAN
      OBVIOUS
    <3>2. StatusTyped /\ Shows([mem EXCEPT !.connected = FALSE])
          /\ UNCHANGED <<captured, file, rep, cancelled>>
      BY <1>7 DEF Disconnects, Typed, reporting, captured
    <3> QED
      BY <3>1, <3>2, TypedShows
  <2> QED
    BY <1>0, <2>2, <2>3, <2>4, <2>5 DEF Typed
<1> QED
  BY <1>1, <1>2, <1>3, <1>4, <1>5, <1>6, <1>7

\* What the snapshot goroutine does.
LEMMA TypedSnapshot ==
  ASSUME Typed, TakesSnapshot \/ SubmitsSnapshot \/ EndsSnapshot \/ GivesSnapshotUp
  PROVE  Typed'
<1>1. UNCHANGED <<controller, link, stream, retry, reporting, cancelled>>
  BY DEF TakesSnapshot, SubmitsSnapshot, EndsSnapshot, GivesSnapshotUp
<1>2. mishaps' \in 0..MaxMishaps
  <2>1. Mishap \/ UNCHANGED mishaps
    BY DEF TakesSnapshot, SubmitsSnapshot, EndsSnapshot, GivesSnapshotUp
  <2> QED
    BY <2>1, MishapsBounded DEF Typed, LinkTyped
<1>3. ControllerTyped' /\ LinkTyped' /\ DelayTyped'
  BY <1>1, <1>2 DEF Typed, ControllerTyped, LinkTyped, DelayTyped, controller, retry
<1>4. SnapshotTyped'
  <2>1. CASE TakesSnapshot
    <3>1. Matched \subseteq Conns
      BY DEF Matched
    <3>2. snap \in Snapshots /\ covered' = covered
      BY <2>1 DEF TakesSnapshot, Typed, SnapshotTyped
    <3>3. [snap EXCEPT !.pc = "submitting", !.todo = Matched] \in Snapshots
      BY <3>1, <3>2 DEF Snapshots
    <3> QED
      BY <2>1, <3>2, <3>3 DEF TakesSnapshot, Typed, SnapshotTyped
  <2>2. CASE SubmitsSnapshot
    <3>1. PICK c : snap' = [snap EXCEPT !.todo = snap.todo \ {c}]
      <4>1. snap \in Snapshots
        BY <2>2 DEF SubmitsSnapshot, Typed, SnapshotTyped
      <4> QED
        BY <2>2, <4>1 DEF SubmitsSnapshot, Snapshots
    <3>2. snap \in Snapshots /\ covered' = covered
      BY <2>2 DEF SubmitsSnapshot, Typed, SnapshotTyped
    <3>3. [snap EXCEPT !.todo = snap.todo \ {c}] \in Snapshots
      BY <3>2 DEF Snapshots
    <3> QED
      BY <3>1, <3>2, <3>3 DEF Typed, SnapshotTyped
  <2>3. CASE EndsSnapshot
    <3>1. snap.now \in BOOLEAN
      BY <2>3 DEF EndsSnapshot, Typed, SnapshotTyped, Snapshots
    <3>2. covered' \in BOOLEAN
      BY <2>3, <3>1 DEF EndsSnapshot, Typed, SnapshotTyped
    <3> QED
      BY <2>3, <3>2 DEF EndsSnapshot, SnapshotTyped
  <2>4. CASE GivesSnapshotUp
    BY <2>4 DEF GivesSnapshotUp, Typed, SnapshotTyped
  <2> QED
    BY <2>1, <2>2, <2>3, <2>4
<1>5. StatusTyped'
  <2>1. CASE SubmitsSnapshot
    <3>1. PICK c \in snap.todo : Submits(c)
      BY <2>1 DEF SubmitsSnapshot
    <3>2. c \in Hosts /\ misled' \subseteq Hosts
      BY <2>1, <3>1 DEF SubmitsSnapshot, Typed, SnapshotTyped, Snapshots, StatusTyped, Hosts
    <3> QED
      BY <1>1, <3>1, <3>2, TypedSubmits DEF Typed, reporting
  <2>2. CASE ~SubmitsSnapshot
    <3>1. UNCHANGED <<captured, mem, dirty>>
      BY <2>2 DEF TakesSnapshot, EndsSnapshot, GivesSnapshotUp
    <3> QED
      BY <1>1, <3>1 DEF Typed, StatusTyped, Reporting, reporting, captured
  <2> QED
    BY <2>1, <2>2
<1> QED
  BY <1>3, <1>4, <1>5 DEF Typed

\* What the reporter does.
LEMMA TypedReporter ==
  ASSUME Typed, WakesUp \/ WakesByTicker \/ Marshals \/ Writes \/ WriteFails
  PROVE  Typed'
<1>1. UNCHANGED <<controller, link, stream, retry, snapshot, captured, mem, cancelled>>
  BY DEF WakesUp, WakesByTicker, Marshals, Writes, WriteFails
<1>2. mishaps' \in 0..MaxMishaps
  <2>1. Mishap \/ UNCHANGED mishaps
    BY DEF WakesUp, WakesByTicker, Marshals, Writes, WriteFails
  <2> QED
    BY <2>1, MishapsBounded DEF Typed, LinkTyped
<1>3. ControllerTyped' /\ LinkTyped' /\ DelayTyped' /\ SnapshotTyped'
  BY <1>1, <1>2 DEF Typed, ControllerTyped, LinkTyped, DelayTyped, SnapshotTyped, controller,
                    retry, snapshot
<1>4. Reporting'
  <2> DEFINE pcs == {"awake", "write", "idle", "stopped", "lost"}
  <2>1. /\ rep \in [pc : pcs, data : Status \cup {None}, last : BOOLEAN]
        /\ mem \in Status
        /\ TRUE \in BOOLEAN
    BY DEF Typed, StatusTyped, Reporting
  <2>2. \A b \in BOOLEAN : [rep EXCEPT !.pc = "awake", !.last = b] \in
                             [pc : pcs, data : Status \cup {None}, last : BOOLEAN]
    BY <2>1
  <2>3. \/ rep' = [rep EXCEPT !.pc = "awake"]
        \/ rep' = [rep EXCEPT !.pc = "awake", !.last = TRUE]
        \/ rep' = [rep EXCEPT !.pc = "write", !.data = mem]
        \/ \E pc \in {"stopped", "lost", "idle"} :
             rep' = [rep EXCEPT !.pc = pc, !.data = None]
    BY DEF WakesUp, WakesByTicker, Marshals, Writes, WriteFails
  <2> QED
    BY <2>1, <2>2, <2>3 DEF Reporting
<1>5. dirty' \in BOOLEAN
  BY DEF WakesUp, WakesByTicker, Marshals, Writes, WriteFails, Typed, StatusTyped
<1>6. file' \in Status \cup {None}
  BY DEF WakesUp, WakesByTicker, Marshals, Writes, WriteFails, Typed, StatusTyped, Reporting
<1> QED
  BY <1>1, <1>3, <1>4, <1>5, <1>6 DEF Typed, StatusTyped, captured

LEMMA TypedStep == Typed /\ [Next]_vars => Typed'
<1> SUFFICES ASSUME Typed, [Next]_vars PROVE Typed'
  OBVIOUS
<1>1. CASE UNCHANGED vars
  BY <1>1 DEF vars, controller, retry, snapshot, reporting, captured, Typed, ControllerTyped,
              LinkTyped, DelayTyped, SnapshotTyped, StatusTyped, Reporting
<1> QED
  BY <1>1, TypedController, TypedLink, TypedSnapshot, TypedReporter DEF Next

----------------------------------------------------------------------------
(* Which domains are submitted *)

\* A snapshot holds connections of the final rule only.
Selected == snap # None => \A c \in snap.todo : kind[c] = "final"

LEMMA OnlyFinalStep == Typed /\ OnlyFinal /\ Selected /\ [Next]_vars => (OnlyFinal /\ Selected)'
<1> SUFFICES ASSUME Typed, OnlyFinal, Selected, [Next]_vars PROVE (OnlyFinal /\ Selected)'
  OBVIOUS
<1>1. kind' = kind
  BY DEF Next, Opens, Logs, Closes, Asks, Connects, Reads, TriesAgain, Cancels, Ends,
         Disconnects, TakesSnapshot, SubmitsSnapshot, EndsSnapshot, GivesSnapshotUp,
         WakesUp, WakesByTicker, Marshals, Writes, WriteFails, controller, vars
<1>2. ASSUME UNCHANGED <<captured, snap>>
      PROVE  (OnlyFinal /\ Selected)'
  BY <1>1, <1>2 DEF OnlyFinal, Selected, captured
<1>3. CASE Connects
  <2>1. snap' = snap \/ snap'.todo = {}
    BY <1>3 DEF Connects, Slot
  <2> QED
    BY <1>1, <1>3, <2>1 DEF Connects, OnlyFinal, Selected, captured
<1>4. CASE Reads
  <2>1. Head(stream) \in Conns
    BY <1>4, HeadTailProperties DEF Reads, Typed, LinkTyped
  <2>2. PICK r \in Readings[kind[Head(stream)]][Head(stream)] :
          /\ misled' = IF r.marked THEN misled \cup r.domains ELSE misled
          /\ \/ submitted' = submitted
             \/ \E h \in r.domains : submitted' = submitted \cup {h}
    BY <1>4 DEF Reads, Submits
  <2>3. \A h \in r.domains :
          \/ h \in misled'
          \/ h \in Conns /\ (kind[h] = "final" \/ (IncludeFailed /\ kind[h] = "failed_final"))
    BY <2>1, <2>2, ReadAs DEF Typed, ControllerTyped
  <2>4. misled \subseteq misled' /\ snap' = snap
    BY <1>4, <2>2 DEF Reads, snapshot
  <2> QED
    BY <1>1, <2>2, <2>3, <2>4 DEF OnlyFinal, Selected
<1>5. ASSUME NEW denied \in BOOLEAN, Disconnects(denied)
      PROVE  (OnlyFinal /\ Selected)'
  <2>1. snap # None => snap'.todo = snap.todo
    BY <1>5 DEF Disconnects, Typed, SnapshotTyped, Snapshots
  <2>2. snap' # None => snap # None
    BY <1>5 DEF Disconnects
  <2> QED
    BY <1>1, <1>5, <2>1, <2>2 DEF Disconnects, OnlyFinal, Selected, captured
<1>6. CASE TakesSnapshot
  <2>1. snap'.todo = Matched
    BY <1>6 DEF TakesSnapshot, Typed, SnapshotTyped, Snapshots
  <2>2. \A c \in Matched : kind[c] = "final"
    BY DEF Matched
  <2> QED
    BY <1>1, <1>6, <2>1, <2>2 DEF TakesSnapshot, OnlyFinal, Selected, captured
<1>7. CASE SubmitsSnapshot
  <2>1. PICK c \in snap.todo : /\ submitted' = submitted \cup {c}
                               /\ snap' = [snap EXCEPT !.todo = snap.todo \ {c}]
    <3>1. snap \in Snapshots
      BY <1>7 DEF SubmitsSnapshot, Typed, SnapshotTyped
    <3> QED
      BY <1>7, <3>1 DEF SubmitsSnapshot, Submits, Snapshots
  <2>2. /\ snap # None /\ snap'.todo = snap.todo \ {c} /\ snap.todo \subseteq Conns
        /\ misled' = misled
    BY <1>7, <2>1 DEF SubmitsSnapshot, Typed, SnapshotTyped, Snapshots
  <2> QED
    BY <1>1, <2>1, <2>2 DEF OnlyFinal, Selected
<1>8. CASE EndsSnapshot \/ GivesSnapshotUp
  BY <1>1, <1>8 DEF EndsSnapshot, GivesSnapshotUp, OnlyFinal, Selected, captured
<1>9. CASE \/ Asks \/ TriesAgain \/ Cancels \/ Ends
           \/ \E c \in Conns : Opens(c) \/ Logs(c) \/ Closes(c)
           \/ WakesUp \/ WakesByTicker \/ Marshals \/ Writes \/ WriteFails
           \/ UNCHANGED vars
  BY <1>2, <1>9 DEF Asks, TriesAgain, Cancels, Ends, Opens, Logs, Closes, WakesUp,
                    WakesByTicker, Marshals, Writes, WriteFails, vars, snapshot
<1> QED
  BY <1>3, <1>4, <1>5, <1>6, <1>7, <1>8, <1>9 DEF Next

----------------------------------------------------------------------------
(* No gap between stream and snapshot *)

\* The domain of a connection has been submitted, or will be when its line is read.
Caught(c) == c \in submitted \/ \E i \in DOMAIN stream : stream[i] = c

\* A snapshot belongs to the current stream only while there is one, or at the end.
Current == snap # None /\ snap.now => link \in {"up", "ended"}

\* Once the controller has answered, what the snapshot of this stream does not hold is
\* caught.
Overlap ==
  link = "up" /\ snap # None /\ snap.now /\ snap.pc = "submitting" =>
    \A c \in Conns : kind[c] = "final" /\ conn[c] = "open" => Caught(c) \/ c \in snap.todo

NoGap == Current /\ Overlap /\ NothingMissed

\* What is caught stays so when lines are added.
LEMMA CaughtAppend ==
  ASSUME Typed, NEW c \in Conns, stream' = Append(stream, c), submitted' = submitted
  PROVE  Caught(c)' /\ \A d : Caught(d) => Caught(d)'
<1>1. /\ stream \in Seq(Conns)
      /\ DOMAIN stream = 1..Len(stream) /\ Len(stream) \in Nat
  BY LenProperties DEF Typed, LinkTyped
<1>2. /\ DOMAIN stream' = 1..(Len(stream) + 1)
      /\ stream'[Len(stream) + 1] = c
      /\ \A i \in 1..Len(stream) : stream'[i] = stream[i]
  BY <1>1, AppendProperties
<1> QED
  BY <1>1, <1>2 DEF Caught

\* What is caught stays so when a line is read, except for a line that names nothing.
LEMMA CaughtTail ==
  ASSUME Typed, stream # <<>>, stream' = Tail(stream), submitted \subseteq submitted',
         NEW d, Caught(d), d # Head(stream) \/ d \in submitted'
  PROVE  Caught(d)'
<1>1. /\ stream \in Seq(Conns)
      /\ DOMAIN stream = 1..Len(stream) /\ Len(stream) \in Nat /\ Len(stream) > 0
  BY LenProperties DEF Typed, LinkTyped
<1>2. /\ Head(stream) = stream[1]
      /\ DOMAIN stream' = 1..(Len(stream) - 1)
      /\ \A i \in 1..(Len(stream) - 1) : stream'[i] = stream[i + 1]
  BY <1>1, HeadTailProperties
<1>3. CASE d \in submitted'
  BY <1>3 DEF Caught
<1>4. CASE d \notin submitted'
  <2>1. PICK i \in 1..Len(stream) : stream[i] = d
    BY <1>1, <1>4 DEF Caught
  <2>2. i - 1 \in 1..(Len(stream) - 1) /\ stream'[i - 1] = d
    BY <1>1, <1>2, <1>4, <2>1
  <2> QED
    BY <1>2, <2>2 DEF Caught
<1> QED
  BY <1>3, <1>4

\* NoGap holds again when what is caught stays so and nothing else gets worse.
LEMMA GapStays ==
  ASSUME NoGap, kind' = kind,
         \A c \in Conns : Caught(c) => Caught(c)',
         \A c \in Conns : kind[c] = "final" /\ conn'[c] = "open" => conn[c] = "open" \/ Caught(c)',
         UNCHANGED <<snap, covered, link>>
  PROVE  NoGap'
BY DEF NoGap, Current, Overlap, NothingMissed, Caught

LEMMA NoGapStep == Typed /\ NoGap /\ [Next]_vars => NoGap'
<1> SUFFICES ASSUME Typed, NoGap, [Next]_vars PROVE NoGap'
  OBVIOUS
<1>1. kind' = kind
  BY DEF Next, Opens, Logs, Closes, Asks, Connects, Reads, TriesAgain, Cancels, Ends,
         Disconnects, TakesSnapshot, SubmitsSnapshot, EndsSnapshot, GivesSnapshotUp,
         WakesUp, WakesByTicker, Marshals, Writes, WriteFails, controller, vars
<1>2. ASSUME UNCHANGED <<submitted, stream, snapshot, link>>,
             \A c \in Conns : conn'[c] = "open" => conn[c] = "open"
      PROVE  NoGap'
  BY <1>1, <1>2, GapStays DEF Caught, snapshot
<1>3. ASSUME NEW c \in Conns, Logs(c)
      PROVE  NoGap'
  <2>1. CASE link \notin {"asked", "up"}
    BY <1>3, <2>1 DEF Logs, snapshot, captured, NoGap, Current, Overlap, NothingMissed
  <2>2. CASE link \in {"asked", "up"}
    <3>1. stream' = Append(stream, c) /\ UNCHANGED <<submitted, snap, covered, link>>
      BY <1>3, <2>2 DEF Logs, snapshot, captured
    <3>2. \A d \in Conns : conn'[d] = "open" => conn[d] = "open" \/ d = c
      BY <1>3 DEF Logs, Typed, ControllerTyped
    <3> QED
      BY <1>1, <3>1, <3>2, CaughtAppend, GapStays
  <2> QED
    BY <2>1, <2>2
<1>4. ASSUME NEW c \in Conns, Opens(c) \/ Closes(c)
      PROVE  NoGap'
  <2>1. \A d \in Conns : conn'[d] = "open" => conn[d] = "open"
    BY <1>4 DEF Opens, Closes, Typed, ControllerTyped
  <2> QED
    BY <1>2, <1>4, <2>1 DEF Opens, Closes, captured
<1>5. CASE Asks
  BY <1>5 DEF Asks, snapshot, NoGap, Current, Overlap, NothingMissed
<1>6. CASE Connects
  <2>1. link = "asked" /\ link' = "up" /\ covered' = FALSE
    BY <1>6 DEF Connects
  <2>2. \/ snap' = [pc |-> "asked", todo |-> {}, now |-> TRUE]
        \/ snap # None /\ snap' = snap
    BY <1>6 DEF Connects, Slot
  <2>3. snap # None => ~snap.now
    BY <2>1 DEF NoGap, Current
  <2> QED
    BY <2>1, <2>2, <2>3 DEF NoGap, Current, Overlap, NothingMissed
<1>7. CASE Reads
  <2>1. /\ stream # <<>> /\ stream' = Tail(stream)
        /\ UNCHANGED <<snap, covered, link, conn>>
    BY <1>7 DEF Reads, snapshot, controller
  <2>2. Head(stream) \in Conns
    BY <2>1, HeadTailProperties DEF Typed, LinkTyped
  <2>3. submitted \subseteq submitted'
    BY <1>7 DEF Reads, Submits
  <2>4. kind[Head(stream)] = "final" => Head(stream) \in submitted'
    <3> SUFFICES ASSUME kind[Head(stream)] = "final" PROVE Head(stream) \in submitted'
      OBVIOUS
    <3>1. \A r \in Readings[kind[Head(stream)]][Head(stream)] : r.domains = {Head(stream)}
      BY <2>2, ReadAs DEF Typed, ControllerTyped
    <3> QED
      BY <1>7, <3>1 DEF Reads, Submits
  <2>5. \A c \in Conns : kind[c] = "final" /\ Caught(c) => Caught(c)'
    BY <2>1, <2>3, <2>4, CaughtTail
  <2> QED
    BY <1>1, <2>1, <2>5 DEF NoGap, Current, Overlap, NothingMissed, Caught
<1>8. ASSUME NEW denied \in BOOLEAN, Disconnects(denied)
      PROVE  NoGap'
  <2>1. link' \in {"waiting", "refused"}
    BY <1>8 DEF Disconnects
  <2>2. snap' # None => ~snap'.now
    BY <1>8 DEF Disconnects, Typed, SnapshotTyped, Snapshots
  <2> QED
    BY <2>1, <2>2 DEF NoGap, Current, Overlap, NothingMissed
<1>9. CASE TriesAgain
  <2>1. link \in {"waiting", "refused"} /\ link' = "down" /\ snap' = snap
    BY <1>9 DEF TriesAgain, snapshot
  <2> QED
    BY <2>1 DEF NoGap, Current, Overlap, NothingMissed
<1>10. CASE Ends
  <2>1. link' = "ended" /\ snap' = snap
    BY <1>10 DEF Ends
  <2> QED
    BY <2>1 DEF NoGap, Current, Overlap, NothingMissed
<1>11. CASE TakesSnapshot
  <2>1. /\ snap # None /\ snap'.todo = Matched /\ snap'.now = snap.now
        /\ UNCHANGED <<link, covered, conn, stream, submitted>>
    BY <1>11 DEF TakesSnapshot, Typed, SnapshotTyped, Snapshots, controller,
                       captured
  <2>2. \A c \in Conns : kind[c] = "final" /\ conn[c] = "open" => c \in Matched
    BY DEF Matched
  <2>3. (snap' # None /\ snap'.now => link' \in {"up", "ended"})
    BY <2>1 DEF NoGap, Current
  <2> QED
    BY <1>1, <2>1, <2>2, <2>3 DEF NoGap, Current, Overlap, NothingMissed, Caught
<1>12. CASE SubmitsSnapshot
  <2>1. snap # None /\ snap \in Snapshots
    BY <1>12 DEF SubmitsSnapshot, Typed, SnapshotTyped
  <2>2. PICK c \in snap.todo : /\ submitted' = submitted \cup {c}
                               /\ snap' = [snap EXCEPT !.todo = snap.todo \ {c}]
    BY <1>12, <2>1 DEF SubmitsSnapshot, Submits, Snapshots
  <2>3. snap'.todo = snap.todo \ {c} /\ snap'.now = snap.now /\ snap'.pc = snap.pc
    BY <2>1, <2>2 DEF Snapshots
  <2>4. UNCHANGED <<link, covered, conn, stream>>
    BY <1>12 DEF SubmitsSnapshot, controller
  <2>5. \A d \in Conns : Caught(d) => Caught(d)'
    BY <2>2, <2>4 DEF Caught
  <2>6. Caught(c)'
    BY <2>2 DEF Caught
  <2>7. Current'
    BY <2>1, <2>3, <2>4 DEF NoGap, Current
  <2>8. Overlap'
    BY <1>1, <2>1, <2>3, <2>4, <2>5, <2>6 DEF NoGap, Overlap
  <2>9. NothingMissed'
    BY <1>1, <2>4, <2>5 DEF NoGap, NothingMissed, Caught
  <2> QED
    BY <2>7, <2>8, <2>9 DEF NoGap
<1>13. CASE EndsSnapshot
  <2>1. /\ snap # None /\ snap.pc = "submitting" /\ snap.todo = {} /\ snap' = None
        /\ covered' = (covered \/ snap.now)
        /\ UNCHANGED <<link, conn, stream, submitted>>
    BY <1>13 DEF EndsSnapshot, controller, captured
  <2>2. NothingMissed'
    BY <1>1, <2>1 DEF NoGap, NothingMissed, Overlap, Caught
  <2> QED
    BY <2>1, <2>2 DEF NoGap, Current, Overlap
<1>14. CASE GivesSnapshotUp
  <2>1. snap' = None /\ UNCHANGED <<link, covered, conn, stream, submitted>>
    BY <1>14 DEF GivesSnapshotUp, controller, captured
  <2> QED
    BY <1>1, <2>1 DEF NoGap, Current, Overlap, NothingMissed
<1>15. CASE \/ Cancels \/ WakesUp \/ WakesByTicker \/ Marshals \/ Writes \/ WriteFails
            \/ UNCHANGED vars
  <2>1. UNCHANGED <<submitted, stream, snapshot, link, conn>>
    BY <1>15 DEF Cancels, WakesUp, WakesByTicker, Marshals, Writes, WriteFails, vars, snapshot,
                 controller, captured
  <2> QED
    BY <1>2, <2>1
<1> QED
  BY <1>3, <1>4, <1>5, <1>6, <1>7, <1>8, <1>9, <1>10, <1>11, <1>12, <1>13, <1>14, <1>15
  DEF Next

----------------------------------------------------------------------------
(* The theorems *)

LEMMA Invariants == Spec => [](Typed /\ OnlyFinal /\ Selected /\ NoGap)
<1>1. Init => Typed /\ OnlyFinal /\ Selected /\ NoGap
  <2>1. Init => OnlyFinal /\ Selected /\ NoGap
    BY DEF Init, OnlyFinal, Selected, NoGap, Current, Overlap, NothingMissed
  <2> QED
    BY <2>1, TypedInit
<1>2. /\ Typed /\ OnlyFinal /\ Selected /\ NoGap /\ [Next]_vars
      => (Typed /\ OnlyFinal /\ Selected /\ NoGap)'
  BY TypedStep, OnlyFinalStep, NoGapStep
<1> QED
  BY <1>1, <1>2, PTL DEF Spec

\* Every variable keeps its type; runInstance never waits less than the jittered initial
\* delay or, after a refusal, the floor, nor more than the jittered maximum or the floor,
\* however often streams break.
THEOREM DelaysBounded == Spec => []TypeOK
<1>1. Typed => TypeOK
  BY DEF Typed, ControllerTyped, LinkTyped, DelayTyped, SnapshotTyped, StatusTyped, Reporting,
         Status, Snapshots, TypeOK
<1> QED
  BY <1>1, Invariants, PTL

\* Only domains of connections under the final rule reach the pipeline, and of failed
\* attempts under it if they are wanted, whatever names and errors the lines contain, unless
\* one of them holds a marker: parseLogPayload finds the host of the connection between the
\* markers, never one that an error mentions, and the snapshot filters by the rule.
THEOREM SubmitsOnlyFinal == Spec => []OnlyFinal
BY Invariants, PTL

\* Once the snapshot of a stream is complete, no open connection of the final rule has
\* slipped between stream and snapshot: the stream is opened first, and an older snapshot
\* that still holds the slot does not count for the new stream.
THEOREM StreamAndSnapshotOverlap == Spec => []NothingMissed
<1>1. NoGap => NothingMissed
  BY DEF NoGap
<1> QED
  BY <1>1, Invariants, PTL
=============================================================================
