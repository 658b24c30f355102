--------------------------- MODULE ArchiveProofs ---------------------------
(***************************************************************************)
(* What holds of DataArchive for every value of its constants, proved with *)
(* TLAPS: types, and that between requests the checkpoint never makes the  *)
(* sender skip a line, nor refuse to start unless a pair of files that     *)
(* does not fit was put back.                                              *)
(***************************************************************************)
EXTENDS DataArchive, SequenceTheorems, TLAPS

----------------------------------------------------------------------------
(* Types *)

Pcs == {"idle", "read", "read_state", "stop", "truncate", "own_output", "remove_state",
        "purge", "purge_state", "settings", "output", "state", "own", "start", "confirm"}
Applying == {"purge", "purge_state", "settings", "output", "state", "own"}
Counters == [lines : 0..MaxLines, requests : 0..MaxRequests, mishaps : 0..MaxMishaps]

\* No sequence is longer than n, the number of lines collected so far.
Short(o, n) == o # None => Len(o) <= n

FilesTyped == /\ enabled \in BOOLEAN
              /\ out \in Outputs /\ Short(out, used.lines)
              /\ ckpt \in Checkpoints
              /\ owned \subseteq {"out", "ckpt"}

ClientTyped == /\ svc \in BOOLEAN
               /\ client \in Clients \cup {None}
               /\ client # None => /\ Short(client.log, used.lines)
                                  /\ client.sent <= Len(client.log)

\* An archive, or none.
ArchiveTyped(s, n) == s \in Archives \cup {None} /\ (s # None => Short(s.out, n))

\* A request of that kind gets that far, with the new files or with those from before.
Directed(pc, kind, src) ==
  /\ pc \in {"read", "read_state"} => src = "new" /\ kind \in {"clear", "backup", "restore"}
  /\ pc \notin {"idle", "read", "read_state"}
       => src \in {"new", "pre"} /\ kind \in {"clear", "restore"}
  /\ pc = "stop" => src = "new"
  /\ pc \in {"truncate", "own_output", "remove_state"} => src = "new" /\ kind = "clear"
  /\ pc \in {"purge", "purge_state", "settings"} => kind = "restore"
  /\ pc \in {"output", "state", "own"} => src = "pre" \/ kind = "restore"

\* A request has what its next steps use.
RequestTyped ==
  /\ rpc \in [pc : Pcs, kind : {"clear", "backup", "restore", None},
              new : Archives \cup {None}, pre : Archives \cup {None},
              src : {"new", "pre", None}]
  /\ ArchiveTyped(rpc.new, used.lines) /\ ArchiveTyped(rpc.pre, used.lines)
  /\ rpc.kind = "restore" => rpc.new # None
  /\ rpc.pc \notin {"idle", "read"} => rpc.pre # None
  /\ Directed(rpc.pc, rpc.kind, rpc.src)

HistoryTyped == /\ ArchiveTyped(archive, used.lines)
                /\ used \in Counters
                /\ handled \subseteq Lines
                /\ answer \in {"ok", "error", None}
                /\ torn \in BOOLEAN /\ cut \in BOOLEAN /\ astray \in BOOLEAN
                /\ broken \in BOOLEAN /\ lost \in BOOLEAN
                /\ other \in {"idle", "init"}

Typed == FilesTyped /\ ClientTyped /\ RequestTyped /\ HistoryTyped

LEMMA NoneApart == /\ None \notin Nat /\ MaxLines \in Nat
                   /\ None \notin Archives /\ None \notin Clients
                   /\ None \notin {"clear", "backup", "restore"}
BY ArchiveAssumption

\* The outputs are the sequences of at most MaxLines lines.
LEMMA OutputsBounded ==
  /\ \A o \in Outputs \ {None} : o \in Seq(Lines) /\ Len(o) \in Nat /\ Len(o) <= MaxLines
  /\ \A o \in Seq(Lines) : Len(o) <= MaxLines => o \in Outputs \ {None}
<1>1. MaxLines \in Nat /\ None \notin SeqOf(Lines, MaxLines)
  BY ArchiveAssumption
<1>2. ASSUME NEW o \in Outputs \ {None}
      PROVE  o \in Seq(Lines) /\ Len(o) \in Nat /\ Len(o) <= MaxLines
  <2>1. PICK m \in 0..MaxLines : o \in [1..m -> Lines]
    BY <1>2 DEF Outputs, SeqOf
  <2>2. o \in Seq(Lines) /\ Len(o) = m
    BY <1>1, <2>1
  <2> QED
    BY <1>1, <2>1, <2>2
<1>3. ASSUME NEW o \in Seq(Lines), Len(o) <= MaxLines
      PROVE  o \in Outputs \ {None}
  <2>1. Len(o) \in 0..MaxLines /\ o \in [1..Len(o) -> Lines]
    BY <1>1, <1>3
  <2>2. o \in SeqOf(Lines, MaxLines)
    BY <2>1 DEF SeqOf
  <2> QED
    BY <1>1, <2>2 DEF Outputs
<1> QED
  BY <1>2, <1>3

LEMMA EmptyOutput == <<>> \in Outputs \ {None} /\ \A n \in Nat : Short(<<>>, n)
<1>1. <<>> \in Seq(Lines) /\ Len(<<>>) = 0
  OBVIOUS
<1>2. \A n \in Nat : 0 <= n
  OBVIOUS
<1>3. <<>> \in Outputs \ {None}
  BY <1>1, <1>2, OutputsBounded, NoneApart
<1> QED
  BY <1>1, <1>2, <1>3 DEF Short

\* A counter that a step may raise.
LEMMA CountersTyped ==
  ASSUME used \in Counters,
         \/ UNCHANGED used \/ Mishap
         \/ used.lines < MaxLines /\ Spent("lines")
         \/ used.requests < MaxRequests /\ Spent("requests")
  PROVE  /\ used' \in Counters
         /\ used.lines \in Nat /\ used'.lines \in Nat /\ used.lines <= used'.lines
         /\ Spent("lines") => used'.lines = used.lines + 1
<1>1. MaxRequests \in Nat /\ MaxMishaps \in Nat /\ MaxLines \in Nat
  BY ArchiveAssumption
<1>2. /\ used.lines \in 0..MaxLines /\ used.requests \in 0..MaxRequests
      /\ used.mishaps \in 0..MaxMishaps
  BY DEF Counters
<1>3. Spent("lines") => used'.lines = used.lines + 1
  BY DEF Spent, Counters
<1>4. CASE UNCHANGED used
  BY <1>1, <1>2, <1>3, <1>4
<1>5. CASE Mishap
  <2>1. used' = [used EXCEPT !["mishaps"] = used.mishaps + 1] /\ used.mishaps + 1 \in 0..MaxMishaps
    BY <1>1, <1>2, <1>5 DEF Mishap, Spent
  <2>2. used' \in Counters /\ used'.lines = used.lines
    BY <2>1 DEF Counters
  <2> QED
    BY <1>1, <1>2, <1>3, <2>2
<1>6. CASE used.lines < MaxLines /\ Spent("lines")
  <2>1. used' = [used EXCEPT !["lines"] = used.lines + 1] /\ used.lines + 1 \in 0..MaxLines
    BY <1>1, <1>2, <1>6 DEF Spent
  <2>2. used' \in Counters /\ used'.lines = used.lines + 1
    BY <2>1 DEF Counters
  <2> QED
    BY <1>1, <1>2, <1>3, <2>2
<1>7. CASE used.requests < MaxRequests /\ Spent("requests")
  <2>1. /\ used' = [used EXCEPT !["requests"] = used.requests + 1]
        /\ used.requests + 1 \in 0..MaxRequests
    BY <1>1, <1>2, <1>7 DEF Spent
  <2>2. used' \in Counters /\ used'.lines = used.lines
    BY <2>1 DEF Counters
  <2> QED
    BY <1>1, <1>2, <1>3, <2>2
<1> QED
  BY <1>4, <1>5, <1>6, <1>7

\* What is short stays short.
LEMMA ShortKept ==
  ASSUME NEW m \in Nat, NEW n \in Nat, m <= n
  PROVE  /\ \A o \in Outputs : Short(o, m) => Short(o, n)
         /\ \A s \in Archives \cup {None} : ArchiveTyped(s, m) => ArchiveTyped(s, n)
<1>1. \A o \in Outputs : Short(o, m) => Short(o, n)
  BY OutputsBounded DEF Short
<1> QED
  BY <1>1 DEF ArchiveTyped, Archives

\* A step that leaves a part alone keeps its type.
LEMMA PartsKept ==
  ASSUME Typed, used' \in Counters, used.lines \in Nat, used'.lines \in Nat,
         used.lines <= used'.lines
  PROVE  /\ UNCHANGED <<out, ckpt, owned>> /\ enabled' \in BOOLEAN => FilesTyped'
         /\ UNCHANGED client /\ svc' \in BOOLEAN => ClientTyped'
         /\ UNCHANGED rpc => RequestTyped'
         /\ ArchiveTyped(archive, used'.lines)
         /\ ArchiveTyped(rpc.new, used'.lines) /\ ArchiveTyped(rpc.pre, used'.lines)
<1>1. UNCHANGED <<out, ckpt, owned>> /\ enabled' \in BOOLEAN => FilesTyped'
  BY ShortKept DEF Typed, FilesTyped
<1>2. UNCHANGED client /\ svc' \in BOOLEAN => ClientTyped'
  BY ShortKept DEF Typed, ClientTyped, Clients
<1>3. ArchiveTyped(archive, used'.lines)
  BY ShortKept DEF Typed, HistoryTyped, ArchiveTyped
<1>4. ArchiveTyped(rpc.new, used'.lines) /\ ArchiveTyped(rpc.pre, used'.lines)
  BY ShortKept DEF Typed, RequestTyped, ArchiveTyped
<1>5. UNCHANGED rpc => RequestTyped'
  BY <1>4 DEF Typed, RequestTyped
<1> QED
  BY <1>1, <1>2, <1>3, <1>4, <1>5

\* A request that goes on.
LEMMA RequestMoves ==
  ASSUME RequestTyped, ArchiveTyped(rpc.new, used'.lines), ArchiveTyped(rpc.pre, used'.lines),
         rpc.pc \notin {"idle", "read"},
         NEW pc \in Pcs \ {"idle", "read"}, NEW src \in {rpc.src, "pre"},
         Directed(pc, rpc.kind, src),
         \/ rpc' = [rpc EXCEPT !.pc = pc] /\ src = rpc.src
         \/ rpc' = [rpc EXCEPT !.pc = pc, !.src = src]
  PROVE  /\ RequestTyped'
         /\ rpc'.pc = pc /\ rpc'.kind = rpc.kind /\ rpc'.new = rpc.new /\ rpc'.pre = rpc.pre
         /\ rpc'.src = src
<1> DEFINE T == [pc : Pcs, kind : {"clear", "backup", "restore", None},
                 new : Archives \cup {None}, pre : Archives \cup {None},
                 src : {"new", "pre", None}]
<1>1. rpc \in T /\ pc \in Pcs
  BY DEF RequestTyped
<1>2. /\ rpc' \in T
      /\ rpc'.pc = pc /\ rpc'.kind = rpc.kind /\ rpc'.new = rpc.new /\ rpc'.pre = rpc.pre
      /\ rpc'.src = src
  BY <1>1
<1> QED
  BY <1>2 DEF RequestTyped

LEMMA RequestDone ==
  ASSUME rpc' = NoRequest, NEW n, used' = n
  PROVE  RequestTyped' /\ rpc'.pc = "idle"
<1> DEFINE T == [pc : Pcs, kind : {"clear", "backup", "restore", None},
                 new : Archives \cup {None}, pre : Archives \cup {None},
                 src : {"new", "pre", None}]
<1>1. /\ rpc' \in T
      /\ rpc'.pc = "idle" /\ rpc'.kind = None /\ rpc'.new = None /\ rpc'.pre = None
  BY DEF NoRequest, Pcs
<1> QED
  BY <1>1, NoneApart DEF RequestTyped, ArchiveTyped, Directed, Applying

LEMMA TypedInit == Init => Typed
<1> SUFFICES ASSUME Init PROVE Typed
  OBVIOUS
<1>1. used \in Counters
  <2>1. 0 \in 0..MaxLines /\ 0 \in 0..MaxRequests /\ 0 \in 0..MaxMishaps
    BY ArchiveAssumption
  <2> QED
    BY <2>1 DEF Init, Counters
<1>2. FilesTyped
  BY DEF Init, FilesTyped, Outputs, Checkpoints, Short
<1>3. ClientTyped
  <2>1. svc \in BOOLEAN
    BY DEF Init
  <2> QED
    BY <2>1 DEF Init, ClientTyped
<1>4. RequestTyped
  BY NoneApart DEF Init, NoRequest, RequestTyped, ArchiveTyped, Directed, Applying, Pcs
<1>5. HistoryTyped
  <2>1. ArchiveTyped(archive, used.lines)
    BY DEF Init, ArchiveTyped, Archives, Outputs, Checkpoints, Short
  <2>2. /\ torn \in BOOLEAN /\ cut \in BOOLEAN /\ astray \in BOOLEAN
        /\ broken \in BOOLEAN /\ lost \in BOOLEAN
    BY DEF Init
  <2> QED
    BY <1>1, <2>1, <2>2 DEF Init, HistoryTyped
<1> QED
  BY <1>2, <1>3, <1>4, <1>5 DEF Typed

\* The client opens its files, collects and delivers.
LEMMA TypedClient ==
  ASSUME Typed, ClientOpens \/ Collects \/ Delivers
  PROVE  Typed'
<1>1. /\ used' \in Counters
      /\ used.lines \in Nat /\ used'.lines \in Nat /\ used.lines <= used'.lines
      /\ Spent("lines") => used'.lines = used.lines + 1
  BY CountersTyped DEF ClientOpens, Collects, Delivers, Typed, HistoryTyped
<1>2. RequestTyped' /\ ArchiveTyped(archive, used'.lines) /\ svc' = svc
  BY <1>1, PartsKept DEF ClientOpens, Collects, Delivers
<1>3. CASE ClientOpens
  <2> DEFINE o == Found
             c == Offset
  <2>1. o \in Outputs \ {None} /\ Short(o, used.lines)
    BY <1>1, EmptyOutput DEF Typed, FilesTyped, Found
  <2>2. o \in Seq(Lines) /\ Len(o) \in 0..MaxLines
    BY <2>1, OutputsBounded, NoneApart
  <2>3. /\ Fits(c, o) /\ out' = o /\ ckpt' = c
        /\ client' = [log |-> o, linked |-> TRUE, sent |-> c, young |-> rpc.pc = "confirm"]
        /\ handled' = IF ckpt = None THEN handled \cup {o[i] : i \in 1..c} ELSE handled
        /\ owned' = {"out", "ckpt"} /\ astray' = (astray \/ Replacing)
        /\ UNCHANGED <<enabled, svc, other, archive, used, answer, torn, cut, broken, lost>>
    BY <1>3 DEF ClientOpens, CanOpen, starts
  <2>4. c \in 0..MaxLines
    BY <2>2, NoneApart DEF Offset, Typed, FilesTyped, Checkpoints
  <2>5. c <= Len(o)
    BY <2>3, <2>4, NoneApart DEF Fits
  <2>6. handled' \subseteq Lines
    BY <2>2, <2>3, <2>4, <2>5 DEF Typed, HistoryTyped
  <2>7. astray' \in BOOLEAN
    BY <2>3 DEF Typed, HistoryTyped, Replacing
  <2>8. (rpc.pc = "confirm") \in BOOLEAN
    OBVIOUS
  <2> DEFINE young == rpc.pc = "confirm"
  <2>9. /\ client' = [log |-> o, linked |-> TRUE, sent |-> c, young |-> young]
        /\ young \in BOOLEAN
    BY <2>3, <2>8
  <2> HIDE DEF o, c, young
  <2>10. FilesTyped'
    BY <1>3, <2>1, <2>3, <2>4 DEF Typed, FilesTyped, Checkpoints
  <2>11. ClientTyped'
    <3>1. client' \in Clients /\ client'.log = o /\ client'.sent = c
      BY <2>1, <2>4, <2>9 DEF Clients
    <3>2. svc' \in BOOLEAN
      BY <1>2 DEF Typed, ClientTyped
    <3> QED
      BY <2>1, <2>3, <2>5, <3>1, <3>2 DEF ClientTyped
  <2> QED
    BY <1>2, <1>3, <2>3, <2>6, <2>7, <2>10, <2>11 DEF ClientOpens, Typed, HistoryTyped
<1>4. CASE Collects
  <2> DEFINE log == Append(client.log, used.lines + 1)
  <2>1. /\ client \in Clients /\ Short(client.log, used.lines)
        /\ client.sent <= Len(client.log) /\ used.lines < MaxLines
        /\ used'.lines = used.lines + 1
    BY <1>1, <1>4 DEF Collects, Typed, ClientTyped
  <2>2. client.log \in Seq(Lines) /\ Len(client.log) \in Nat /\ Len(client.log) <= used.lines
    BY <2>1, OutputsBounded DEF Clients, Short
  <2>3. used.lines + 1 \in Lines
    BY <1>1, <2>1, NoneApart DEF Lines
  <2>4. log \in Seq(Lines) /\ Len(log) = Len(client.log) + 1
    BY <2>2, <2>3
  <2>5. log \in Outputs \ {None} /\ Short(log, used'.lines) /\ client.sent <= Len(log)
    <3>1. client.sent \in Nat
      BY <2>1, NoneApart DEF Clients
    <3>2. Len(log) <= used'.lines /\ Len(log) <= MaxLines /\ client.sent <= Len(log)
      BY <1>1, <2>1, <2>2, <2>4, <3>1, NoneApart
    <3> QED
      BY <2>4, <3>2, OutputsBounded DEF Short
  <2>6. client' = [client EXCEPT !.log = log]
    BY <1>4 DEF Collects
  <2> HIDE DEF log
  <2>7. client' \in Clients /\ client'.log = log /\ client'.sent = client.sent
    BY <2>1, <2>5, <2>6 DEF Clients
  <2>8. ClientTyped'
    BY <1>2, <2>5, <2>7 DEF Typed, ClientTyped
  <2>9. FilesTyped'
    <3>1. Short(out, used'.lines)
      BY <1>1, ShortKept DEF Typed, FilesTyped
    <3> QED
      BY <1>4, <2>5, <2>7, <3>1 DEF Collects, Typed, FilesTyped
  <2> QED
    BY <1>1, <1>2, <1>4, <2>8, <2>9 DEF Collects, Typed, HistoryTyped, history, starts
<1>5. CASE Delivers
  <2>1. /\ client \in Clients /\ client.sent < Len(client.log)
        /\ Short(client.log, used.lines)
        /\ client' = [client EXCEPT !.sent = client.sent + 1]
    BY <1>5 DEF Delivers, Typed, ClientTyped
  <2>2. /\ client.log \in Seq(Lines) /\ Len(client.log) \in Nat /\ Len(client.log) <= MaxLines
        /\ client.sent \in Nat
    BY <2>1, OutputsBounded, NoneApart DEF Clients
  <2>3. client.sent + 1 \in 1..Len(client.log) /\ client.sent + 1 \in 0..MaxLines
    BY <2>1, <2>2, NoneApart
  <2>4. client' \in Clients /\ client'.log = client.log /\ client'.sent = client.sent + 1
    BY <2>1, <2>3 DEF Clients
  <2>5. ClientTyped'
    BY <1>2, <1>5, <2>1, <2>2, <2>3, <2>4 DEF Delivers, Typed, ClientTyped
  <2>6. handled' \subseteq Lines
    BY <1>5, <2>2, <2>3, <2>4 DEF Delivers, Typed, HistoryTyped
  <2>7. FilesTyped'
    BY <1>5, <2>3, <2>4 DEF Delivers, Typed, FilesTyped, Checkpoints
  <2> QED
    BY <1>2, <1>5, <2>5, <2>6, <2>7 DEF Delivers, Typed, HistoryTyped, history, starts
<1> QED
  BY <1>3, <1>4, <1>5

\* What a step of a request leaves alone.
LEMMA TypedRequest ==
  ASSUME Typed, UNCHANGED used \/ Mishap \/ (used.requests < MaxRequests /\ Spent("requests"))
  PROVE  /\ used' \in Counters /\ used'.lines = used.lines
         /\ UNCHANGED <<out, ckpt, owned>> /\ enabled' \in BOOLEAN => FilesTyped'
         /\ UNCHANGED client /\ svc' \in BOOLEAN => ClientTyped'
         /\ client' = None /\ svc' \in BOOLEAN => ClientTyped'
         /\ rpc' = NoRequest => RequestTyped'
         /\ ArchiveTyped(archive, used'.lines)
         /\ ArchiveTyped(rpc.new, used'.lines) /\ ArchiveTyped(rpc.pre, used'.lines)
         /\ RequestTyped
<1>1. /\ used' \in Counters
      /\ used.lines \in Nat /\ used'.lines \in Nat /\ used.lines <= used'.lines
  BY CountersTyped DEF Typed, HistoryTyped
<1>2. used'.lines = used.lines
  BY DEF Mishap, Spent, Typed, HistoryTyped, Counters
<1>3. client' = None /\ svc' \in BOOLEAN => ClientTyped'
  BY DEF ClientTyped
<1>4. rpc' = NoRequest => RequestTyped'
  BY RequestDone
<1> QED
  BY <1>1, <1>2, <1>3, <1>4, PartsKept DEF Typed

\* A request begins and makes its copy.
LEMMA TypedReads ==
  ASSUME Typed,
         \/ \E kind \in {"clear", "backup", "restore"} : Begins(kind)
         \/ ReadsOutput \/ ReadsState \/ Stops \/ StopFails
  PROVE  Typed'
<1>1. ASSUME NEW kind \in {"clear", "backup", "restore"}, Begins(kind)
      PROVE  Typed'
  <2>1. /\ used' \in Counters /\ used'.lines = used.lines
        /\ FilesTyped' /\ ClientTyped' /\ ArchiveTyped(archive, used'.lines)
    BY <1>1, TypedRequest DEF Begins, disk, Typed, FilesTyped, ClientTyped
  <2>2. RequestTyped'
    <3>1. /\ rpc' = [pc |-> "read", kind |-> kind, new |-> archive, pre |-> None, src |-> "new"]
          /\ kind = "restore" => archive # None
          /\ archive \in Archives \cup {None}
      BY <1>1 DEF Begins, Typed, HistoryTyped, ArchiveTyped
    <3> QED
      BY <2>1, <3>1 DEF RequestTyped, ArchiveTyped, Directed, Applying, Pcs
  <2> QED
    BY <1>1, <2>1, <2>2 DEF Begins, Typed, HistoryTyped, history, starts
<1>2. CASE ReadsOutput
  <2>1. /\ used' \in Counters /\ used'.lines = used.lines
        /\ FilesTyped' /\ ClientTyped' /\ ArchiveTyped(archive, used'.lines)
        /\ RequestTyped
    BY <1>2, TypedRequest DEF ReadsOutput, disk, Typed, FilesTyped, ClientTyped
  <2> DEFINE pre == [enabled |-> enabled, out |-> out, ckpt |-> None]
  <2>2. pre \in Archives /\ ArchiveTyped(pre, used'.lines)
    BY <2>1 DEF Archives, Checkpoints, ArchiveTyped, Typed, FilesTyped
  <2>3. rpc.pc = "read" /\ rpc' = [rpc EXCEPT !.pc = "read_state", !.pre = pre]
    BY <1>2 DEF ReadsOutput
  <2> HIDE DEF pre
  <2>4. RequestTyped'
    BY <2>1, <2>2, <2>3, NoneApart, TypedRequest DEF RequestTyped, Directed, Applying, Pcs
  <2> QED
    BY <1>2, <2>1, <2>4 DEF ReadsOutput, Typed, HistoryTyped, history, starts
<1>3. CASE ReadsState
  <2>1. /\ used' \in Counters /\ used'.lines = used.lines
        /\ FilesTyped' /\ ClientTyped' /\ ArchiveTyped(archive, used'.lines)
        /\ RequestTyped
    BY <1>3, TypedRequest DEF ReadsState, disk, Typed, FilesTyped, ClientTyped
  <2> DEFINE pre == [rpc.pre EXCEPT !.ckpt = ckpt]
  <2>2. pre \in Archives /\ ArchiveTyped(pre, used'.lines)
    <3>1. rpc.pre \in Archives /\ ArchiveTyped(rpc.pre, used.lines) /\ ckpt \in Checkpoints
      BY <1>3, <2>1 DEF ReadsState, RequestTyped, ArchiveTyped, Typed, FilesTyped
    <3>2. pre \in Archives /\ pre.out = rpc.pre.out
      BY <3>1 DEF Archives
    <3> QED
      BY <2>1, <3>1, <3>2, NoneApart DEF ArchiveTyped
  <2>3. CASE rpc.kind = "backup"
    <3>1. RequestTyped' /\ archive' = pre /\ answer' = "ok"
      BY <1>3, <2>3, TypedRequest DEF ReadsState, Answers
    <3> HIDE DEF pre
    <3> QED
      BY <1>3, <2>1, <2>2, <3>1 DEF ReadsState, Typed, HistoryTyped, history, starts
  <2>4. CASE rpc.kind # "backup"
    <3>1. /\ rpc.pc = "read_state" /\ rpc' = [rpc EXCEPT !.pc = "stop", !.pre = pre]
          /\ UNCHANGED <<archive, answer>>
      BY <1>3, <2>4 DEF ReadsState
    <3> HIDE DEF pre
    <3>2. /\ rpc' \in [pc : Pcs, kind : {"clear", "backup", "restore", None},
                        new : Archives \cup {None}, pre : Archives \cup {None},
                        src : {"new", "pre", None}]
          /\ rpc'.pc = "stop" /\ rpc'.kind = rpc.kind /\ rpc'.new = rpc.new
          /\ rpc'.pre = pre /\ rpc'.src = rpc.src
      BY <2>1, <2>2, <3>1 DEF RequestTyped, Pcs
    <3>3. rpc.src = "new" /\ rpc.kind \in {"clear", "restore"}
      BY <2>1, <2>4, <3>1 DEF RequestTyped, Directed
    <3>4. RequestTyped'
      BY <2>1, <2>2, <3>2, <3>3, NoneApart DEF RequestTyped, Directed, Applying
    <3> QED
      BY <1>3, <2>1, <3>1, <3>4 DEF ReadsState, Typed, HistoryTyped, history, starts
  <2> QED
    BY <2>3, <2>4
<1>4. CASE Stops
  <2>1. /\ used' \in Counters /\ used'.lines = used.lines
        /\ FilesTyped' /\ ArchiveTyped(archive, used'.lines)
        /\ RequestTyped
        /\ ArchiveTyped(rpc.new, used'.lines) /\ ArchiveTyped(rpc.pre, used'.lines)
    BY <1>4, TypedRequest DEF Stops, disk, Typed, FilesTyped
  <2>2. svc' \in BOOLEAN
    BY <1>4 DEF Stops
  <2>3. ClientTyped'
    BY <1>4, <2>2, TypedRequest DEF Stops
  <2>4. RequestTyped'
    <3> DEFINE pc == IF rpc.kind = "clear" THEN "truncate" ELSE "purge"
    <3>1. /\ rpc.pc = "stop" /\ rpc.pc \notin {"idle", "read"}
          /\ rpc' = [rpc EXCEPT !.pc = pc]
      BY <1>4 DEF Stops, To
    <3>2. Directed(pc, rpc.kind, rpc.src) /\ pc \in Pcs \ {"idle", "read"}
      BY <2>1, <3>1 DEF RequestTyped, Directed, Applying, Pcs
    <3> HIDE DEF pc
    <3> QED
      BY <2>1, <3>1, <3>2, RequestMoves
  <2> QED
    BY <1>4, <2>1, <2>3, <2>4 DEF Stops, Typed, HistoryTyped, history, starts
<1>5. CASE StopFails
  <2>1. /\ used' \in Counters /\ used'.lines = used.lines
        /\ FilesTyped' /\ ClientTyped' /\ ArchiveTyped(archive, used'.lines)
        /\ RequestTyped' /\ answer' = "error"
    BY <1>5, TypedRequest DEF StopFails, Answers, disk, Typed, FilesTyped, ClientTyped
  <2> QED
    BY <1>5, <2>1 DEF StopFails, Typed, HistoryTyped, history, starts
<1> QED
  BY <1>1, <1>2, <1>3, <1>4, <1>5

\* A file is replaced.
LEMMA ReplaceTyped ==
  ASSUME Typed, NEW o \in Outputs, Short(o, used.lines), Replace(o), UNCHANGED <<used, svc>>,
         ckpt' \in Checkpoints, enabled' = enabled
  PROVE  FilesTyped' /\ ClientTyped' /\ astray' \in BOOLEAN
<1>1. FilesTyped'
  BY DEF Replace, Typed, FilesTyped
<1>2. ClientTyped'
  <2>1. CASE client = None
    BY <2>1 DEF Replace, Typed, ClientTyped
  <2>2. CASE client # None
    <3>1. client \in Clients /\ client' = [client EXCEPT !.linked = FALSE]
      BY <2>2 DEF Replace, Typed, ClientTyped
    <3>2. client' \in Clients /\ client'.log = client.log /\ client'.sent = client.sent
      BY <3>1 DEF Clients
    <3> QED
      BY <2>2, <3>2 DEF Typed, ClientTyped
  <2> QED
    BY <2>1, <2>2
<1>3. astray' \in BOOLEAN
  BY DEF Replace, Touched, Typed, HistoryTyped
<1> QED
  BY <1>1, <1>2, <1>3

\* What is put back, or put in its place.
LEMMA SourceTyped ==
  ASSUME RequestTyped, rpc.pc \in Applying
  PROVE  /\ Source \in Archives
         /\ Source.enabled \in BOOLEAN /\ Source.ckpt \in Checkpoints
         /\ Source.out \in Outputs /\ Short(Source.out, used.lines)
<1>1. /\ ArchiveTyped(rpc.new, used.lines) /\ ArchiveTyped(rpc.pre, used.lines)
      /\ rpc.pre # None
      /\ rpc.src = "new" => rpc.new # None
  BY DEF RequestTyped, Directed, Applying
<1> QED
  BY <1>1 DEF Source, ArchiveTyped, Archives

\* The files are replaced, one after the other.
LEMMA TypedReplacing ==
  ASSUME Typed,
         \/ Truncates \/ OwnsOutput \/ RemovesState
         \/ PurgesOutput \/ PurgesState \/ AppliesSettings \/ AppliesOutput \/ AppliesState
         \/ OwnsFiles
  PROVE  Typed'
<1> USE DEF starts, history
<1>1. UNCHANGED <<used, svc, other, archive, handled, answer, cut, broken, lost>>
  BY DEF Truncates, OwnsOutput, RemovesState, PurgesOutput, PurgesState, AppliesSettings,
         AppliesOutput, AppliesState, OwnsFiles
<1>2. /\ used' \in Counters /\ used'.lines = used.lines
      /\ ArchiveTyped(archive, used'.lines)
      /\ ArchiveTyped(rpc.new, used'.lines) /\ ArchiveTyped(rpc.pre, used'.lines)
      /\ RequestTyped /\ svc' \in BOOLEAN
      /\ UNCHANGED <<out, ckpt, owned>> /\ enabled' \in BOOLEAN => FilesTyped'
      /\ UNCHANGED client => ClientTyped'
  BY <1>1, TypedRequest DEF Typed, ClientTyped
<1>3. RequestTyped'
  <2>1. ASSUME NEW pc \in Pcs \ {"idle", "read"}, To(pc), rpc.pc \notin {"idle", "read"},
               Directed(pc, rpc.kind, rpc.src)
        PROVE  RequestTyped'
    BY <1>2, <2>1, RequestMoves DEF To
  <2>2. CASE Truncates \/ OwnsOutput \/ RemovesState
    <3>1. \E pc \in {"own_output", "remove_state", "start"} :
            /\ To(pc) /\ rpc.pc \in {"truncate", "own_output", "remove_state"}
      BY <2>2 DEF Truncates, OwnsOutput, RemovesState
    <3> QED
      BY <1>2, <2>1, <3>1 DEF RequestTyped, Directed, Applying, Pcs
  <2>3. CASE PurgesOutput \/ PurgesState \/ AppliesSettings
    <3>1. \E pc \in {"purge_state", "settings", "output"} :
            To(pc) /\ rpc.pc \in {"purge", "purge_state", "settings"}
      BY <2>3 DEF PurgesOutput, PurgesState, AppliesSettings
    <3> QED
      BY <1>2, <2>1, <3>1 DEF RequestTyped, Directed, Pcs
  <2>4. CASE AppliesOutput \/ AppliesState \/ OwnsFiles
    <3>1. \E pc \in {"state", "own", "start"} : To(pc) /\ rpc.pc \in {"output", "state", "own"}
      BY <2>4 DEF AppliesOutput, AppliesState, OwnsFiles
    <3> QED
      BY <1>2, <2>1, <3>1 DEF RequestTyped, Directed, Pcs
  <2> QED
    BY <2>2, <2>3, <2>4
<1>4. ASSUME FilesTyped', ClientTyped', astray' \in BOOLEAN, torn' \in BOOLEAN
      PROVE  Typed'
  BY <1>1, <1>2, <1>3, <1>4 DEF Typed, HistoryTyped
<1>5. torn' \in BOOLEAN
  BY DEF Typed, HistoryTyped, Truncates, OwnsOutput, RemovesState, PurgesOutput, PurgesState,
         AppliesSettings, AppliesOutput, AppliesState, OwnsFiles
<1>6. /\ astray \in BOOLEAN /\ enabled \in BOOLEAN
      /\ ckpt \in Checkpoints /\ None \in Checkpoints /\ None \in Outputs /\ Short(None, used.lines)
      /\ <<>> \in Outputs /\ Short(<<>>, used.lines) /\ used.lines \in Nat
  BY EmptyOutput, NoneApart
  DEF Typed, HistoryTyped, FilesTyped, Checkpoints, Outputs, Short, Counters
<1>7. ASSUME NEW o \in Outputs, Short(o, used.lines), UNCHANGED <<enabled, ckpt>>,
             Replace(o) \/ UNCHANGED <<out, owned, astray, client>>
      PROVE  Typed'
  <2>1. CASE Replace(o)
    BY <1>1, <1>4, <1>5, <1>6, <1>7, <2>1, ReplaceTyped
  <2>2. CASE UNCHANGED <<out, owned, astray, client>>
    BY <1>2, <1>4, <1>5, <1>6, <1>7, <2>2
  <2> QED
    BY <1>7, <2>1, <2>2
<1>8. ASSUME UNCHANGED <<enabled, out, client>>, ckpt' \in Checkpoints,
             owned' \subseteq {"out", "ckpt"}, Touched \/ UNCHANGED astray
      PROVE  Typed'
  <2>1. FilesTyped' /\ ClientTyped'
    BY <1>1, <1>2, <1>6, <1>8 DEF Typed, FilesTyped
  <2>2. astray' \in BOOLEAN
    BY <1>6, <1>8 DEF Touched
  <2> QED
    BY <1>4, <1>5, <2>1, <2>2
<1>9. owned \subseteq {"out", "ckpt"}
  BY DEF Typed, FilesTyped
<1>10. CASE Truncates
  BY <1>6, <1>7, <1>10 DEF Truncates
<1>11. CASE OwnsOutput \/ OwnsFiles
  BY <1>6, <1>8, <1>9, <1>11 DEF OwnsOutput, OwnsFiles
<1>12. CASE RemovesState
  BY <1>6, <1>8, <1>9, <1>12 DEF RemovesState
<1>13. CASE PurgesOutput
  BY <1>6, <1>7, <1>13 DEF PurgesOutput
<1>14. CASE PurgesState
  <2>1. ckpt' \in Checkpoints /\ (Touched \/ UNCHANGED astray)
    BY <1>6, <1>14 DEF PurgesState
  <2> QED
    BY <1>8, <1>9, <1>14, <2>1 DEF PurgesState
<1>15. CASE AppliesSettings
  <2>1. enabled' \in BOOLEAN /\ UNCHANGED <<out, ckpt, owned, client, astray>>
    BY <1>2, <1>15, SourceTyped DEF AppliesSettings, Applying
  <2> QED
    BY <1>2, <1>4, <1>5, <1>6, <2>1
<1>16. CASE AppliesOutput
  <2>1. Source.out \in Outputs /\ Short(Source.out, used.lines)
    BY <1>2, <1>16, SourceTyped DEF AppliesOutput, Applying
  <2>2. /\ UNCHANGED <<enabled, ckpt>>
        /\ Replace(Source.out) \/ UNCHANGED <<out, owned, astray, client>>
    BY <1>16 DEF AppliesOutput
  <2> DEFINE o == Source.out
  <2>3. /\ o \in Outputs /\ Short(o, used.lines)
        /\ Replace(o) \/ UNCHANGED <<out, owned, astray, client>>
    BY <2>1, <2>2
  <2> HIDE DEF o
  <2> QED
    BY <1>7, <2>2, <2>3
<1>17. CASE AppliesState
  <2>1. Source.ckpt \in Checkpoints
    BY <1>2, <1>17, SourceTyped DEF AppliesState, Applying
  <2>2. /\ UNCHANGED <<enabled, out, client>> /\ ckpt' \in Checkpoints
        /\ owned' \subseteq {"out", "ckpt"} /\ (Touched \/ UNCHANGED astray)
    BY <1>6, <1>9, <1>17, <2>1 DEF AppliesState
  <2> QED
    BY <1>8, <2>2
<1> QED
  BY <1>10, <1>11, <1>12, <1>13, <1>14, <1>15, <1>16, <1>17

\* The service is started again, and what goes wrong.
LEMMA TypedStarts ==
  ASSUME Typed,
         \/ Starts \/ StartFails \/ Confirms \/ NotConfirmed \/ Fails
         \/ OutsideBegins \/ OutsideStarts \/ OutsideFails \/ PowerLoss
  PROVE  Typed'
<1> USE DEF starts, history
<1>1. UNCHANGED used \/ Mishap
  BY DEF Starts, StartFails, Confirms, NotConfirmed, Fails, OutsideBegins, OutsideStarts,
         OutsideFails, PowerLoss
<1>2. /\ used' \in Counters /\ used'.lines = used.lines
      /\ ArchiveTyped(archive, used'.lines)
      /\ ArchiveTyped(rpc.new, used'.lines) /\ ArchiveTyped(rpc.pre, used'.lines)
      /\ RequestTyped
      /\ UNCHANGED <<out, ckpt, owned>> /\ enabled' \in BOOLEAN => FilesTyped'
      /\ UNCHANGED client /\ svc' \in BOOLEAN => ClientTyped'
      /\ client' = None /\ svc' \in BOOLEAN => ClientTyped'
      /\ rpc' = NoRequest => RequestTyped'
  BY <1>1, TypedRequest
<1>3. ASSUME NEW pc \in Pcs \ {"idle", "read"}, rpc.pc \notin {"idle", "read", "read_state"},
             \/ To(pc) /\ Directed(pc, rpc.kind, rpc.src)
             \/ RollBack
      PROVE  RequestTyped'
  <2>1. CASE To(pc) /\ Directed(pc, rpc.kind, rpc.src)
    BY <1>2, <1>3, <2>1, RequestMoves DEF To
  <2>2. CASE RollBack
    <3> DEFINE back == IF rpc.kind = "clear" THEN "output" ELSE "purge"
    <3>1. rpc.kind \in {"clear", "restore"}
      BY <1>2, <1>3 DEF RequestTyped, Directed
    <3>2. Directed(back, rpc.kind, "pre") /\ back \in Pcs \ {"idle", "read"}
      BY <3>1 DEF Directed, Applying, Pcs
    <3>3. rpc' = [rpc EXCEPT !.pc = back, !.src = "pre"]
      BY <2>2 DEF RollBack
    <3> HIDE DEF back
    <3> QED
      BY <1>2, <1>3, <3>2, <3>3, RequestMoves
  <2> QED
    BY <1>3, <2>1, <2>2
<1>4. RequestTyped'
  <2>1. CASE Starts
    <3>1. rpc' = NoRequest \/ To("confirm")
      BY <2>1 DEF Starts, Answers
    <3>2. rpc.pc = "start"
      BY <2>1 DEF Starts
    <3>3. Directed("confirm", rpc.kind, rpc.src) /\ "confirm" \in Pcs \ {"idle", "read"}
      BY <1>2, <3>2 DEF RequestTyped, Directed, Applying, Pcs
    <3> QED
      BY <1>2, <1>3, <3>1, <3>2, <3>3
  <2>2. CASE StartFails \/ Confirms \/ NotConfirmed \/ PowerLoss
    BY <1>2, <1>3, <2>2 DEF StartFails, Confirms, NotConfirmed, PowerLoss, Answers, Pcs
  <2>3. CASE Fails
    <3>1. CASE RollBack
      BY <1>3, <2>3, <3>1 DEF Fails, Pcs
    <3>2. CASE rpc.src = "pre" /\ To(NextFile)
      <4>1. /\ NextFile \in {"state", "own", "start"}
            /\ rpc.pc \notin {"idle", "read", "read_state"}
        BY <1>2, <2>3, <3>2 DEF Fails, NextFile, RequestTyped, Directed
      <4>2. rpc.kind \in {"clear", "restore"}
        BY <1>2, <4>1 DEF RequestTyped, Directed
      <4> DEFINE pc == NextFile
      <4>3. /\ pc \in Pcs \ {"idle", "read"} /\ Directed(pc, rpc.kind, rpc.src) /\ To(pc)
        BY <3>2, <4>1, <4>2 DEF Directed, Applying, Pcs
      <4> HIDE DEF pc
      <4> QED
        BY <1>3, <4>1, <4>3
    <3> QED
      BY <2>3, <3>1, <3>2 DEF Fails
  <2>4. CASE OutsideBegins \/ OutsideStarts \/ OutsideFails
    <3>1. UNCHANGED rpc
      BY <2>4 DEF OutsideBegins, OutsideStarts, OutsideFails
    <3> QED
      BY <1>2, <3>1 DEF RequestTyped
  <2> QED
    BY <2>1, <2>2, <2>3, <2>4
<1>5. ASSUME FilesTyped', ClientTyped', answer' \in {"ok", "error", None},
             cut' \in BOOLEAN, broken' \in BOOLEAN, lost' \in BOOLEAN,
             other' \in {"idle", "init"}, UNCHANGED <<archive, handled, torn, astray>>
      PROVE  Typed'
  BY <1>2, <1>4, <1>5 DEF Typed, HistoryTyped
<1>6. /\ answer \in {"ok", "error", None} /\ cut \in BOOLEAN /\ broken \in BOOLEAN
      /\ lost \in BOOLEAN /\ other \in {"idle", "init"}
      /\ enabled \in BOOLEAN /\ svc \in BOOLEAN
  BY DEF Typed, HistoryTyped, FilesTyped, ClientTyped
<1>7. /\ Launches /\ UNCHANGED <<out, ckpt>> /\ enabled' \in BOOLEAN => FilesTyped' /\ ClientTyped'
      /\ Down /\ UNCHANGED disk => FilesTyped' /\ ClientTyped'
      /\ Down /\ UNCHANGED <<enabled, out, ckpt, owned>> => FilesTyped' /\ ClientTyped'
      /\ UNCHANGED <<enabled, out, ckpt, owned, svc, client>> => FilesTyped' /\ ClientTyped'
  <2>1. CASE Launches /\ UNCHANGED <<out, ckpt>> /\ enabled' \in BOOLEAN
    <3>1. svc' \in BOOLEAN /\ client' \in {client, None} /\ owned' = {"out", "ckpt"}
      BY <2>1 DEF Launches
    <3>2. ClientTyped'
      BY <1>2, <3>1
    <3>3. FilesTyped'
      BY <1>2, <2>1, <3>1 DEF Typed, FilesTyped
    <3> QED
      BY <3>2, <3>3
  <2>2. UNCHANGED disk => UNCHANGED <<enabled, out, ckpt, owned>>
    BY DEF disk
  <2>3. Down => client' = None /\ svc' \in BOOLEAN
    BY DEF Down
  <2> QED
    BY <1>2, <1>6, <2>1, <2>2, <2>3
<1>8. CASE Starts
  <2>1. answer' \in {"ok", "error", None} /\ UNCHANGED <<enabled, out, ckpt, other, cut, lost>>
    BY <1>6, <1>8 DEF Starts, Answers
  <2>2. broken' \in BOOLEAN
    BY <1>6, <1>8 DEF Starts
  <2>3. \/ Launches \/ (Down /\ UNCHANGED owned) \/ UNCHANGED <<svc, client, owned>>
    BY <1>8 DEF Starts
  <2>4. FilesTyped' /\ ClientTyped'
    BY <1>6, <1>7, <2>1, <2>3
  <2> QED
    BY <1>5, <1>6, <1>8, <2>1, <2>2, <2>4 DEF Starts
<1>9. CASE StartFails
  <2>1. answer' \in {"ok", "error", None} /\ broken' \in BOOLEAN
    BY <1>6, <1>9 DEF StartFails, Answers
  <2> QED
    BY <1>5, <1>6, <1>7, <1>9, <2>1 DEF StartFails
<1>10. CASE Confirms \/ NotConfirmed
  <2>1. answer' \in {"ok", "error", None}
    BY <1>6, <1>10 DEF Confirms, NotConfirmed, Answers
  <2>2. UNCHANGED <<enabled, out, ckpt, owned, svc, client, other, archive, handled, history>>
    BY <1>10 DEF Confirms, NotConfirmed, disk
  <2> QED
    BY <1>5, <1>6, <1>7, <2>1, <2>2
<1>11. CASE Fails
  <2>1. cut' \in BOOLEAN
    BY <1>6, <1>11 DEF Fails
  <2>2. UNCHANGED <<enabled, out, ckpt, owned, svc, client>>
    BY <1>11 DEF Fails, disk
  <2> QED
    BY <1>5, <1>6, <1>7, <1>11, <2>1, <2>2 DEF Fails
<1>12. CASE OutsideBegins
  <2>1. UNCHANGED disk /\ (Down \/ UNCHANGED <<svc, client>>) /\ other' \in {"idle", "init"}
    BY <1>12 DEF OutsideBegins
  <2>2. UNCHANGED <<enabled, out, ckpt, owned>>
    BY <2>1 DEF disk
  <2> QED
    BY <1>5, <1>6, <1>7, <1>12, <2>1, <2>2 DEF OutsideBegins
<1>13. CASE OutsideStarts
  <2>1. enabled' \in BOOLEAN /\ broken' \in BOOLEAN /\ lost' \in BOOLEAN
    BY <1>6, <1>13 DEF OutsideStarts
  <2> QED
    BY <1>5, <1>6, <1>7, <1>13, <2>1 DEF OutsideStarts
<1>14. CASE OutsideFails
  BY <1>5, <1>6, <1>7, <1>14 DEF OutsideFails
<1>15. CASE PowerLoss
  <2>1. cut' \in BOOLEAN /\ broken' \in BOOLEAN /\ answer' = None
    BY <1>6, <1>15 DEF PowerLoss, Replacing
  <2>2. /\ svc' \in BOOLEAN /\ client' = None /\ UNCHANGED <<enabled, out, ckpt>>
        /\ owned' = {"out", "ckpt"} \/ owned' = owned
    BY <1>6, <1>15 DEF PowerLoss
  <2>3. FilesTyped' /\ ClientTyped'
    BY <1>2, <2>2 DEF Typed, FilesTyped
  <2> QED
    BY <1>5, <1>6, <1>15, <2>1, <2>3 DEF PowerLoss
<1> QED
  BY <1>8, <1>9, <1>10, <1>11, <1>12, <1>13, <1>14, <1>15

LEMMA TypedStep == Typed /\ [Next]_vars => Typed'
<1> SUFFICES ASSUME Typed, [Next]_vars PROVE Typed'
  OBVIOUS
<1>1. CASE UNCHANGED vars
  BY <1>1 DEF vars, disk, history, starts, Typed, FilesTyped, ClientTyped, RequestTyped,
              HistoryTyped
<1> QED
  BY <1>1, TypedClient, TypedReads, TypedReplacing, TypedStarts DEF Next, RequestSteps


----------------------------------------------------------------------------
(* What the checkpoint covers *)

\* No replacement was cut off, and no client ran during one.
Calm == ~cut /\ ~astray

\* If the checkpoint fits the output, every line before it is in h.
Sound(c, o, h) == Fits(c, o) /\ c # None => \A i \in 1..c : o[i] \in h
Covered(c, o, h) == Fits(c, o) /\ Sound(c, o, h)

\* So it is in every copy of the two files, whenever it was made.
Whole(s, h) == s # None => Sound(s.ckpt, s.out, h)
CopiesInv == Whole(archive, handled) /\ Whole(rpc.new, handled) /\ Whole(rpc.pre, handled)

\* Between the two reads of a copy the output only grows.
ReadInv == rpc.pc = "read_state" /\ rpc.pre.out # None =>
             /\ out # None /\ Len(rpc.pre.out) <= Len(out)
             /\ \A i \in 1..Len(rpc.pre.out) : out[i] = rpc.pre.out[i]

\* A running client has the output open, and it and the checkpoint are covered.
ClientInv == client # None => /\ client.log = out /\ client.linked
                              /\ Covered(client.sent, out, handled)
                              /\ Covered(ckpt, out, handled)

\* The files are covered but while they are replaced, or a pair that does not fit was put back.
FilesInv == ~Replacing => Sound(ckpt, out, handled) /\ (~torn => Fits(ckpt, out))

\* Removed files are gone for good, and nobody had them open.
PurgedInv ==
  /\ /\ rpc.pc \in {"purge_state", "settings", "output"} /\ rpc.kind = "restore"
     /\ Source.out = None
     => out = None /\ client = None
  /\ /\ rpc.pc \in {"settings", "output", "state"} /\ rpc.kind = "restore"
     /\ Source.ckpt = None
     => ckpt = None /\ client = None

AppliedInv == rpc.pc = "state" => out = Source.out /\ client = None

CalmInv == CopiesInv /\ ReadInv /\ ClientInv /\ FilesInv /\ PurgedInv /\ AppliedInv
CoverInv == Calm => CalmInv

\* What was dealt with stays so.
LEMMA SoundKept ==
  ASSUME NEW g, NEW h, g \subseteq h
  PROVE  /\ \A c, o : Sound(c, o, g) => Sound(c, o, h)
         /\ \A s : Whole(s, g) => Whole(s, h)
BY DEF Sound, Whole

\* A longer output covers no less.
LEMMA CoveredLonger ==
  ASSUME NEW o \in Seq(Lines), NEW p \in Seq(Lines), Len(o) <= Len(p),
         \A i \in 1..Len(o) : p[i] = o[i], o # None, p # None,
         NEW c \in Checkpoints, NEW h, Covered(c, o, h)
  PROVE  Covered(c, p, h)
<1>1. Len(o) \in Nat /\ Len(p) \in Nat
  OBVIOUS
<1>2. c # None => c \in Nat /\ c <= Len(o)
  BY NoneApart DEF Checkpoints, Covered, Fits
<1>3. ASSUME c # None, NEW i \in 1..c
      PROVE  p[i] \in h
  <2>1. i \in 1..Len(o) /\ o[i] \in h
    BY <1>1, <1>2, <1>3 DEF Covered, Sound
  <2> QED
    BY <2>1
<1> QED
  BY <1>1, <1>2, <1>3 DEF Covered, Sound, Fits

LEMMA SoundNone == \A o, h : Covered(None, o, h)
BY DEF Covered, Sound, Fits

LEMMA ToFields ==
  ASSUME RequestTyped, NEW pc, To(pc)
  PROVE  /\ rpc'.pc = pc /\ rpc'.kind = rpc.kind /\ rpc'.new = rpc.new /\ rpc'.pre = rpc.pre
         /\ rpc'.src = rpc.src /\ Source' = Source
<1>1. /\ rpc'.pc = pc /\ rpc'.kind = rpc.kind /\ rpc'.new = rpc.new /\ rpc'.pre = rpc.pre
      /\ rpc'.src = rpc.src
  BY DEF RequestTyped, To
<1> QED
  BY <1>1 DEF Source

LEMMA RollBackFields ==
  ASSUME RequestTyped, RollBack
  PROVE  /\ rpc'.pc = IF rpc.kind = "clear" THEN "output" ELSE "purge"
         /\ rpc'.kind = rpc.kind /\ rpc'.new = rpc.new
         /\ rpc'.pre = rpc.pre /\ rpc'.src = "pre"
BY DEF RequestTyped, RollBack

LEMMA DoneFields ==
  ASSUME rpc' = NoRequest
  PROVE  rpc'.pc = "idle" /\ rpc'.new = None /\ rpc'.pre = None
BY DEF NoRequest

\* The two accidents are not forgotten.
LEMMA CalmBefore == [Next]_vars /\ Calm' => Calm
<1> SUFFICES ASSUME [Next]_vars PROVE (cut => cut') /\ (astray => astray')
  BY DEF Calm
<1> USE DEF history
<1>1. CASE UNCHANGED vars
  BY <1>1 DEF vars
<1>2. CASE ClientOpens \/ Collects \/ Delivers
  <2>1. ClientOpens => cut' = cut /\ (astray => astray')
    BY DEF ClientOpens
  <2> QED
    BY <1>2, <2>1 DEF Collects, Delivers
<1>3. CASE \/ \E kind \in {"clear", "backup", "restore"} : Begins(kind)
           \/ ReadsOutput \/ ReadsState \/ Stops \/ StopFails
  BY <1>3 DEF Begins, ReadsOutput, ReadsState, Stops, StopFails
<1>4. Touched => (astray => astray')
  BY DEF Touched
<1>5. \A o : Replace(o) => (astray => astray')
  BY <1>4 DEF Replace
<1>6. CASE Truncates \/ PurgesOutput \/ AppliesOutput
  BY <1>5, <1>6 DEF Truncates, PurgesOutput, AppliesOutput
<1>7. CASE RemovesState \/ PurgesState \/ AppliesState
  BY <1>4, <1>7 DEF RemovesState, PurgesState, AppliesState
<1>8. CASE OwnsOutput \/ AppliesSettings \/ OwnsFiles
  BY <1>8 DEF OwnsOutput, AppliesSettings, OwnsFiles
<1>9. CASE Starts \/ StartFails \/ Confirms \/ NotConfirmed
  <2>1. cut' = cut /\ astray' = astray
    BY <1>9 DEF Starts, StartFails, Confirms, NotConfirmed
  <2> QED
    BY <2>1
<1>10. CASE Fails
  BY <1>10 DEF Fails
<1>11. CASE OutsideBegins \/ OutsideStarts \/ OutsideFails
  <2>1. cut' = cut /\ astray' = astray
    BY <1>11 DEF OutsideBegins, OutsideStarts, OutsideFails
  <2> QED
    BY <2>1
<1>12. CASE PowerLoss
  <2>1. (cut => cut') /\ (astray => astray')
    BY <1>12 DEF PowerLoss
  <2> QED
    BY <2>1
<1> QED
  BY <1>1, <1>2, <1>3, <1>6, <1>7, <1>8, <1>9, <1>10, <1>11, <1>12, Zenon DEF Next, RequestSteps

\* What a running client does leaves it covered.
LEMMA ClientMoves ==
  ASSUME CalmInv, UNCHANGED <<rpc, archive, torn>>, handled \subseteq handled',
         client' # None, client'.linked, client'.log = out',
         Covered(client'.sent, out', handled'), Covered(ckpt', out', handled'),
         client # None \/ ~Replacing,
         rpc.pc = "read_state" /\ out # None =>
           /\ out' # None /\ Len(out) \in Nat /\ Len(out') \in Nat /\ Len(out) <= Len(out')
           /\ \A i \in 1..Len(out) : out'[i] = out[i],
         RequestTyped
  PROVE  CalmInv'
<1>1. Source' = Source /\ (Replacing' <=> Replacing)
  BY DEF Source, Replacing
<1>2. CopiesInv'
  BY SoundKept DEF CalmInv, CopiesInv
<1>3. ReadInv'
  <2> SUFFICES ASSUME rpc.pc = "read_state", rpc.pre.out # None
               PROVE  /\ out' # None /\ Len(rpc.pre.out) <= Len(out')
                      /\ \A i \in 1..Len(rpc.pre.out) : out'[i] = rpc.pre.out[i]
    BY DEF ReadInv
  <2>1. rpc.pre.out \in Outputs \ {None}
    BY DEF RequestTyped, ArchiveTyped, Archives
  <2>2. Len(rpc.pre.out) \in Nat
    BY <2>1, OutputsBounded
  <2>3. /\ out # None /\ Len(rpc.pre.out) <= Len(out)
        /\ \A i \in 1..Len(rpc.pre.out) : out[i] = rpc.pre.out[i]
    BY DEF CalmInv, ReadInv
  <2> QED
    BY <2>2, <2>3
<1>4. ClientInv' /\ FilesInv'
  BY <1>1 DEF ClientInv, FilesInv, Covered
<1>5. PurgedInv' /\ AppliedInv'
  <2>1. CASE client # None
    BY <1>1, <2>1 DEF CalmInv, PurgedInv, AppliedInv
  <2>2. CASE ~Replacing
    BY <1>1, <2>2 DEF Replacing, PurgedInv, AppliedInv
  <2> QED
    BY <2>1, <2>2
<1> QED
  BY <1>2, <1>3, <1>4, <1>5 DEF CalmInv

LEMMA CoverClient ==
  ASSUME Typed, Typed', CalmInv, Calm', ClientOpens \/ Collects \/ Delivers
  PROVE  CalmInv'
<1>1. /\ UNCHANGED <<rpc, archive, torn>> /\ RequestTyped
      /\ handled \subseteq handled'
  BY DEF ClientOpens, Collects, Delivers, Typed, history
<1>2. client # None => Covered(ckpt, out, handled)
  BY DEF CalmInv, ClientInv
<1>3. out # None => out \in Seq(Lines) /\ Len(out) \in Nat
  BY OutputsBounded DEF Typed, FilesTyped
<1>4. CASE ClientOpens
  <2> DEFINE o == Found
             c == Offset
  <2>1. /\ Fits(c, o) /\ out' = o /\ ckpt' = c
        /\ client' = [log |-> o, linked |-> TRUE, sent |-> c, young |-> rpc.pc = "confirm"]
        /\ handled' = IF ckpt = None THEN handled \cup {o[i] : i \in 1..c} ELSE handled
        /\ astray' = (astray \/ Replacing)
    BY <1>4 DEF ClientOpens, CanOpen
  <2>2. ~Replacing
    BY <2>1 DEF Calm
  <2>3. Sound(ckpt, out, handled)
    BY <2>2 DEF CalmInv, FilesInv
  <2>4. Covered(c, o, handled')
    <3>1. CASE ckpt = None
      <4>1. \A i \in 1..c : o[i] \in handled'
        BY <2>1, <3>1
      <4> QED
        BY <2>1, <4>1 DEF Covered, Sound
    <3>2. CASE ckpt # None
      <4>1. c = ckpt /\ handled' = handled
        BY <2>1, <3>2 DEF Offset
      <4>2. CASE out = None
        <5>1. o = <<>> /\ c \in Nat
          BY <3>2, <4>1, <4>2, NoneApart DEF Found, Typed, FilesTyped, Checkpoints
        <5>2. c <= 0
          BY <2>1, <3>2, <4>1, <5>1 DEF Fits
        <5>3. \A i \in 1..c : o[i] \in handled
          BY <5>1, <5>2
        <5> QED
          BY <2>1, <4>1, <5>3 DEF Covered, Sound
      <4>3. CASE out # None
        <5>1. o = out
          BY <4>3 DEF Found
        <5> QED
          BY <2>1, <2>3, <4>1, <5>1 DEF Covered
      <4> QED
        BY <4>2, <4>3
    <3> QED
      BY <3>1, <3>2
  <2>5. out # None => o = out
    BY DEF Found
  <2>6. o \in Outputs \ {None} /\ c \in 0..MaxLines
    <3>1. o \in Outputs \ {None}
      BY EmptyOutput DEF Found, Typed, FilesTyped
    <3>2. Len(o) \in 0..MaxLines
      BY <3>1, OutputsBounded, NoneApart
    <3> QED
      BY <3>1, <3>2, NoneApart DEF Offset, Typed, FilesTyped, Checkpoints
  <2> DEFINE young == rpc.pc = "confirm"
  <2>7. client' = [log |-> o, linked |-> TRUE, sent |-> c, young |-> young] /\ young \in BOOLEAN
    BY <2>1
  <2> HIDE DEF o, c, young
  <2>8. client' \in Clients /\ client'.linked /\ client'.log = out' /\ client'.sent = c
    BY <2>1, <2>6, <2>7 DEF Clients
  <2>9. client' # None
    BY <2>8, NoneApart
  <2> QED
    BY <1>1, <1>3, <2>1, <2>2, <2>4, <2>5, <2>8, <2>9, ClientMoves
<1>5. CASE Collects
  <2>1. /\ client \in Clients /\ client.log = out /\ client.linked /\ client # None
        /\ Covered(client.sent, out, handled)
    BY <1>5 DEF Collects, Typed, ClientTyped, CalmInv, ClientInv
  <2> DEFINE log == Append(client.log, used.lines + 1)
  <2>2. client' = [client EXCEPT !.log = log] /\ UNCHANGED <<ckpt, handled>>
    BY <1>5 DEF Collects
  <2>3. /\ client.log \in Seq(Lines) /\ Len(client.log) \in Nat /\ client.log # None
        /\ used.lines + 1 \in Lines /\ client.sent \in Checkpoints /\ ckpt \in Checkpoints
    <3>1. used.lines + 1 \in Lines
      BY <1>5, NoneApart DEF Collects, Typed, HistoryTyped, Counters, Lines
    <3> QED
      BY <2>1, <3>1, OutputsBounded DEF Clients, Checkpoints, Typed, FilesTyped
  <2>4. /\ log \in Seq(Lines) /\ Len(log) = Len(client.log) + 1
        /\ \A i \in 1..Len(client.log) : log[i] = client.log[i]
    BY <2>3
  <2> HIDE DEF log
  <2>5. client'.log = log /\ client'.sent = client.sent /\ client'.linked
    BY <2>1, <2>2 DEF Clients
  <2>6. out' = log
    BY <1>5, <2>1, <2>5 DEF Collects
  <2>7. client' # None /\ log # None
    <3>1. Len(log) <= MaxLines
      <4>1. Short(client.log, used.lines) /\ used.lines \in Nat /\ used.lines < MaxLines
        BY <1>5, NoneApart DEF Collects, Typed, ClientTyped, HistoryTyped, Counters
      <4> QED
        BY <2>3, <2>4, <4>1, NoneApart DEF Short
    <3>2. log \in Outputs \ {None}
      BY <2>4, <3>1, OutputsBounded
    <3>3. client' \in Clients
      BY <2>1, <2>2, <3>2 DEF Clients
    <3> QED
      BY <3>2, <3>3, NoneApart
  <2>8. Covered(client.sent, log, handled) /\ Covered(ckpt, log, handled)
    BY <1>2, <2>1, <2>3, <2>4, <2>7, CoveredLonger
  <2> QED
    BY <1>1, <1>3, <2>1, <2>2, <2>3, <2>4, <2>5, <2>6, <2>7, <2>8, ClientMoves
<1>6. CASE Delivers
  <2>1. /\ client \in Clients /\ client.log = out /\ client.linked
        /\ Covered(client.sent, out, handled)
        /\ client' = [client EXCEPT !.sent = client.sent + 1]
        /\ client.sent < Len(client.log) /\ client # None
    BY <1>6 DEF Delivers, Typed, ClientTyped, CalmInv, ClientInv
  <2>2. client.sent \in Nat /\ Len(client.log) \in Nat /\ client.log # None
    BY <2>1, OutputsBounded, NoneApart DEF Clients
  <2>3. client'.log = client.log /\ client'.linked /\ client'.sent = client.sent + 1
    BY <2>1 DEF Clients
  <2>4. /\ out' = out /\ ckpt' = client.sent + 1
        /\ handled' = handled \cup {client.log[client.sent + 1]}
    BY <1>6, <2>3 DEF Delivers
  <2>5. Covered(client.sent + 1, out, handled')
    <3>1. client.sent # None /\ \A i \in 1..client.sent : out[i] \in handled
      BY <2>1, <2>2, NoneApart DEF Covered, Sound
    <3>2. \A i \in 1..(client.sent + 1) : i \in 1..client.sent \/ i = client.sent + 1
      BY <2>2
    <3>3. \A i \in 1..(client.sent + 1) : out[i] \in handled'
      BY <2>1, <2>4, <3>1, <3>2
    <3> QED
      BY <2>1, <2>2, <3>3 DEF Covered, Sound, Fits
  <2>6. client' # None
    <3>1. client.sent + 1 \in 0..MaxLines
      BY <2>1, <2>2, OutputsBounded, NoneApart DEF Clients
    <3>2. client' \in Clients
      BY <2>1, <3>1 DEF Clients
    <3> QED
      BY <3>2, NoneApart
  <2> QED
    BY <1>1, <1>3, <2>1, <2>3, <2>4, <2>5, <2>6, ClientMoves
<1> QED
  BY <1>4, <1>5, <1>6

\* A request begins, copies the files and stops the service.
LEMMA CoverReads ==
  ASSUME Typed, CalmInv,
         \/ \E kind \in {"clear", "backup", "restore"} : Begins(kind)
         \/ ReadsOutput \/ ReadsState \/ Stops \/ StopFails
  PROVE  CalmInv'
<1>1. RequestTyped /\ UNCHANGED <<out, ckpt, handled, torn>>
  BY DEF Typed, Begins, ReadsOutput, ReadsState, Stops, StopFails, disk, history
<1>2. ASSUME rpc'.pc \in {"idle", "read", "read_state", "stop"} \/
               (rpc'.pc \in {"truncate", "purge"} /\ rpc'.src = "new"),
             ~Replacing, client' = client \/ client' = None
      PROVE  ClientInv' /\ FilesInv' /\ PurgedInv' /\ AppliedInv'
  <2>1. ClientInv'
    BY <1>1, <1>2 DEF CalmInv, ClientInv
  <2>2. FilesInv'
    BY <1>1, <1>2 DEF CalmInv, FilesInv
  <2> QED
    BY <1>2, <2>1, <2>2 DEF PurgedInv, AppliedInv
<1>3. ASSUME NEW kind \in {"clear", "backup", "restore"}, Begins(kind)
      PROVE  CalmInv'
  <2>1. /\ rpc' = [pc |-> "read", kind |-> kind, new |-> archive, pre |-> None, src |-> "new"]
        /\ UNCHANGED <<client, archive>> /\ rpc.pc = "idle"
    BY <1>3 DEF Begins, Idle, NoRequest
  <2>2. CopiesInv' /\ ReadInv'
    BY <1>1, <2>1 DEF CalmInv, CopiesInv, Whole, ReadInv
  <2> QED
    BY <1>2, <2>1, <2>2 DEF CalmInv, Replacing
<1>4. CASE ReadsOutput
  <2> DEFINE pre == [enabled |-> enabled, out |-> out, ckpt |-> None]
  <2>1. /\ rpc.pc = "read" /\ rpc' = [rpc EXCEPT !.pc = "read_state", !.pre = pre]
        /\ UNCHANGED <<client, archive>>
    BY <1>4 DEF ReadsOutput
  <2>2. rpc'.pc = "read_state" /\ rpc'.new = rpc.new /\ rpc'.pre = pre
    BY <1>1, <2>1 DEF RequestTyped
  <2>3. \A h : Whole(pre, h)
    BY SoundNone DEF Whole, Covered
  <2>4. CopiesInv'
    BY <1>1, <2>1, <2>2, <2>3 DEF CalmInv, CopiesInv
  <2>5. ReadInv'
    <3>1. out # None => Len(out) \in Nat
      BY OutputsBounded DEF Typed, FilesTyped
    <3> QED
      BY <1>1, <2>2, <3>1 DEF ReadInv
  <2> QED
    BY <1>2, <2>1, <2>2, <2>4, <2>5 DEF CalmInv, Replacing
<1>5. CASE ReadsState
  <2> DEFINE pre == [rpc.pre EXCEPT !.ckpt = ckpt]
  <2>1. rpc.pc = "read_state" /\ UNCHANGED client
    BY <1>5 DEF ReadsState
  <2>2. Sound(ckpt, out, handled)
    BY <2>1 DEF CalmInv, FilesInv, Replacing
  <2>3. Whole(pre, handled)
    <3>1. rpc.pre \in Archives
      BY <1>1, <2>1 DEF RequestTyped, ArchiveTyped
    <3>2. pre.ckpt = ckpt /\ pre.out = rpc.pre.out
      BY <3>1 DEF Archives
    <3>3. ASSUME Fits(ckpt, rpc.pre.out), ckpt # None
          PROVE  \A i \in 1..ckpt : rpc.pre.out[i] \in handled
      <4>1. rpc.pre.out \in Outputs \ {None} /\ ckpt \in Nat /\ ckpt <= Len(rpc.pre.out)
        BY <3>1, <3>3, NoneApart DEF Fits, Archives, Typed, FilesTyped, Checkpoints
      <4>2. Len(rpc.pre.out) \in Nat
        BY <4>1, OutputsBounded
      <4>3. /\ out # None /\ Len(rpc.pre.out) <= Len(out)
            /\ \A i \in 1..Len(rpc.pre.out) : out[i] = rpc.pre.out[i]
        BY <2>1, <4>1 DEF CalmInv, ReadInv
      <4>4. Len(out) \in Nat
        BY <4>3, OutputsBounded DEF Typed, FilesTyped
      <4>5. Fits(ckpt, out)
        BY <4>1, <4>2, <4>3, <4>4 DEF Fits
      <4> QED
        BY <2>2, <3>3, <4>1, <4>2, <4>3, <4>5 DEF Sound
    <3> HIDE DEF pre
    <3> QED
      BY <3>2, <3>3 DEF Whole, Sound
  <2>4. CASE rpc.kind = "backup"
    <3>1. rpc'.pc = "idle" /\ rpc'.new = None /\ rpc'.pre = None /\ archive' = pre
      BY <1>5, <2>4, DoneFields DEF ReadsState, Answers
    <3> HIDE DEF pre
    <3>2. CopiesInv'
      BY <1>1, <2>3, <3>1 DEF CopiesInv, Whole
    <3> QED
      BY <1>2, <2>1, <3>1, <3>2 DEF CalmInv, ReadInv, Replacing
  <2>5. CASE rpc.kind # "backup"
    <3>1. rpc' = [rpc EXCEPT !.pc = "stop", !.pre = pre] /\ archive' = archive
      BY <1>5, <2>5 DEF ReadsState
    <3> HIDE DEF pre
    <3>2. rpc'.pc = "stop" /\ rpc'.new = rpc.new /\ rpc'.pre = pre
      BY <1>1, <3>1 DEF RequestTyped
    <3>3. CopiesInv'
      BY <1>1, <2>3, <3>1, <3>2 DEF CalmInv, CopiesInv
    <3> QED
      BY <1>2, <2>1, <3>2, <3>3 DEF CalmInv, ReadInv, Replacing
  <2> QED
    BY <2>4, <2>5
<1>6. CASE Stops
  <2> DEFINE pc == IF rpc.kind = "clear" THEN "truncate" ELSE "purge"
  <2>1. rpc.pc = "stop" /\ client' = None /\ archive' = archive /\ To(pc)
    BY <1>6 DEF Stops
  <2>2. /\ rpc'.pc = pc /\ rpc'.new = rpc.new /\ rpc'.pre = rpc.pre /\ rpc'.src = rpc.src
        /\ pc \in {"truncate", "purge"} /\ rpc.src = "new"
    BY <1>1, <2>1, ToFields DEF RequestTyped, Directed
  <2>3. CopiesInv'
    BY <1>1, <2>1, <2>2 DEF CalmInv, CopiesInv
  <2> HIDE DEF pc
  <2> QED
    BY <1>2, <2>1, <2>2, <2>3 DEF CalmInv, ReadInv, Replacing
<1>7. CASE StopFails
  <2>1. /\ rpc'.pc = "idle" /\ rpc'.new = None /\ rpc'.pre = None
        /\ rpc.pc = "stop" /\ UNCHANGED <<client, archive>>
    BY <1>7, DoneFields DEF StopFails, Answers
  <2>2. CopiesInv'
    BY <1>1, <2>1 DEF CalmInv, CopiesInv, Whole
  <2> QED
    BY <1>2, <2>1, <2>2 DEF CalmInv, ReadInv, Replacing
<1> QED
  BY <1>3, <1>4, <1>5, <1>6, <1>7

\* The steps of the replacement keep the copies and the copy that is applied.
LEMMA ReplacingKeeps ==
  ASSUME RequestTyped, NEW pc, To(pc), UNCHANGED <<archive, handled>>
  PROVE  /\ rpc'.pc = pc /\ rpc'.src = rpc.src /\ rpc'.kind = rpc.kind /\ Source' = Source
         /\ CopiesInv => CopiesInv'
BY ToFields DEF CopiesInv

LEMMA CoverReplacing ==
  ASSUME Typed, CalmInv, Calm',
         \/ Truncates \/ OwnsOutput \/ RemovesState
         \/ PurgesOutput \/ PurgesState \/ AppliesSettings \/ AppliesOutput \/ AppliesState
         \/ OwnsFiles
  PROVE  CalmInv'
<1> USE DEF history
<1>1. RequestTyped /\ UNCHANGED <<archive, handled>>
  BY DEF Typed, Truncates, OwnsOutput, RemovesState, PurgesOutput, PurgesState,
         AppliesSettings, AppliesOutput, AppliesState, OwnsFiles
<1>2. Touched => client = None
  BY DEF Touched, Calm
<1>3. \A o : Replace(o) => client = None /\ client' = None /\ out' = o
  BY <1>2 DEF Replace
<1>4. ASSUME NEW pc, To(pc), UNCHANGED <<out, ckpt, torn, client>>,
             /\ pc \in {"remove_state", "settings", "output", "state"} \/ ~Replacing
             /\ pc \notin {"read_state", "state"}
      PROVE  /\ CopiesInv' /\ ReadInv' /\ ClientInv' /\ FilesInv' /\ AppliedInv'
             /\ rpc'.pc = pc /\ Source' = Source /\ rpc'.kind = rpc.kind
  <2>1. /\ rpc'.pc = pc /\ rpc'.src = rpc.src /\ rpc'.kind = rpc.kind /\ Source' = Source
        /\ CopiesInv'
    BY <1>1, <1>4, ReplacingKeeps DEF CalmInv
  <2>2. FilesInv'
    BY <1>1, <1>4, <2>1 DEF CalmInv, FilesInv, Replacing
  <2> QED
    BY <1>1, <1>4, <2>1, <2>2 DEF CalmInv, ReadInv, ClientInv, AppliedInv
<1>5. CASE Truncates
  <2>1. client' = None /\ To("own_output")
    BY <1>3, <1>5 DEF Truncates
  <2>2. rpc'.pc = "own_output" /\ CopiesInv'
    BY <1>1, <2>1, ReplacingKeeps DEF CalmInv
  <2> QED
    BY <2>1, <2>2 DEF CalmInv, ReadInv, ClientInv, FilesInv, PurgedInv, AppliedInv, Replacing
<1>6. CASE OwnsOutput
  <2>1. To("remove_state") /\ UNCHANGED <<out, ckpt, torn, client>>
    BY <1>6 DEF OwnsOutput
  <2> QED
    BY <1>4, <2>1 DEF CalmInv, PurgedInv
<1>7. CASE RemovesState
  <2>1. /\ ckpt' = None /\ client = None /\ client' = None /\ torn' = FALSE /\ To("start")
    BY <1>2, <1>7 DEF RemovesState
  <2>2. rpc'.pc = "start" /\ CopiesInv'
    BY <1>1, <2>1, ReplacingKeeps DEF CalmInv
  <2>3. Covered(ckpt', out', handled')
    BY <2>1, SoundNone
  <2> QED
    BY <2>1, <2>2, <2>3
    DEF CalmInv, ReadInv, ClientInv, FilesInv, PurgedInv, AppliedInv, Covered
<1>8. CASE PurgesOutput
  <2>1. /\ IF Source.out = None THEN Replace(None) ELSE UNCHANGED <<out, client>>
        /\ UNCHANGED <<ckpt, torn>> /\ To("purge_state")
    BY <1>8 DEF PurgesOutput, Stale, StaleOutput
  <2>2. rpc'.pc = "purge_state" /\ Source' = Source /\ CopiesInv'
    BY <1>1, <2>1, ReplacingKeeps DEF CalmInv
  <2>3. CASE Source.out = None
    <3>1. client' = None /\ out' = None
      BY <1>3, <2>1, <2>3
    <3> QED
      BY <2>2, <3>1
      DEF CalmInv, ReadInv, ClientInv, FilesInv, PurgedInv, AppliedInv, Replacing
  <2>4. CASE Source.out # None
    <3>1. UNCHANGED <<out, client>>
      BY <2>1, <2>4
    <3>2. ClientInv'
      BY <1>1, <2>1, <3>1 DEF CalmInv, ClientInv
    <3> QED
      BY <2>2, <2>4, <3>2 DEF CalmInv, ReadInv, FilesInv, PurgedInv, AppliedInv, Replacing
  <2> QED
    BY <2>3, <2>4
<1>9. CASE PurgesState
  <2>1. /\ rpc.pc = "purge_state" /\ To("settings") /\ UNCHANGED <<out, torn, client>>
        /\ IF Source.ckpt = None THEN ckpt' = None /\ client = None ELSE UNCHANGED ckpt
    BY <1>2, <1>9 DEF PurgesState, Stale, StaleOutput
  <2>2. rpc'.pc = "settings" /\ Source' = Source /\ CopiesInv' /\ rpc'.kind = rpc.kind
    BY <1>1, <2>1, ReplacingKeeps DEF CalmInv
  <2>3. ClientInv'
    BY <1>1, <2>1 DEF CalmInv, ClientInv
  <2>4. PurgedInv'
    BY <2>1, <2>2 DEF CalmInv, PurgedInv
  <2> QED
    BY <2>2, <2>3, <2>4 DEF CalmInv, ReadInv, FilesInv, AppliedInv, Replacing
<1>10. CASE AppliesSettings
  <2>1. rpc.pc = "settings" /\ To("output") /\ UNCHANGED <<out, ckpt, torn, client>>
    BY <1>10 DEF AppliesSettings
  <2>2. /\ CopiesInv' /\ ReadInv' /\ ClientInv' /\ FilesInv' /\ AppliedInv'
        /\ rpc'.pc = "output" /\ Source' = Source /\ rpc'.kind = rpc.kind
    BY <1>4, <2>1
  <2>3. PurgedInv'
    BY <2>1, <2>2 DEF CalmInv, PurgedInv
  <2> QED
    BY <2>2, <2>3 DEF CalmInv
<1>11. CASE AppliesOutput
  <2>1. /\ rpc.pc = "output" /\ ckpt' = ckpt /\ To("state")
        /\ IF Source.out # None \/ rpc.kind = "clear" THEN Replace(Source.out)
           ELSE UNCHANGED <<out, client>>
    BY <1>11 DEF AppliesOutput
  <2>2. rpc'.pc = "state" /\ rpc'.kind = rpc.kind /\ Source' = Source /\ CopiesInv'
    BY <1>1, <2>1, ReplacingKeeps DEF CalmInv
  <2>3. rpc.kind \in {"clear", "restore"}
    BY <1>1, <2>1 DEF RequestTyped, Directed
  <2>4. client' = None /\ out' = Source.out /\ client = None
    <3>1. CASE Source.out # None \/ rpc.kind = "clear"
      <4>1. Replace(Source.out)
        BY <2>1, <3>1
      <4> QED
        BY <1>3, <4>1
    <3>2. CASE ~(Source.out # None \/ rpc.kind = "clear")
      <4>1. Source.out = None /\ rpc.kind = "restore" /\ UNCHANGED <<out, client>>
        BY <2>1, <2>3, <3>2
      <4> QED
        BY <2>1, <4>1 DEF CalmInv, PurgedInv
    <3> QED
      BY <3>1, <3>2
  <2>5. PurgedInv' /\ AppliedInv'
    BY <2>1, <2>2, <2>4 DEF CalmInv, PurgedInv, AppliedInv
  <2> QED
    BY <2>2, <2>4, <2>5 DEF CalmInv, ReadInv, ClientInv, FilesInv, Replacing
<1>12. CASE AppliesState
  <2>1. /\ rpc.pc = "state" /\ UNCHANGED <<out, client>> /\ To("own")
        /\ ckpt' = IF Source.ckpt # None \/ rpc.kind = "clear" THEN Source.ckpt ELSE ckpt
        /\ torn' = ~Fits(Source.ckpt, Source.out)
    BY <1>12 DEF AppliesState
  <2>2. rpc'.pc = "own" /\ CopiesInv'
    BY <1>1, <2>1, ReplacingKeeps DEF CalmInv
  <2>3. /\ out = Source.out /\ client = None
        /\ rpc.kind = "restore" /\ Source.ckpt = None => ckpt = None
    BY <2>1 DEF CalmInv, AppliedInv, PurgedInv
  <2>4. Whole(Source, handled) /\ Source # None /\ rpc.kind \in {"clear", "restore"}
    BY <1>1, <2>1, NoneApart, SourceTyped
    DEF CalmInv, CopiesInv, Source, Applying, RequestTyped, Directed
  <2>5. ckpt' = Source.ckpt /\ out' = Source.out
    BY <2>1, <2>3, <2>4
  <2>6. Sound(ckpt', out', handled') /\ (~torn' => Fits(ckpt', out'))
    BY <1>1, <2>1, <2>4, <2>5 DEF Whole
  <2> QED
    BY <2>1, <2>2, <2>3, <2>6
    DEF CalmInv, ReadInv, ClientInv, FilesInv, PurgedInv, AppliedInv
<1>13. CASE OwnsFiles
  <2>1. rpc.pc = "own" /\ To("start") /\ UNCHANGED <<out, ckpt, torn, client>>
    BY <1>13 DEF OwnsFiles
  <2> QED
    BY <1>4, <2>1 DEF CalmInv, PurgedInv, Replacing
<1> QED
  BY <1>5, <1>6, <1>7, <1>8, <1>9, <1>10, <1>11, <1>12, <1>13

\* The service starts again, by the request or from outside, or something goes wrong.
LEMMA CoverStarts ==
  ASSUME Typed, CalmInv, Calm',
         \/ Starts \/ StartFails \/ Confirms \/ NotConfirmed \/ Fails
         \/ OutsideBegins \/ OutsideStarts \/ OutsideFails \/ PowerLoss
  PROVE  CalmInv'
<1> USE DEF history
<1>1. RequestTyped /\ UNCHANGED <<out, ckpt, handled, archive, torn>>
  BY DEF Typed, Starts, StartFails, Confirms, NotConfirmed, Fails, OutsideBegins,
         OutsideStarts, OutsideFails, PowerLoss, disk
<1>2. client' = client \/ client' = None
  BY DEF Starts, StartFails, Confirms, NotConfirmed, Fails, OutsideBegins, OutsideStarts,
         OutsideFails, PowerLoss, Launches, Down
<1>3. ClientInv'
  BY <1>1, <1>2 DEF CalmInv, ClientInv
<1>4. ASSUME rpc' = NoRequest, ~Replacing
      PROVE  CalmInv'
  <2>1. rpc'.pc = "idle" /\ rpc'.new = None /\ rpc'.pre = None
    BY <1>4, DoneFields
  <2>2. CopiesInv'
    BY <1>1, <2>1 DEF CalmInv, CopiesInv, Whole
  <2>3. FilesInv'
    BY <1>1, <1>4 DEF CalmInv, FilesInv
  <2> QED
    BY <1>3, <2>1, <2>2, <2>3 DEF CalmInv, ReadInv, PurgedInv, AppliedInv
<1>5. ASSUME RollBack
      PROVE  CalmInv'
  <2>1. /\ rpc'.pc = IF rpc.kind = "clear" THEN "output" ELSE "purge"
        /\ rpc'.kind = rpc.kind /\ rpc'.new = rpc.new /\ rpc'.pre = rpc.pre /\ rpc'.src = "pre"
    BY <1>1, <1>5, RollBackFields
  <2>2. CopiesInv'
    BY <1>1, <2>1 DEF CalmInv, CopiesInv
  <2>3. FilesInv' /\ PurgedInv'
    BY <2>1 DEF FilesInv, PurgedInv, Replacing
  <2> QED
    BY <1>3, <2>1, <2>2, <2>3 DEF CalmInv, ReadInv, AppliedInv
<1>6. CASE Starts
  <2>1. rpc.pc = "start"
    BY <1>6 DEF Starts
  <2>2. CASE rpc' = NoRequest
    BY <1>4, <2>1, <2>2 DEF Replacing
  <2>3. CASE To("confirm")
    <3>1. rpc'.pc = "confirm" /\ CopiesInv'
      BY <1>1, <2>3, ReplacingKeeps DEF CalmInv
    <3>2. FilesInv'
      BY <1>1, <2>1 DEF CalmInv, FilesInv, Replacing
    <3> QED
      BY <1>3, <3>1, <3>2 DEF CalmInv, ReadInv, PurgedInv, AppliedInv
  <2> QED
    BY <1>6, <2>2, <2>3 DEF Starts, Answers
<1>7. CASE StartFails \/ Confirms \/ NotConfirmed
  <2>1. rpc.pc \in {"start", "confirm"} /\ (rpc' = NoRequest \/ RollBack)
    BY <1>7 DEF StartFails, Confirms, NotConfirmed, Answers
  <2> QED
    BY <1>4, <1>5, <2>1 DEF Replacing
<1>8. CASE Fails
  <2>1. RollBack
    BY <1>8 DEF Fails, Calm
  <2> QED
    BY <1>5, <2>1
<1>9. CASE OutsideBegins \/ OutsideStarts \/ OutsideFails
  <2>1. UNCHANGED rpc
    BY <1>9 DEF OutsideBegins, OutsideStarts, OutsideFails
  <2>2. Source' = Source /\ (Replacing' <=> Replacing)
    BY <2>1 DEF Source, Replacing
  <2>3. CopiesInv' /\ ReadInv' /\ FilesInv'
    BY <1>1, <2>1, <2>2 DEF CalmInv, CopiesInv, ReadInv, FilesInv
  <2>4. PurgedInv' /\ AppliedInv'
    BY <1>1, <1>2, <2>1, <2>2 DEF CalmInv, PurgedInv, AppliedInv
  <2> QED
    BY <1>3, <2>3, <2>4 DEF CalmInv
<1>10. CASE PowerLoss
  <2>1. rpc' = NoRequest /\ ~Replacing
    BY <1>10 DEF PowerLoss, Calm
  <2> QED
    BY <1>4, <2>1
<1> QED
  BY <1>6, <1>7, <1>8, <1>9, <1>10

LEMMA CoverInit == Init => CoverInv
<1> SUFFICES ASSUME Init PROVE CoverInv
  OBVIOUS
<1>1. rpc.pc = "idle" /\ rpc.new = None /\ rpc.pre = None
  BY DEF Init, NoRequest
<1>2. CopiesInv
  <2>1. archive # None => archive.ckpt = None
    BY DEF Init
  <2> QED
    BY <1>1, <2>1, SoundNone DEF CopiesInv, Whole, Covered
<1>3. Covered(ckpt, out, handled)
  BY SoundNone DEF Init
<1> QED
  BY <1>1, <1>2, <1>3
  DEF Init, CoverInv, CalmInv, ReadInv, ClientInv, FilesInv, PurgedInv, AppliedInv, Covered

LEMMA CoverStep == Typed /\ Typed' /\ CoverInv /\ [Next]_vars => CoverInv'
<1> SUFFICES ASSUME Typed, Typed', CoverInv, [Next]_vars, Calm' PROVE CalmInv'
  BY DEF CoverInv
<1>1. CalmInv
  BY CalmBefore DEF CoverInv
<1>2. CASE UNCHANGED vars
  BY <1>1, <1>2 DEF vars, disk, history, CalmInv, CopiesInv, ReadInv, ClientInv, FilesInv,
                    PurgedInv, AppliedInv, Source, Replacing
<1> QED
  BY <1>1, <1>2, CoverClient, CoverReads, CoverReplacing, CoverStarts DEF Next, RequestSteps

----------------------------------------------------------------------------
(* What holds of every behaviour *)

LEMMA TypedAlways == Spec => []Typed
BY TypedInit, TypedStep, PTL DEF Spec

\* Every variable keeps its type, and a sender never stands behind the end of its file.
THEOREM ArchiveTypes == Spec => []TypeOK
<1>1. Typed => TypeOK
  BY DEF Typed, FilesTyped, ClientTyped, RequestTyped, ArchiveTyped, HistoryTyped, TypeOK
<1> QED
  BY <1>1, TypedAlways, PTL

\* archive.go, backend.go and the init script: clearing, restoring and rolling back leave a
\* checkpoint that comes after lines that were dealt with only, and that lies behind the
\* output only if such a pair was put back last, however many requests, failures, starts
\* from outside and power losses there are, as long as no replacement of the two files is
\* cut off and no client runs during one.
THEOREM CheckpointNeverSkips == Spec => []CheckpointCovers
<1>1. CoverInv => CheckpointCovers
  BY DEF CoverInv, CalmInv, FilesInv, Sound, CheckpointCovers, Calm, Idle, NoRequest, Replacing
<1>2. Spec => []CoverInv
  BY TypedAlways, CoverInit, CoverStep, PTL DEF Spec
<1> QED
  BY <1>1, <1>2, PTL
=============================================================================
