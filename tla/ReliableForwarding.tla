------------------------- MODULE ReliableForwarding -------------------------
(***************************************************************************)
(* What the Rule-Bot sender promises, without saying how: an append-only   *)
(* output, a server that takes over keys, and a set of records that are    *)
(* settled for good.  A record is settled only after the server has taken  *)
(* over its key, and no crash ever takes a settlement back.                *)
(***************************************************************************)
EXTENDS Naturals, Sequences

CONSTANTS Hosts, Keys, NoKey, KeyOf

VARIABLES
  output,   \* the durable records
  acked,    \* the keys the server has taken over
  settled   \* the records, by position, that need no more work

vars == <<output, acked, settled>>

Init ==
  /\ output \in Seq(Hosts)
  /\ acked = {}
  /\ settled = {}

Capture ==
  /\ \E host \in Hosts : output' = Append(output, host)
  /\ UNCHANGED <<acked, settled>>

MaySettle(i) == KeyOf[output[i]] = NoKey \/ KeyOf[output[i]] \in acked

\* The server takes over the key of some record.
Acquire ==
  \E i \in 1..Len(output) :
    KeyOf[output[i]] # NoKey /\ acked' = acked \cup {KeyOf[output[i]]}

\* Records whose keys have been taken over, or that have none, become settled.
Settle ==
  /\ settled \subseteq settled'
  /\ \A i \in settled' \ settled : i \in 1..Len(output) /\ MaySettle(i)

\* The client is interrupted anywhere, so each may happen without the other,
\* and a power loss can show both at once; output is only ever captured into.
Progress ==
  /\ Acquire \/ UNCHANGED acked
  /\ Settle
  /\ UNCHANGED output

Next == Capture \/ Progress

Spec == Init /\ [][Next]_vars
=============================================================================
