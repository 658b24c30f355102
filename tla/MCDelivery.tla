----------------------------- MODULE MCDelivery -----------------------------
(* Small instances of Delivery for TLC.                                    *)
EXTENDS Delivery

CONSTANTS a, b,    \* domains the controllers report
          k1, k2   \* the keys of a and b

MCHosts == {a, b}
MCCapturable == {a, b}
MCKeys == {k1, k2}
MCKeyOf == [h \in MCHosts |-> CASE h = a -> k1 [] h = b -> k2 [] OTHER -> NoKey]

\* A torn line is either complete but for its newline, or not a domain.
TornUnreadable == [h \in MCHosts |-> {h, Invalid}]

NoExclusions == {{}}
OnlyNow == {0}
PowerOnly == {"power"}
KillAndPower == {"kill", "power"}
=============================================================================
