-------------------------- MODULE MCRuleBotSender --------------------------
(* Small instances of RuleBotSender for TLC.                               *)
EXTENDS RuleBotSender

CONSTANTS a, b, c, d,   \* hosts: a and b share a registrable domain, d is .cn
          k1, k2        \* keys

MCHosts == {a, b, c, d}
MCKeys == {k1, k2}
MCKeyOf == [h \in {a, b, c, d} |-> CASE h \in {a, b} -> k1
                                     [] h = c -> k2
                                     [] OTHER -> NoKey]
NoExclusions == {{}}
FixedExclusion == {{a}}
EditedExclusions == {{}, {a}, {a, b}}
MCRetryAfters == {0, 3}
OnlyNow == {0}
=============================================================================
