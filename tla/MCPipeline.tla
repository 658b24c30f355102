----------------------------- MODULE MCPipeline -----------------------------
(* Small instances of Pipeline for TLC.                                    *)
EXTENDS Pipeline

CONSTANTS i1, i2,   \* controllers
          w, x, y,  \* hosts; y has no projection
          d, e      \* the domains of w and x

MCInstances == {i1, i2}
\* Two controllers disturb each other with two hosts.  With one controller and three
\* hosts the processor can end with a host in hand, the queue be full, and the reader
\* or the snapshot stand before it.
MCConfigurations == {[instances |-> {i1, i2}, lines |-> 2],
                     [instances |-> {i1}, lines |-> 3]}
MCHosts == {w, x, y}
MCDomains == {d, e}
MCProject == [h \in {w, x, y} |-> CASE h = w -> d [] h = x -> e [] OTHER -> NoDomain]
AllFail == {"processor", "writer", "sender"}
=============================================================================
