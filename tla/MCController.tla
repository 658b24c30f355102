---------------------------- MODULE MCController ----------------------------
(***************************************************************************)
(* One connection of the final rule, and another one of any kind.  Names   *)
(* are plain, hold a marker, or a target before a marker; an error         *)
(* mentions a peer as a target of its own, or holds a marker.              *)
(***************************************************************************)
EXTENDS Controller

CONSTANTS c1, c2, peer

MCMixes == {[c \in {c1, c2} |-> IF c = c1 THEN "final" ELSE k] : k \in Kinds}

MCNames == {<<"word">>, <<"success">>, <<"failure">>, <<"arrow", peer, "error">>}
MCErrors == {<<"arrow", peer, "error">>, <<"arrow", peer, "success">>, <<"failure">>}
=============================================================================
