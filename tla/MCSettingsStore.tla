-------------------------- MODULE MCSettingsStore --------------------------
(* A small instance of SettingsStore: one controller that stays and one that comes and
   goes, and the requests that change several files at once.                        *)
EXTENDS SettingsStore

CONSTANTS a, b

Keep == [c \in Creds |-> "keep"]
Both == {a, b}

u(e, r, s) == [enabled |-> e, auto |-> FALSE, rulebot |-> r, sources |-> s]

(* Everything is configured, with first secrets. *)
MCInstalled == {[uci |-> u(TRUE, TRUE, Both), creds |-> [c \in Creds |-> "s1"]]}

MCRequests ==
      {(* add a source and change two credentials, one of them the token *)
       [uci |-> u(TRUE, TRUE, Both), edit |-> [c \in Creds |-> "s2"]],
       (* remove a source, switch to the local mode and clear the token *)
       [uci |-> u(TRUE, FALSE, {a}), edit |-> [Keep EXCEPT ![Token] = "clear"]],
       (* add a source without a secret *)
       [uci |-> u(TRUE, FALSE, Both), edit |-> Keep],
       (* disable the service and keep everything *)
       [uci |-> u(FALSE, FALSE, Both), edit |-> Keep]}
=============================================================================
