---------------------------- MODULE Transaction ----------------------------
(***************************************************************************)
(* What a settings request promises: it is taken with a candidate, and     *)
(* then the stored value becomes that candidate as a whole or stays as it  *)
(* was.  The promise ends (sound becomes FALSE) when something outside the *)
(* transaction has interfered; SettingsStore says what that can be.        *)
(***************************************************************************)
CONSTANTS Values,      \* what may be stored
          NoRequest    \* no request is in progress: not one of Values

VARIABLES value,       \* the settings and credentials in force
          pending,     \* the candidate of the request in progress
          sound        \* nothing has interfered so far

tvars == <<value, pending, sound>>

TInit == /\ value \in Values
         /\ pending = NoRequest
         /\ sound = TRUE

(* A request is accepted: nothing of it is visible yet. *)
Begin == /\ pending = NoRequest
         /\ pending' \in Values
         /\ UNCHANGED <<value, sound>>

(* The request succeeds as a whole. *)
Commit == /\ pending # NoRequest
          /\ value' = pending
          /\ pending' = NoRequest
          /\ UNCHANGED sound

(* The request fails and leaves nothing behind. *)
Abort == /\ pending # NoRequest
         /\ pending' = NoRequest
         /\ UNCHANGED <<value, sound>>

(* From here on nothing is promised. *)
Interfere == /\ sound' = FALSE
             /\ value' \in Values
             /\ pending' \in Values \cup {NoRequest}

TNext == \/ sound /\ (Begin \/ Commit \/ Abort)
         \/ Interfere

TSpec == TInit /\ [][TNext]_tvars
=============================================================================
