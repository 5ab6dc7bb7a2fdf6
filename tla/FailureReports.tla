--------------------------- MODULE FailureReports ---------------------------
(***************************************************************************)
(* What the vehicle coordinator promises the engine bypass: whoever hears  *)
(* all of its commands knows, once nothing is left to announce, whether    *)
(* communication with the vehicle is taken for failed.                     *)
(***************************************************************************)
VARIABLES
    failed,         \* communication is taken for failed
    pending,        \* a recovery is still to be announced
    said            \* the last command: none, ON or OFF

vars == <<failed, pending, said>>

Init == failed = FALSE /\ pending = FALSE /\ said = "none"

(* A failure takes back an unannounced recovery; it is said when it is new,*)
(* and may be said again.                                                  *)
Fail ==
    /\ failed' = TRUE
    /\ pending' = FALSE
    /\ said' \in IF failed THEN {said, "ON"} ELSE {"ON"}

Confirm ==
    /\ failed
    /\ failed' = FALSE
    /\ pending' = TRUE
    /\ UNCHANGED said

Announce ==
    /\ pending
    /\ pending' = FALSE
    /\ said' = "OFF"
    /\ UNCHANGED failed

Next == Fail \/ Confirm \/ Announce

Spec == Init /\ [][Next]_vars
-----------------------------------------------------------------------------
TypeOK == failed \in BOOLEAN /\ pending \in BOOLEAN /\ said \in {"none", "ON", "OFF"}

(* The last word is ON exactly while communication is failed, except for a *)
(* recovery that the ticker has yet to announce.                           *)
SaidAgrees == ~pending => (said = "ON" <=> failed)
=============================================================================
