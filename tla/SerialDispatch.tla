--------------------------- MODULE SerialDispatch ---------------------------
(***************************************************************************)
(* What the task coordinator promises about the requests it sends to the   *)
(* Codex daemon, without saying how.  Every operation has an identity.  An *)
(* operation is opened when nothing else is open, its effect happens at    *)
(* most once and only while it is open, and it is closed for good.  An     *)
(* operation may also be closed without ever having been opened (a refusal *)
(* that is recorded).  An operation whose fate is not known stays open.    *)
(***************************************************************************)
EXTENDS Naturals

CONSTANT Ops                  \* operation identities

VARIABLES
    status,                   \* [Ops -> {"idle", "open", "closed"}]
    effects                   \* [Ops -> Nat]: times the daemon carried it out

vars == <<status, effects>>

TypeOK ==
    /\ status \in [Ops -> {"idle", "open", "closed"}]
    /\ effects \in [Ops -> Nat]

Init ==
    /\ status = [o \in Ops |-> "idle"]
    /\ effects = [o \in Ops |-> 0]

Open(o) ==
    /\ status[o] = "idle"
    /\ \A p \in Ops : status[p] # "open"
    /\ status' = [status EXCEPT ![o] = "open"]
    /\ UNCHANGED effects

Refuse(o) ==
    /\ status[o] = "idle"
    /\ status' = [status EXCEPT ![o] = "closed"]
    /\ UNCHANGED effects

Effect(o) ==
    /\ status[o] = "open"
    /\ effects[o] = 0
    /\ effects' = [effects EXCEPT ![o] = 1]
    /\ UNCHANGED status

Close(o) ==
    /\ status[o] = "open"
    /\ status' = [status EXCEPT ![o] = "closed"]
    /\ UNCHANGED effects

Next == \E o \in Ops : Open(o) \/ Refuse(o) \/ Effect(o) \/ Close(o)

Spec == Init /\ [][Next]_vars
=============================================================================
