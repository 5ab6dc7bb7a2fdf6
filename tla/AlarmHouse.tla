------------------------------ MODULE AlarmHouse ------------------------------
(***************************************************************************)
(* Arming and disarming (nodered/flows.json, tab alarme_casa).             *)
(*                                                                         *)
(* An intention is registered and a call sent to the panel; a call that    *)
(* fails is sent again after a while, if its action is still intended.     *)
(* Registering and looking the intention up are equally far from the call, *)
(* so calls leave in the order in which intentions were registered or      *)
(* found unchanged.  The panel takes them in that order.                   *)
(***************************************************************************)
EXTENDS Naturals, Sequences, SequencesExt

CONSTANT MaxAttempts    \* of the policy; 0 stands for no limit

ASSUME AttemptsAssumption == MaxAttempts \in Nat

VARIABLES
    desired,    \* alarm_house_state_v1: the last intention
    saved,      \* its copy on disk
    sends,      \* messages on their way to the call
    calls,      \* service calls the panel has not finished
    waiting,    \* messages in the delay before the next attempt
    panel,      \* what the panel was last told
    abandoned   \* nobody pursues the last intention any more

alarm == <<desired, saved, sends, calls, waiting, panel, abandoned>>
-----------------------------------------------------------------------------
Actions == {"arm", "disarm"}
Message == [action : Actions, attempt : Nat]
Call == [action : Actions, attempt : Nat, heard : BOOLEAN]

AlarmInit ==
    /\ desired = "none" /\ saved = "none"
    /\ sends = <<>> /\ calls = <<>> /\ waiting = <<>>
    /\ panel \in Actions
    /\ abandoned = FALSE

Intend(action) ==
    /\ desired' = action
    /\ sends' = Append(sends, [action |-> action, attempt |-> 0])
    /\ abandoned' = FALSE
    /\ UNCHANGED <<saved, calls, waiting, panel>>

Send ==
    /\ sends # <<>>
    /\ calls' = Append(calls, [action |-> Head(sends).action,
                               attempt |-> Head(sends).attempt, heard |-> TRUE])
    /\ sends' = Tail(sends)
    /\ UNCHANGED <<desired, saved, waiting, panel, abandoned>>

(* The counter of attempts, of no interest where there is no limit.        *)
Attempt(c) == IF MaxAttempts = 0 THEN 0 ELSE c.attempt + 1
RetryAllowed(c) == MaxAttempts = 0 \/ c.attempt + 1 < MaxAttempts

Accepted ==
    /\ calls # <<>>
    /\ panel' = Head(calls).action
    /\ calls' = Tail(calls)
    /\ UNCHANGED <<desired, saved, sends, waiting, abandoned>>

(* An error may mean that the action was carried out and the answer lost.  *)
Rejected(carried) ==
    /\ calls # <<>>
    /\ LET c == Head(calls)
       IN /\ panel' = IF carried THEN c.action ELSE panel
          /\ waiting' = IF c.heard /\ RetryAllowed(c)
                        THEN Append(waiting, [action |-> c.action, attempt |-> Attempt(c)])
                        ELSE waiting
          /\ abandoned' = (abandoned \/ (c.heard /\ ~RetryAllowed(c)))
    /\ calls' = Tail(calls)
    /\ UNCHANGED <<desired, saved, sends>>

(* The delay is the policy's when each began, so the later may end first.  *)
StaleRetried(m) == TRUE
StillSaved(m) == saved = m.action
StillDesired(m) == desired = m.action
Retry(i) ==
    /\ sends' = IF StillDesired(waiting[i]) THEN Append(sends, waiting[i]) ELSE sends
    /\ waiting' = RemoveAt(waiting, i)
    /\ UNCHANGED <<desired, saved, calls, panel, abandoned>>

(* The store is written every thirty seconds.  What a restart interrupts   *)
(* is not taken up again.                                                  *)
Flush ==
    /\ saved' = desired
    /\ UNCHANGED <<desired, sends, calls, waiting, panel, abandoned>>
Interrupted ==
    /\ desired' = saved
    /\ sends' = <<>> /\ waiting' = <<>>
    /\ calls' = [i \in DOMAIN calls |-> [calls[i] EXCEPT !.heard = FALSE]]
    /\ abandoned' = TRUE
    /\ UNCHANGED <<saved, panel>>

AlarmNext ==
    \/ \E action \in Actions : Intend(action)
    \/ Send \/ Accepted \/ Flush \/ Interrupted
    \/ \E i \in DOMAIN waiting : Retry(i)
    \/ \E carried \in BOOLEAN : Rejected(carried)

AlarmSpec == AlarmInit /\ [][AlarmNext]_alarm
-----------------------------------------------------------------------------
(* Every variable stays in its domain.                                     *)
AlarmTypeOK ==
    /\ {desired, saved} \subseteq Actions \cup {"none"}
    /\ sends \in Seq(Message) /\ waiting \in Seq(Message)
    /\ calls \in Seq(Call)
    /\ panel \in Actions
    /\ abandoned \in BOOLEAN

(* Once no call and no retry is under way, the panel is as it was last     *)
(* wanted: an old retry never reverts the last command, and a failed one   *)
(* is not forgotten.                                                       *)
Quiet == sends = <<>> /\ calls = <<>> /\ waiting = <<>>
PanelFollowsIntent ==
    ~abandoned /\ desired # "none" /\ Quiet => panel = desired
=============================================================================
