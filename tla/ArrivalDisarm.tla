---------------------------- MODULE ArrivalDisarm ----------------------------
(***************************************************************************)
(* Disarming on arrival (nodered/flows.json, tab alarme_desarme_chegada;   *)
(* alarm-arrival-*.js and notification-hub-*.js in nodered/tools/functions)*)
(* in front of AlarmHouse.                                                 *)
(*                                                                         *)
(* While the panel is armed, a confirmed return builds a token and asks    *)
(* each resident, by one call to the mobile hub each, whether to disarm.   *)
(* The first call that Home Assistant accepts makes the token pending, and *)
(* an answer to the pending token, in time, is obeyed.  Facts are read at  *)
(* the head of a chain of switches and acted upon at its end, so a second  *)
(* arrival or answer may read before the first has acted.                  *)
(*                                                                         *)
(* A token is its number; 0 stands for none.  A tick stands for fifteen    *)
(* seconds, a chain of nodes takes none.                                   *)
(***************************************************************************)
EXTENDS AlarmHouse

CONSTANTS
    Residents,
    Ttl,            \* ticks an answer is taken for
    Window,         \* ticks a delivery keeps other arrivals out
    Cooldown,       \* ticks an accepted one does
    MaxTries,       \* times a call to a missing service is repeated
    Budgets         \* bound, one to choose from: arrivals, errors of pushes,
                    \* other intentions, errors of the panel, restarts, writes
                    \* of the store, ticks

ASSUME ArrivalAssumption ==
    /\ {Ttl, Window, Cooldown, MaxTries} \subseteq Nat
    /\ Budgets \subseteq [{"arrival", "error", "intent", "reject",
                          "restart", "flush", "tick"} -> Nat]

VARIABLES
    ages,       \* ticks since each token was built
    pending,    \* alarm_arrival_pending_confirmation
    inflight,   \* alarm_arrival_confirmation_inflight
    last,       \* the token alarm_arrival_last_confirmation_at is from
    walking,    \* arrivals that may ask and have not built their token
    legs,       \* per token and resident, the call to the hub
    prompts,    \* questions on phones
    answers,    \* answers that have read the pending token, on their way
    old,        \* tokens of earlier processes
    confirmed,  \* tokens somebody chose in time to disarm on, in one process
    ordered,    \* tokens the panel was disarmed on
    kept,       \* tokens the panel was kept armed on
    budget,     \* the bounds of this behaviour
    used        \* how much of each is spent

arrival == <<ages, pending, inflight, last, walking, legs, prompts, answers,
             old, confirmed, ordered, kept>>
vars == <<alarm, arrival, budget, used>>
-----------------------------------------------------------------------------
Tokens == DOMAIN ages
Leg == [at : {"calling", "carried", "waiting", "over"}, tries : 0 .. MaxTries,
        pushes : Nat]
Start == [at |-> "calling", tries |-> 0, pushes |-> 0]
Replies == {"confirm", "cancel"}

(* Facts about the token an entry of the context is from.                  *)
Active(t, ticks) == t # 0 /\ ages[t] < ticks

Spend(kind) ==
    /\ used[kind] < budget[kind]
    /\ used' = [used EXCEPT ![kind] = @ + 1]
    /\ UNCHANGED budget
Free == UNCHANGED <<budget, used>>

Init ==
    /\ AlarmInit
    /\ ages = <<>> /\ pending = 0 /\ inflight = 0 /\ last = 0
    /\ walking = 0 /\ legs = <<>> /\ prompts = {} /\ answers = <<>>
    /\ old = 0 /\ confirmed = {} /\ ordered = {} /\ kept = {}
    /\ budget \in Budgets
    /\ used = [kind \in DOMAIN budget |-> 0]
-----------------------------------------------------------------------------
(* Arrivals.                                                               *)
MayAsk ==
    /\ ~Active(pending, Ttl)
    /\ ~Active(inflight, Window)
    /\ ~Active(last, Cooldown)

Arrive ==
    /\ panel = "arm" /\ MayAsk
    /\ walking' = walking + 1
    /\ Spend("arrival")
    /\ UNCHANGED <<alarm, ages, pending, inflight, last, legs, prompts,
                   answers, old, confirmed, ordered, kept>>

Build ==
    /\ walking > 0
    /\ walking' = walking - 1
    /\ ages' = Append(ages, 0)
    /\ pending' = 0
    /\ inflight' = Len(ages) + 1
    /\ legs' = Append(legs, [r \in Residents |-> Start])
    /\ Free
    /\ UNCHANGED <<alarm, last, prompts, answers, old, confirmed, ordered,
                   kept>>
-----------------------------------------------------------------------------
(* The call to the hub for resident r, which calls Home Assistant.         *)
Step(t, r, leg) == legs' = [legs EXCEPT ![t][r] = leg]

Push(t, r) ==
    /\ legs[t][r].at = "calling"
    /\ Step(t, r, [at |-> "carried", tries |-> legs[t][r].tries,
                   pushes |-> legs[t][r].pushes + 1])
    /\ prompts' = prompts \cup {<<t, r>>}
    /\ Free
    /\ UNCHANGED <<alarm, ages, pending, inflight, last, walking, answers,
                   old, confirmed, ordered, kept>>

BadPromote(t, r) ==     \* both results of the hub lead here
    /\ legs[t][r].at \in {"carried", "over"}
    /\ Step(t, r, [legs[t][r] EXCEPT !.at = "over"])
    /\ IF pending \in {0, t} \/ ages[pending] >= Ttl
       THEN pending' = t /\ last' = t
       ELSE UNCHANGED <<pending, last>>
    /\ inflight' = IF inflight = t THEN 0 ELSE inflight
    /\ Free
    /\ UNCHANGED <<alarm, ages, walking, prompts, answers, old, confirmed,
                   ordered, kept>>
Promote(t, r) ==
    /\ legs[t][r].at = "carried"
    /\ Step(t, r, [legs[t][r] EXCEPT !.at = "over"])
    /\ IF pending \in {0, t} \/ ages[pending] >= Ttl
       THEN pending' = t /\ last' = t
       ELSE UNCHANGED <<pending, last>>
    /\ inflight' = IF inflight = t THEN 0 ELSE inflight
    /\ Free
    /\ UNCHANGED <<alarm, ages, walking, prompts, answers, old, confirmed,
                   ordered, kept>>

(* An error, or the timeout of the call to the hub, which changes nothing  *)
(* here.  A missing service carries nothing out.                           *)
Errors(at) == CASE at = "calling" -> {"missing", "other"}
                [] at = "carried" -> {"other"}
                [] OTHER -> {}
AnyRetryable(error) == error \in {"missing", "other"}
Retryable(error) == error = "missing"
BadFail(t, r) ==    \* one repetition too many
    /\ \E error \in Errors(legs[t][r].at) :
          Step(t, r, IF Retryable(error) /\ legs[t][r].tries <= MaxTries
                     THEN [at |-> "waiting", tries |-> legs[t][r].tries + 1,
                           pushes |-> legs[t][r].pushes]
                     ELSE [legs[t][r] EXCEPT !.at = "over"])
    /\ Spend("error")
    /\ UNCHANGED <<alarm, ages, pending, inflight, last, walking, prompts,
                   answers, old, confirmed, ordered, kept>>
Fail(t, r) ==
    /\ \E error \in Errors(legs[t][r].at) :
          Step(t, r, IF Retryable(error) /\ legs[t][r].tries < MaxTries
                     THEN [at |-> "waiting", tries |-> legs[t][r].tries + 1,
                           pushes |-> legs[t][r].pushes]
                     ELSE [legs[t][r] EXCEPT !.at = "over"])
    /\ Spend("error")
    /\ UNCHANGED <<alarm, ages, pending, inflight, last, walking, prompts,
                   answers, old, confirmed, ordered, kept>>

Again(t, r) ==
    /\ legs[t][r].at = "waiting"
    /\ Step(t, r, [legs[t][r] EXCEPT !.at = "calling"])
    /\ Free
    /\ UNCHANGED <<alarm, ages, pending, inflight, last, walking, prompts,
                   answers, old, confirmed, ordered, kept>>
-----------------------------------------------------------------------------
(* Answers.  What an answer will do follows from the pending token it reads.*)
BadEffect(t, choice) ==     \* what does not keep it armed confirms
    CASE pending = 0 -> "nothing"
      [] pending # 0 /\ ages[pending] > Ttl -> "expire"
      [] pending # 0 /\ ages[pending] <= Ttl ->
            IF t = pending /\ choice = "cancel" THEN "cancel" ELSE "confirm"
Effect(t, choice) ==
    CASE pending = 0 -> "nothing"
      [] pending # 0 /\ ages[pending] > Ttl -> "expire"
      [] pending # 0 /\ ages[pending] <= Ttl ->
            IF t = pending THEN choice ELSE "nothing"

Tap(t, r, choice) ==
    /\ <<t, r>> \in prompts
    /\ prompts' = prompts \ {<<t, r>>}
    /\ answers' = IF Effect(t, choice) = "nothing" THEN answers
                  ELSE Append(answers, [does |-> Effect(t, choice), token |-> pending])
    /\ confirmed' = IF choice = "confirm" /\ t > old /\ ages[t] <= Ttl
                    THEN confirmed \cup {t} ELSE confirmed
    /\ Free
    /\ UNCHANGED <<alarm, ages, pending, inflight, last, walking, legs, old,
                   ordered, kept>>

Settle(i) ==
    /\ pending' = 0
    /\ answers' = RemoveAt(answers, i)
    /\ \/ /\ answers[i].does = "confirm"
          /\ Intend("disarm")
          /\ ordered' = ordered \cup {answers[i].token}
          /\ UNCHANGED kept
       \/ /\ answers[i].does # "confirm"
          /\ kept' = IF answers[i].does = "cancel"
                     THEN kept \cup {answers[i].token} ELSE kept
          /\ UNCHANGED <<alarm, ordered>>
    /\ Free
    /\ UNCHANGED <<ages, inflight, last, walking, legs, prompts, old,
                   confirmed>>
-----------------------------------------------------------------------------
Tick ==
    /\ walking = 0 /\ answers = <<>> /\ ages # <<>>
    /\ ages' = [t \in Tokens |-> ages[t] + 1]
    /\ Spend("tick")
    /\ UNCHANGED <<alarm, pending, inflight, last, walking, legs, prompts,
                   answers, old, confirmed, ordered, kept>>

(* Nothing of an arrival survives a restart but what is on phones.         *)
Restart ==
    /\ Interrupted
    /\ pending' = 0 /\ inflight' = 0 /\ last' = 0 /\ walking' = 0
    /\ legs' = [t \in Tokens |-> [r \in Residents |->
                   [legs[t][r] EXCEPT !.at = "over"]]]
    /\ answers' = <<>>
    /\ old' = Len(ages)
    /\ Spend("restart")
    /\ UNCHANGED <<ages, prompts, confirmed, ordered, kept>>

(* The rest of the alarm, which arrivals take no part in.                  *)
Apart == UNCHANGED arrival
Others == Spend("intent") /\ Apart /\ \E action \in Actions : Intend(action)
Called == Send /\ Free /\ Apart
Answered ==
    \/ Accepted /\ Free /\ Apart
    \/ Spend("reject") /\ Apart /\ \E carried \in BOOLEAN : Rejected(carried)
Retried == Free /\ Apart /\ \E i \in DOMAIN waiting : Retry(i)
Flushed == Flush /\ Spend("flush") /\ Apart

Next ==
    \/ Arrive \/ Build \/ Tick \/ Restart
    \/ \E t \in Tokens, r \in Residents :
          \/ Push(t, r) \/ Promote(t, r) \/ Fail(t, r) \/ Again(t, r)
          \/ \E choice \in Replies : Tap(t, r, choice)
    \/ \E i \in DOMAIN answers : Settle(i)
    \/ Others \/ Called \/ Answered \/ Retried \/ Flushed

Spec == Init /\ [][Next]_vars
             /\ WF_vars(Called) /\ WF_vars(Answered) /\ WF_vars(Retried)
-----------------------------------------------------------------------------
(* Every variable stays in its domain.                                     *)
TypeOK ==
    /\ AlarmTypeOK
    /\ ages \in Seq(Nat)
    /\ legs \in Seq([Residents -> Leg]) /\ Len(legs) = Len(ages)
    /\ {pending, inflight, last, old} \subseteq Tokens \cup {0}
    /\ walking \in Nat
    /\ prompts \subseteq Tokens \X Residents
    /\ answers \in Seq([does : Replies \cup {"expire"}, token : Tokens])
    /\ confirmed \cup ordered \cup kept \subseteq Tokens

(* An arrival disarms only on a token somebody chose to disarm on, while   *)
(* it was good and the process that built it ran; neither an answer to     *)
(* another token nor a late one does (alarm-arrival-confirmation-read.js). *)
DisarmWasConfirmed == ordered \subseteq confirmed

(* No phone is asked twice by one call to the hub, whatever it repeats     *)
(* (notification-hub-service-retry.js).                                    *)
PromptedOnce == \A t \in Tokens, r \in Residents : legs[t][r].pushes <= 1

(* A delivery that fails on both phones neither takes answers nor starts   *)
(* the cooldown (alarm-arrival-notification-failure.js).                   *)
AcceptedWasPushed ==
    \A t \in {pending, last} \ {0} : \E r \in Residents : legs[t][r].pushes > 0

(* A call that fails is repeated until the panel is as it was wanted, or   *)
(* something else is, or nobody pursues it any more.                       *)
IntentReached ==
    \A action \in Actions :
        desired = action ~> panel = action \/ desired # action \/ abandoned

(* A token that was disarmed or kept armed on takes no further answer      *)
(* (docs/ALARME_DESARME_CHEGADA_NODERED.md).                               *)
SecondAnswerIgnored ==
    [][\A choice \in Replies, t \in ordered \cup kept :
          answers' # Append(answers, [does |-> choice, token |-> t])]_vars
=============================================================================
