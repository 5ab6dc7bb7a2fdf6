------------------------- MODULE ArrivalDisarmProofs -------------------------
(***************************************************************************)
(* Of ArrivalDisarm: that its arrivals use the alarm only as AlarmHouse    *)
(* allows, and that whatever is delivered late, repeated, answered or      *)
(* interrupted, a disarm goes back to somebody's choice in good time.      *)
(***************************************************************************)
EXTENDS ArrivalDisarm, AlarmHouseProofs

(* What is known of a call to the hub by where it stands.                  *)
LegSound(t, leg) ==
    /\ leg.pushes <= 1
    /\ leg.at \in {"calling", "waiting"} => leg.pushes = 0
    /\ leg.at = "carried" => leg.pushes = 1
    /\ leg.at # "over" => t > old
LegsSound == \A t \in Tokens, r \in Residents : LegSound(t, legs[t][r])

(* The pending token is of this process, and answers that confirm come     *)
(* from a choice to do so.                                                 *)
PendingIsNew == old <= Len(ages) /\ (pending # 0 => pending > old)
AnswersSound ==
    \A i \in DOMAIN answers :
        answers[i].does = "confirm" => answers[i].token \in confirmed

Sound == /\ LegsSound /\ PendingIsNew /\ AcceptedWasPushed
         /\ AnswersSound /\ DisarmWasConfirmed

ArrivalTypeOK ==
    /\ ages \in Seq(Nat)
    /\ legs \in Seq([Residents -> Leg]) /\ Len(legs) = Len(ages)
    /\ {pending, inflight, last, old} \subseteq Tokens \cup {0}
    /\ walking \in Nat
    /\ prompts \subseteq Tokens \X Residents
    /\ answers \in Seq([does : Replies \cup {"expire"}, token : Tokens])
    /\ confirmed \cup ordered \cup kept \subseteq Tokens
-----------------------------------------------------------------------------
(* Every step is one of the alarm or leaves the alarm alone.               *)
LEMMA AlarmStep == [Next]_vars => [AlarmNext]_alarm
<1> SUFFICES ASSUME [Next]_vars  PROVE [AlarmNext]_alarm
  OBVIOUS
<1>1. CASE UNCHANGED vars
  BY <1>1 DEF vars, alarm
<1>2. CASE Arrive \/ Build \/ Tick
  BY <1>2 DEF Arrive, Build, Tick
<1>3. CASE Restart
  BY <1>3 DEF Restart, AlarmNext
<1>4. ASSUME NEW t \in Tokens, NEW r \in Residents,
             \/ Push(t, r) \/ Promote(t, r) \/ Fail(t, r) \/ Again(t, r)
             \/ \E choice \in Replies : Tap(t, r, choice)
      PROVE  UNCHANGED alarm
  BY <1>4 DEF Push, Promote, Fail, Again, Tap
<1>5. ASSUME NEW i \in DOMAIN answers, Settle(i)  PROVE [AlarmNext]_alarm
  BY <1>5 DEF Settle, AlarmNext, Actions
<1>6. CASE Others \/ Called \/ Answered \/ Retried \/ Flushed
  BY <1>6 DEF Others, Called, Answered, Retried, Flushed, AlarmNext
<1> QED BY <1>1, <1>2, <1>3, <1>4, <1>5, <1>6 DEF Next

(* The alarm in front of which arrivals stand behaves as it does alone.    *)
THEOREM ArrivalsUseAlarm == Spec => AlarmSpec
<1>1. Init => AlarmInit
  BY DEF Init
<1> QED BY <1>1, AlarmStep, PTL DEF Spec, AlarmSpec

(* Arrivals and answers leave the panel as it was last wanted, too.        *)
THEOREM ArrivalsFollowIntent == Spec => []PanelFollowsIntent
BY ArrivalsUseAlarm, AlarmFollowsIntent, PTL
-----------------------------------------------------------------------------
(* A sequence over a set is one over a larger set.                         *)
LEMMA Wider ==
    ASSUME NEW S, NEW T, S \subseteq T, NEW s \in Seq(S)
    PROVE  s \in Seq(T)
<1>1. Len(s) \in Nat /\ s \in [1 .. Len(s) -> S]
  BY LenProperties
<1>2. s \in [1 .. Len(s) -> T]
  BY <1>1
<1> QED BY <1>1, <1>2, Sequence

(* The leg of a token and a resident is one.                               *)
LEMMA LegTyped ==
    ASSUME ArrivalTypeOK, NEW t \in Tokens, NEW r \in Residents
    PROVE  legs[t][r] \in Leg
<1>1. /\ Len(legs) \in Nat /\ Tokens = 1 .. Len(legs)
      /\ legs \in [1 .. Len(legs) -> [Residents -> Leg]]
  BY LenProperties DEF ArrivalTypeOK, Tokens
<1> QED BY <1>1

(* A leg that goes elsewhere.                                              *)
LEMMA LegAt ==
    ASSUME NEW x \in Leg, NEW at \in {"calling", "carried", "waiting", "over"}
    PROVE  [x EXCEPT !.at = at]
              = [at |-> at, tries |-> x.tries, pushes |-> x.pushes]
BY DEF Leg

(* Legs and what is said of them, after a step of one leg.                 *)
LEMMA LegStep ==
    ASSUME ArrivalTypeOK, LegsSound, UNCHANGED <<ages, old>>,
           NEW t \in Tokens, NEW r \in Residents, NEW leg \in Leg,
           LegSound(t, leg), Step(t, r, leg)
    PROVE  /\ legs' \in Seq([Residents -> Leg]) /\ Len(legs') = Len(ages')
           /\ LegsSound'
           /\ \A u \in Tokens, q \in Residents :
                 legs'[u][q] = IF u = t /\ q = r THEN leg ELSE legs[u][q]
<1>1. /\ Len(legs) \in Nat /\ Tokens = 1 .. Len(legs)
      /\ legs \in [1 .. Len(legs) -> [Residents -> Leg]]
  BY LenProperties DEF ArrivalTypeOK, Tokens
<1>2. /\ legs' \in [1 .. Len(legs) -> [Residents -> Leg]]
      /\ \A u \in Tokens, q \in Residents :
            legs'[u][q] = IF u = t /\ q = r THEN leg ELSE legs[u][q]
  BY <1>1 DEF Step
<1>3. legs' \in Seq([Residents -> Leg])
  BY <1>1, <1>2, Sequence
<1>4. Len(legs') = Len(legs)
  BY <1>1, <1>2, <1>3, LenProperties
<1>5. Tokens' = Tokens
  BY DEF Tokens
<1>6. LegsSound'
  BY <1>2, <1>5 DEF LegsSound, LegSound
<1> QED BY <1>2, <1>3, <1>4, <1>6 DEF ArrivalTypeOK

(* What the next lemmas show of one step.                                  *)
Kept == ArrivalTypeOK' /\ Sound'

(* An arrival that may ask changes no token.                               *)
LEMMA ArriveStep == ASSUME ArrivalTypeOK, Sound, Arrive  PROVE Kept
<1>1. ArrivalTypeOK'
  BY DEF Arrive, ArrivalTypeOK, Tokens
<1> QED BY <1>1 DEF Arrive, Kept, Sound, LegsSound, LegSound, PendingIsNew,
              AcceptedWasPushed, AnswersSound, DisarmWasConfirmed, Tokens

(* A token is built with no leg pushed, not pending and unanswered.        *)
LEMMA BuildStep == ASSUME ArrivalTypeOK, Sound, Build  PROVE Kept
<1> DEFINE new == [r \in Residents |-> Start]
<1>1. /\ Len(ages) \in Nat /\ Tokens = 1 .. Len(ages)
      /\ new \in [Residents -> Leg]
  BY ArrivalAssumption, LenProperties DEF ArrivalTypeOK, Tokens, Leg, Start
<1>2. /\ ages' = Append(ages, 0) /\ ages' \in Seq(Nat)
      /\ Len(ages') = Len(ages) + 1 /\ Tokens' = 1 .. Len(ages) + 1
  BY <1>1, AppendProperties, LenProperties DEF Build, ArrivalTypeOK, Tokens
<1>3. /\ legs' = Append(legs, new) /\ legs' \in Seq([Residents -> Leg])
      /\ Len(legs') = Len(legs) + 1
      /\ \A t \in 1 .. Len(legs) : legs'[t] = legs[t]
      /\ legs'[Len(legs) + 1] = new
  BY <1>1, AppendProperties DEF Build, ArrivalTypeOK
<1>4. Tokens \subseteq Tokens'
  BY <1>1, <1>2
<1>5. ArrivalTypeOK'
  <2>1. answers' \in Seq([does : Replies \cup {"expire"}, token : Tokens'])
    <3>1. [does : Replies \cup {"expire"}, token : Tokens]
             \subseteq [does : Replies \cup {"expire"}, token : Tokens']
      BY <1>4
    <3>2. answers \in Seq([does : Replies \cup {"expire"}, token : Tokens'])
      BY <3>1, Wider DEF ArrivalTypeOK
    <3> QED BY <3>2 DEF Build
  <2>2. walking' \in Nat /\ {pending', inflight', last', old'} \subseteq Tokens' \cup {0}
    BY <1>1, <1>2, <1>4 DEF Build, ArrivalTypeOK
  <2>3. /\ prompts' \subseteq Tokens' \X Residents
        /\ confirmed' \cup ordered' \cup kept' \subseteq Tokens'
    BY <1>4 DEF Build, ArrivalTypeOK
  <2> QED BY <1>2, <1>3, <2>1, <2>2, <2>3 DEF ArrivalTypeOK
<1>6. LegsSound'
  <2> SUFFICES ASSUME NEW t \in Tokens', NEW r \in Residents
               PROVE  LegSound(t, legs[t][r])'
    BY DEF LegsSound
  <2>1. CASE t \in Tokens
    <3>1. legs'[t][r] = legs[t][r] /\ LegSound(t, legs[t][r])
      BY <1>1, <1>3, <2>1 DEF ArrivalTypeOK, Sound, LegsSound
    <3> QED BY <3>1 DEF Build, LegSound
  <2>2. CASE t = Len(ages) + 1
    <3>1. legs'[t][r] = Start /\ t > old'
      BY <1>1, <1>3, <2>2 DEF Build, ArrivalTypeOK, Sound, PendingIsNew
    <3> QED BY <3>1 DEF LegSound, Start
  <2> QED BY <1>1, <1>2, <2>1, <2>2
<1>7. PendingIsNew'
  BY <1>1, <1>2 DEF Build, ArrivalTypeOK, Sound, PendingIsNew
<1>8. AcceptedWasPushed'
  <2> SUFFICES ASSUME last # 0
               PROVE  \E r \in Residents : legs'[last][r].pushes > 0
    BY DEF Build, AcceptedWasPushed
  <2>1. last \in Tokens /\ legs'[last] = legs[last]
    BY <1>1, <1>3 DEF ArrivalTypeOK
  <2> QED BY <2>1 DEF Sound, AcceptedWasPushed
<1>9. AnswersSound' /\ DisarmWasConfirmed'
  BY DEF Build, Sound, AnswersSound, DisarmWasConfirmed
<1> QED BY <1>5, <1>6, <1>7, <1>8, <1>9 DEF Kept, Sound

(* The steps of a leg that change nothing else but prompts.                *)
LEMMA QuietLegStep ==
    ASSUME ArrivalTypeOK, Sound,
           NEW t \in Tokens, NEW r \in Residents, NEW leg \in Leg,
           LegSound(t, leg), Step(t, r, leg),
           leg.pushes >= legs[t][r].pushes,
           UNCHANGED <<ages, pending, inflight, last, walking, answers, old,
                       confirmed, ordered, kept>>,
           prompts' \subseteq prompts \cup {<<t, r>>}
    PROVE  Kept
<1>1. /\ legs' \in Seq([Residents -> Leg]) /\ Len(legs') = Len(ages')
      /\ LegsSound'
      /\ \A u \in Tokens, q \in Residents :
            legs'[u][q] = IF u = t /\ q = r THEN leg ELSE legs[u][q]
  BY LegStep DEF Sound
<1>2. ArrivalTypeOK'
  BY <1>1 DEF ArrivalTypeOK, Tokens
<1>3. AcceptedWasPushed'
  <2> SUFFICES ASSUME NEW u \in {pending, last} \ {0}
               PROVE  \E q \in Residents : legs'[u][q].pushes > 0
    BY DEF AcceptedWasPushed
  <2>1. PICK q \in Residents : legs[u][q].pushes > 0
    BY DEF Sound, AcceptedWasPushed
  <2>2. u \in Tokens
    BY DEF ArrivalTypeOK
  <2>3. legs'[u][q].pushes > 0
    <3>1. CASE u = t /\ q = r
      <4>1. legs[u][q].pushes \in Nat /\ leg.pushes \in Nat
        BY <2>2, LegTyped DEF Leg
      <4> QED BY <1>1, <2>1, <2>2, <3>1, <4>1
    <3>2. CASE ~(u = t /\ q = r)
      BY <1>1, <2>1, <2>2, <3>2
    <3> QED BY <3>1, <3>2
  <2> QED BY <2>3
<1> QED BY <1>1, <1>2, <1>3 DEF Kept, Sound, PendingIsNew, AnswersSound,
           DisarmWasConfirmed

(* A push is the first of its call.                                        *)
LEMMA PushStep ==
    ASSUME ArrivalTypeOK, Sound, NEW t \in Tokens, NEW r \in Residents, Push(t, r)
    PROVE  Kept
<1> DEFINE leg == [at |-> "carried", tries |-> legs[t][r].tries,
                   pushes |-> legs[t][r].pushes + 1]
<1>1. legs[t][r] \in Leg /\ LegSound(t, legs[t][r]) /\ legs[t][r].at = "calling"
  BY LegTyped DEF Push, Sound, LegsSound
<1>2. /\ legs[t][r].pushes = 0 /\ t > old
      /\ legs[t][r].tries \in 0 .. MaxTries
  BY <1>1 DEF Leg, LegSound
<1>3. leg \in Leg /\ LegSound(t, leg) /\ leg.pushes >= legs[t][r].pushes
  BY <1>2 DEF Leg, LegSound
<1> QED BY <1>3, QuietLegStep DEF Push

(* An error after the push ends the call; one before it may repeat it.     *)
LEMMA FailStep ==
    ASSUME ArrivalTypeOK, Sound, NEW t \in Tokens, NEW r \in Residents, Fail(t, r)
    PROVE  Kept
<1>1. legs[t][r] \in Leg /\ LegSound(t, legs[t][r])
  BY LegTyped DEF Sound, LegsSound
<1> DEFINE again == [at |-> "waiting", tries |-> legs[t][r].tries + 1,
                     pushes |-> legs[t][r].pushes]
           over == [legs[t][r] EXCEPT !.at = "over"]
<1>2. PICK error \in Errors(legs[t][r].at) :
         Step(t, r, IF Retryable(error) /\ legs[t][r].tries < MaxTries
                    THEN again ELSE over)
  BY DEF Fail
<1>3. CASE Retryable(error) /\ legs[t][r].tries < MaxTries
  <2>1. legs[t][r].at = "calling"
    BY <1>1, <1>3 DEF Retryable, Errors, Leg
  <2>2. /\ legs[t][r].pushes = 0 /\ t > old
        /\ legs[t][r].tries + 1 \in 0 .. MaxTries
    BY <1>1, <1>3, <2>1, ArrivalAssumption DEF Leg, LegSound
  <2>3. again \in Leg /\ LegSound(t, again) /\ again.pushes >= legs[t][r].pushes
    BY <2>2 DEF Leg, LegSound
  <2> QED BY <1>2, <1>3, <2>3, QuietLegStep DEF Fail
<1>4. CASE ~(Retryable(error) /\ legs[t][r].tries < MaxTries)
  <2>1. over \in Leg /\ LegSound(t, over) /\ over.pushes >= legs[t][r].pushes
    BY <1>1 DEF Leg, LegSound
  <2> QED BY <1>2, <1>4, <2>1, QuietLegStep DEF Fail
<1> QED BY <1>3, <1>4

(* A repeated call has not pushed yet.                                     *)
LEMMA AgainStep ==
    ASSUME ArrivalTypeOK, Sound, NEW t \in Tokens, NEW r \in Residents, Again(t, r)
    PROVE  Kept
<1> DEFINE leg == [legs[t][r] EXCEPT !.at = "calling"]
<1>1. legs[t][r] \in Leg /\ LegSound(t, legs[t][r]) /\ legs[t][r].at = "waiting"
  BY LegTyped DEF Again, Sound, LegsSound
<1>2. leg \in Leg /\ LegSound(t, leg) /\ leg.pushes >= legs[t][r].pushes
  BY <1>1 DEF Leg, LegSound
<1> QED BY <1>2, QuietLegStep DEF Again

(* A token becomes pending by an acceptance, hence after a push.           *)
LEMMA PromoteStep ==
    ASSUME ArrivalTypeOK, Sound, NEW t \in Tokens, NEW r \in Residents,
           Promote(t, r)
    PROVE  Kept
<1> DEFINE leg == [legs[t][r] EXCEPT !.at = "over"]
<1>1. /\ legs[t][r] \in Leg /\ LegSound(t, legs[t][r])
      /\ legs[t][r].at = "carried"
  BY LegTyped DEF Promote, Sound, LegsSound
<1>2. /\ leg \in Leg /\ LegSound(t, leg) /\ leg.pushes = legs[t][r].pushes
      /\ legs[t][r].pushes = 1 /\ t > old
  BY <1>1 DEF Leg, LegSound
<1>3. /\ legs' \in Seq([Residents -> Leg]) /\ Len(legs') = Len(ages')
      /\ LegsSound'
      /\ \A u \in Tokens, q \in Residents :
            legs'[u][q] = IF u = t /\ q = r THEN leg ELSE legs[u][q]
  BY <1>2, LegStep DEF Promote, Sound
<1>4. \/ pending' = t /\ last' = t
      \/ pending' = pending /\ last' = last
  BY DEF Promote
<1>5. ArrivalTypeOK'
  BY <1>3, <1>4 DEF Promote, ArrivalTypeOK, Tokens
<1>6. PendingIsNew'
  BY <1>2, <1>4 DEF Promote, Sound, PendingIsNew
<1>7. AcceptedWasPushed'
  <2> SUFFICES ASSUME NEW u \in {pending', last'} \ {0}
               PROVE  \E q \in Residents : legs'[u][q].pushes > 0
    BY DEF AcceptedWasPushed
  <2>1. CASE u = t
    <3>1. legs'[t][r] = leg
      BY <1>3
    <3>2. leg.pushes = 1
      BY <1>2
    <3> HIDE DEF leg
    <3> QED BY <2>1, <3>1, <3>2
  <2>2. CASE u # t
    <3>1. u \in {pending, last} \ {0}
      BY <1>4, <2>2
    <3>2. u \in Tokens
      BY <3>1 DEF ArrivalTypeOK
    <3>3. PICK q \in Residents : legs[u][q].pushes > 0
      BY <3>1 DEF Sound, AcceptedWasPushed
    <3>4. legs'[u][q] = legs[u][q]
      BY <1>3, <2>2, <3>2
    <3> QED BY <3>3, <3>4
  <2> QED BY <2>1, <2>2
<1> QED BY <1>3, <1>5, <1>6, <1>7 DEF Promote, Kept, Sound, AnswersSound,
           DisarmWasConfirmed
-----------------------------------------------------------------------------
(* An answer that will disarm is to the pending token, chosen in time.     *)
LEMMA TapStep ==
    ASSUME ArrivalTypeOK, Sound, NEW t \in Tokens, NEW r \in Residents,
           NEW choice \in Replies, Tap(t, r, choice)
    PROVE  Kept
<1> DEFINE answer == [does |-> Effect(t, choice), token |-> pending]
           Answer == [does : Replies \cup {"expire"}, token : Tokens]
<1>1. confirmed \subseteq confirmed' /\ confirmed' \subseteq Tokens
  BY DEF Tap, ArrivalTypeOK
<1>2. CASE Effect(t, choice) = "nothing"
  <2>1. answers' = answers
    BY <1>2 DEF Tap
  <2>2. ArrivalTypeOK'
    BY <1>1, <2>1 DEF Tap, ArrivalTypeOK, Tokens
  <2> QED BY <1>1, <2>1, <2>2 DEF Tap, Kept, Sound, LegsSound, LegSound, Tokens,
             PendingIsNew, AcceptedWasPushed, AnswersSound, DisarmWasConfirmed
<1>3. CASE Effect(t, choice) # "nothing"
  <2>1. pending \in Tokens /\ ages[pending] \in Nat
    <3>1. pending # 0
      BY <1>3 DEF Effect
    <3>2. pending \in Tokens
      BY <3>1 DEF ArrivalTypeOK
    <3> QED BY <3>2, LenProperties, ElementOfSeq DEF ArrivalTypeOK, Tokens
  <2>2. Effect(t, choice) \in Replies \cup {"expire"}
    <3>1. pending # 0 /\ Ttl \in Nat
      BY <2>1, LenProperties, ArrivalAssumption DEF ArrivalTypeOK, Tokens
    <3>2. CASE ages[pending] > Ttl
      BY <2>1, <3>1, <3>2 DEF Effect
    <3>3. CASE ages[pending] <= Ttl
      BY <1>3, <2>1, <3>1, <3>3 DEF Effect
    <3> QED BY <2>1, <3>1, <3>2, <3>3
  <2>3. answers' = Append(answers, answer) /\ answer \in Answer
    BY <1>3, <2>1, <2>2 DEF Tap
  <2>4. /\ answers' \in Seq(Answer) /\ Len(answers) \in Nat
        /\ DOMAIN answers = 1 .. Len(answers)
        /\ DOMAIN answers' = 1 .. Len(answers) + 1
        /\ \A i \in DOMAIN answers : answers'[i] = answers[i]
        /\ answers'[Len(answers) + 1] = answer
    BY <2>3, AppendProperties, LenProperties DEF ArrivalTypeOK
  <2>5. ArrivalTypeOK'
    BY <1>1, <2>4 DEF Tap, ArrivalTypeOK, Tokens
  <2>6. answer.does = "confirm" => answer.token \in confirmed'
    <3> SUFFICES ASSUME Effect(t, choice) = "confirm"
                 PROVE  pending \in confirmed'
      OBVIOUS
    <3>1. t = pending /\ choice = "confirm" /\ ages[t] <= Ttl
      BY <2>1, LenProperties, ArrivalAssumption DEF Effect, ArrivalTypeOK, Tokens
    <3>2. t > old
      BY <2>1, <3>1, LenProperties DEF Sound, PendingIsNew, ArrivalTypeOK, Tokens
    <3> QED BY <3>1, <3>2 DEF Tap
  <2>7. AnswersSound'
    BY <1>1, <2>4, <2>6 DEF Sound, AnswersSound
  <2> QED BY <1>1, <2>5, <2>7 DEF Tap, Kept, Sound, LegsSound, LegSound, Tokens,
             PendingIsNew, AcceptedWasPushed, DisarmWasConfirmed
<1> QED BY <1>2, <1>3

(* An answer disarms on the token it read, which was chosen.               *)
LEMMA SettleStep ==
    ASSUME ArrivalTypeOK, Sound, NEW i \in DOMAIN answers, Settle(i)
    PROVE  Kept
<1> DEFINE Answer == [does : Replies \cup {"expire"}, token : Tokens]
<1>1. /\ Len(answers) \in Nat /\ DOMAIN answers = 1 .. Len(answers)
      /\ answers[i] \in Answer
  BY LenProperties, ElementOfSeq DEF ArrivalTypeOK
<1>2. /\ answers' \in Seq(Answer)
      /\ Len(answers') = Len(answers) - 1
      /\ \A j \in 1 .. Len(answers) - 1 :
            answers'[j] = IF j < i THEN answers[j] ELSE answers[j + 1]
  BY Removal DEF Settle, ArrivalTypeOK
<1>3. DOMAIN answers' = 1 .. Len(answers) - 1
  BY <1>2, LenProperties
<1>4. ordered' \subseteq ordered \cup {answers[i].token}
      /\ kept' \subseteq kept \cup {answers[i].token}
  BY DEF Settle
<1>5. ArrivalTypeOK'
  BY <1>1, <1>2, <1>4 DEF Settle, ArrivalTypeOK, Tokens
<1>6. AnswersSound'
  <2> SUFFICES ASSUME NEW j \in 1 .. Len(answers) - 1, answers'[j].does = "confirm"
               PROVE  answers'[j].token \in confirmed
    BY <1>3 DEF Settle, AnswersSound
  <2>1. CASE j < i
    BY <1>1, <1>2, <2>1 DEF Sound, AnswersSound
  <2>2. CASE ~(j < i)
    <3>1. j + 1 \in DOMAIN answers
      BY <1>1
    <3> QED BY <1>2, <2>2, <3>1 DEF Sound, AnswersSound
  <2> QED BY <2>1, <2>2
<1>7. DisarmWasConfirmed'
  BY DEF Settle, Sound, AnswersSound, DisarmWasConfirmed
<1>8. PendingIsNew' /\ AcceptedWasPushed'
  BY DEF Settle, Sound, PendingIsNew, AcceptedWasPushed
<1>9. LegsSound'
  BY DEF Settle, Sound, LegsSound, LegSound, Tokens
<1> QED BY <1>5, <1>6, <1>7, <1>8, <1>9 DEF Kept, Sound

(* Time alone changes nothing but the age of tokens.                       *)
LEMMA TickStep == ASSUME ArrivalTypeOK, Sound, Tick  PROVE Kept
<1>1. Len(ages) \in Nat /\ Tokens = 1 .. Len(ages) /\ ages \in [1 .. Len(ages) -> Nat]
  BY LenProperties DEF ArrivalTypeOK, Tokens
<1>2. ages' \in [1 .. Len(ages) -> Nat]
  BY <1>1 DEF Tick
<1>3. ages' \in Seq(Nat)
  BY <1>1, <1>2, Sequence
<1>4. Len(ages') = Len(ages) /\ Tokens' = Tokens
  BY <1>1, <1>2, <1>3, LenProperties DEF Tokens
<1>5. ArrivalTypeOK'
  BY <1>3, <1>4 DEF Tick, ArrivalTypeOK
<1> QED BY <1>4, <1>5 DEF Tick, Kept, Sound, LegsSound, LegSound, PendingIsNew,
           AcceptedWasPushed, AnswersSound, DisarmWasConfirmed

(* A restart forgets the pending token and ends every call.                *)
LEMMA RestartStep == ASSUME ArrivalTypeOK, Sound, Restart  PROVE Kept
<1>1. /\ Len(legs) \in Nat /\ Tokens = 1 .. Len(legs)
      /\ legs \in [1 .. Len(legs) -> [Residents -> Leg]]
  BY LenProperties DEF ArrivalTypeOK, Tokens
<1>2. /\ legs' \in [1 .. Len(legs) -> [Residents -> Leg]]
      /\ \A t \in Tokens, r \in Residents :
            legs'[t][r] = [legs[t][r] EXCEPT !.at = "over"]
  <2> DEFINE Over(t, r) == [legs[t][r] EXCEPT !.at = "over"]
  <2>1. legs' = [t \in Tokens |-> [r \in Residents |-> Over(t, r)]]
    BY DEF Restart
  <2>2. ASSUME NEW t \in Tokens, NEW r \in Residents  PROVE Over(t, r) \in Leg
    BY LegTyped DEF Leg
  <2> HIDE DEF Over
  <2>3. /\ legs' \in [1 .. Len(legs) -> [Residents -> Leg]]
        /\ \A t \in Tokens, r \in Residents : legs'[t][r] = Over(t, r)
    BY <1>1, <2>1, <2>2
  <2> QED BY <2>3 DEF Over
<1>3. legs' \in Seq([Residents -> Leg]) /\ Len(legs') = Len(legs)
  BY <1>1, <1>2, Sequence, LenProperties
<1>4. /\ answers' = <<>> /\ answers' \in Seq([does : Replies \cup {"expire"}, token : Tokens])
      /\ DOMAIN answers' = {}
  BY EmptySeq DEF Restart
<1>5. Tokens' = Tokens
  BY DEF Restart, Tokens
<1>6. ArrivalTypeOK'
  <2>1. old' \in Tokens \cup {0}
    BY <1>1, LenProperties DEF Restart, ArrivalTypeOK
  <2> QED BY <1>3, <1>4, <1>5, <2>1 DEF Restart, ArrivalTypeOK
<1>7. LegsSound'
  <2> SUFFICES ASSUME NEW t \in Tokens, NEW r \in Residents
               PROVE  LegSound(t, legs[t][r])'
    BY <1>5 DEF LegsSound
  <2>1. legs[t][r] \in Leg /\ LegSound(t, legs[t][r])
    BY LegTyped DEF Sound, LegsSound
  <2>2. legs'[t][r] = [at |-> "over", tries |-> legs[t][r].tries,
                      pushes |-> legs[t][r].pushes]
    BY <1>2, <2>1, LegAt
  <2> QED BY <2>1, <2>2 DEF LegSound
<1>8. PendingIsNew'
  BY <1>1 DEF Restart, PendingIsNew, ArrivalTypeOK
<1> QED BY <1>4, <1>6, <1>7, <1>8 DEF Restart, Kept, Sound, AcceptedWasPushed,
           AnswersSound, DisarmWasConfirmed
-----------------------------------------------------------------------------
(* Every step keeps the invariant of the arrivals.                         *)
LEMMA SoundStep == ArrivalTypeOK /\ Sound /\ [Next]_vars => (ArrivalTypeOK /\ Sound)'
<1> SUFFICES ASSUME ArrivalTypeOK, Sound, [Next]_vars  PROVE Kept
  BY DEF Kept
<1>1. ASSUME UNCHANGED arrival  PROVE Kept
  BY <1>1 DEF arrival, Kept, ArrivalTypeOK, Sound, LegsSound, LegSound, Tokens,
     PendingIsNew, AcceptedWasPushed, AnswersSound, DisarmWasConfirmed
<1>2. CASE UNCHANGED vars
  BY <1>1, <1>2 DEF vars
<1>3. CASE Others \/ Called \/ Answered \/ Retried \/ Flushed
  BY <1>1, <1>3 DEF Others, Called, Answered, Retried, Flushed, Apart
<1>4. CASE Arrive \/ Build \/ Tick \/ Restart
  BY <1>4, ArriveStep, BuildStep, TickStep, RestartStep
<1>5. ASSUME NEW t \in Tokens, NEW r \in Residents,
             \/ Push(t, r) \/ Promote(t, r) \/ Fail(t, r) \/ Again(t, r)
             \/ \E choice \in Replies : Tap(t, r, choice)
      PROVE  Kept
  BY <1>5, PushStep, PromoteStep, FailStep, AgainStep, TapStep
<1>6. ASSUME NEW i \in DOMAIN answers, Settle(i)  PROVE Kept
  BY <1>6, SettleStep
<1> QED BY <1>2, <1>3, <1>4, <1>5, <1>6 DEF Next

(* The invariant of the arrivals holds from the start and for good.        *)
LEMMA ArrivalInductive == Spec => [](ArrivalTypeOK /\ Sound)
<1>1. Init => ArrivalTypeOK /\ Sound
  BY EmptySeq DEF Init, ArrivalTypeOK, Sound, LegsSound, PendingIsNew, Tokens,
     AcceptedWasPushed, AnswersSound, DisarmWasConfirmed
<1> QED BY <1>1, SoundStep, PTL DEF Spec

(* Every variable stays in its domain.                                     *)
THEOREM ArrivalTypeCorrect == Spec => []TypeOK
<1>1. AlarmTypeOK /\ ArrivalTypeOK => TypeOK
  BY DEF TypeOK, ArrivalTypeOK
<1> QED BY <1>1, ArrivalInductive, ArrivalsUseAlarm, AlarmTypeCorrect, PTL

(* No arrival disarms but on somebody's choice, made in time.              *)
THEOREM ArrivalDisarmsOnChoice == Spec => []DisarmWasConfirmed
<1>1. Sound => DisarmWasConfirmed
  BY DEF Sound
<1> QED BY <1>1, ArrivalInductive, PTL

(* No call to the hub asks a phone twice.                                  *)
THEOREM ArrivalPromptsOnce == Spec => []PromptedOnce
<1>1. Sound => PromptedOnce
  BY DEF Sound, LegsSound, LegSound, PromptedOnce
<1> QED BY <1>1, ArrivalInductive, PTL

(* A token nobody was asked about is never pending, nor does it set the    *)
(* cooldown.                                                               *)
THEOREM ArrivalAcceptsPushed == Spec => []AcceptedWasPushed
<1>1. Sound => AcceptedWasPushed
  BY DEF Sound
<1> QED BY <1>1, ArrivalInductive, PTL
=============================================================================
